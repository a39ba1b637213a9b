\* Lines of one, two and three bytes for a buffer of five: a read can get a
\* line, a part of one, several, or the end of one and the start of the next.
\* The connection is closed in the end, and nothing follows.
SPECIFICATION FairSpec
CONSTANTS
    BUF_SIZE = 6
    TOTAL = 11
    Ends = {3, 4, 6, 8, 11}
    Deliveries = {"lines", "bytes"}
    Endings = {"error", "eof"}
CHECK_DEADLOCK FALSE
INVARIANTS
    TypeOK
    InBuffer
    NeverZero
    LossIsAtCuts
PROPERTIES
    CallReturns
