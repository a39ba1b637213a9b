\* Whole lines, and a read() that returns 0 when the phone has left.
SPECIFICATION FairSpec
CONSTANTS
    BUF_SIZE = 6
    TOTAL = 11
    Ends = {3, 4, 6, 8, 11}
    Deliveries = {"lines"}
    Endings = {"eof"}
CHECK_DEADLOCK FALSE
PROPERTY EndIsReported
