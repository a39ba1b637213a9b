\* Five bytes, written 12 to the base 3, in chunks of three through a window of
\* three: partial writes, a last chunk that is shorter, a size of which only the
\* first digit arrives.
SPECIFICATION FairSpec
CONSTANTS
    SIZE = 5
    BASE = 3
    DIGITS = 2
    LENGTH = 3
    FIRST = 3
    byte_read = 3
    WINDOW = 3
    Failures = {"capture", "rescale", "mkdtemp", "save", "open", "unlink", "rmdir", "kill"}
CHECK_DEADLOCK FALSE
INVARIANTS
    TypeOK
    SentInOrder
    NothingLeft
    OnlySizeMatters
PROPERTIES
    NobodyWaits
