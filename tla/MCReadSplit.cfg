\* The bytes of a line may arrive apart.
SPECIFICATION Spec
CONSTANTS
    BUF_SIZE = 6
    TOTAL = 11
    Ends = {3, 4, 6, 8, 11}
    Deliveries = {"bytes"}
    Endings = {"error"}
CHECK_DEADLOCK FALSE
INVARIANT LinesIntact
