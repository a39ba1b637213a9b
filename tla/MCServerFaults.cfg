\* Three phones for two descriptors, at the same time and with everything
\* that can go wrong.
SPECIFICATION FairSpec
CONSTANTS
    Conn = {a, b, c}
    NoConn = NoConn
    NULL = NULL
    Zero = Zero
    W176 = W176
    H208 = H208
    W320 = W320
    H240 = H240
    FD_SETSIZE = 3
    SERVER_FD = 0
    Greetings = {"screen_off"}
    Gestures = {"key"}
    MaxGestures = 0
    MaxBatch = 1
    Overlap = TRUE
    Rude = TRUE
    Faults = {"select", "accept", "eof", "withdraw"}
CHECK_DEADLOCK FALSE
INVARIANTS
    TypeOK
    NoBlockingRead
    WatchedIsOpen
PROPERTIES
    LoopContract
