\* Two phones at the same time, each leaving when it likes, and a server in
\* which select(), accept() and screenshots may fail: what both need is done
\* in the end, and only those failures end the server.
SPECIFICATION FairSpec
CONSTANTS
    Conn = {a, b}
    NoConn = NoConn
    NULL = NULL
    Zero = Zero
    W176 = W176
    H208 = H208
    W320 = W320
    H240 = H240
    FD_SETSIZE = 3
    SERVER_FD = 0
    Greetings = {"screen_off"}
    Gestures = {"move", "shot"}
    MaxGestures = 1
    MaxBatch = 2
    Overlap = TRUE
    Rude = TRUE
    Faults = {"shot", "tmp", "select", "accept", "withdraw"}
PROPERTIES
    EndsByFault
    GoneIsClosed
    LinesAreRead
