\* Two phones that move the pointer at the same time and break no rule.
SPECIFICATION Spec
CONSTANTS
    Conn = {a, b}
    NoConn = NoConn
    NULL = NULL
    Zero = Zero
    W176 = W176
    H208 = H208
    W320 = W320
    H240 = H240
    FD_SETSIZE = 3
    SERVER_FD = 0
    Greetings = {"screen_off"}
    Gestures = {"move"}
    MaxGestures = 1
    MaxBatch = 2
    Overlap = TRUE
    Rude = FALSE
    Faults = {}
INVARIANT WarpIsOneGesture
