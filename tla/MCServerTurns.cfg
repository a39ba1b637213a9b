\* Two phones, one after the other, that finish their gestures and say
\* good-bye: every pair of gestures of one phone, and every remainder that
\* the first can leave to the second.
SPECIFICATION FairSpec
CONSTANTS
    Conn = {a, b}
    NoConn = NoConn
    NULL = NULL
    Zero = Zero
    W176 = W176
    H208 = H208
    W320 = W320
    H240 = H240
    FD_SETSIZE = 2
    SERVER_FD = 0
    Greetings = {"screen_on"}
    Gestures = {"move", "hold", "release", "right", "click_shot", "rotated_shot"}
    MaxGestures = 2
    MaxBatch = 3
    Overlap = FALSE
    Rude = FALSE
    Faults = {"withdraw"}
INVARIANTS
    WarpIsOneGesture
    ClickIsOwnButton
    PictureIsOwn
    PhonesAreShown
PROPERTIES
    OneSessionEach
    ShotIsAnswered
