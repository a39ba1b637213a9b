\* Three descriptors, so that a pass can have one behind, at and ahead of the
\* scan; one callback, because the loop treats them alike.
SPECIFICATION FairSpec
CONSTANTS
    FD_SETSIZE = 3
    Callback = {cb}
    Context = {}
    NULL = NULL
    SelectMayFail = TRUE
INVARIANTS
    TypeOK
    LoopSetOK
    PendingIsWatched
PROPERTIES
    NoNullDispatch
    PassServesAllReady
    NoStarvation
