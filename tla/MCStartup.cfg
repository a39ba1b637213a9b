\* Both programs, with and without a log, every failure of a call, one adapter
\* that is asked for or found; descriptors for all that is ever open at once.
SPECIFICATION FairSpec
CONSTANTS
    NULL = NULL
    FD_SETSIZE = 10
    Programs = {"command_line", "applet"}
    HciArgs = {0}
    Routes = {0}
    Failures = {"log", "device", "display", "sd", "hci", "socket", "bus", "filter", "match", "listen", "accept"}
    SelectMayFail = TRUE
CHECK_DEADLOCK FALSE
INVARIANTS
    TypeOK
    OwnDescriptors
    RightCallback
    ContextIsServer
    DispatchNeverBlocks
PROPERTIES
    RemovalEndsServer
