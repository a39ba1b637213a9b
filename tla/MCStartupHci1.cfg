\* The second adapter, asked for with -i 1.
SPECIFICATION Spec
CONSTANTS
    NULL = NULL
    FD_SETSIZE = 10
    Programs = {"command_line"}
    HciArgs = {1}
    Routes = {0}
    Failures = {}
    SelectMayFail = FALSE
CHECK_DEADLOCK FALSE
INVARIANTS
    OutIsStdout
