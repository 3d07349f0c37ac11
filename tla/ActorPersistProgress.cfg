CONSTANTS
    Requests = {r1}
    MaxVersion = 3
    MaxAux = 1
    MaxCrashes = 0
    MaxLeftover = 0
    WritesMayFail = TRUE
    MayStop = TRUE
SPECIFICATION Spec
PROPERTIES ActionChangesReachStorage
CHECK_DEADLOCK FALSE
