CONSTANTS
    Events = {e1, e2}
    Alarms = {a1, a2}
    MaxTime = 2
    EarlyBy = 1
    MaxSleeps = 1
    MaxCrashes = 0
    WritesMayFail = TRUE
    StartMayFail = TRUE
SPECIFICATION Spec
PROPERTIES EveryEventRuns
CHECK_DEADLOCK FALSE
