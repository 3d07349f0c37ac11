CONSTANTS
    Events = {e1, e2, e3}
    Alarms = {a1, a2}
    MaxTime = 2
    EarlyBy = 1
    MaxSleeps = 1
    MaxCrashes = 1
    WritesMayFail = FALSE
    StartMayFail = FALSE
SPECIFICATION Spec
INVARIANTS TypeOK ScheduleSorted NextEventIsArmed NextEventIsOnDisk TakenOnce
CHECK_DEADLOCK FALSE
SYMMETRY Symmetry
