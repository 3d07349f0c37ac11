CONSTANTS
    Requests = {r1, r2}
    MaxVersion = 3
    MaxAux = 0
    MaxCrashes = 1
    MaxLeftover = 1
    WritesMayFail = FALSE
    MayStop = TRUE
SPECIFICATION Spec
INVARIANTS TypeOK NoOverlappingWrites AckedSavesAreDurable StopFlushesState
PROPERTIES DurableNeverRegresses
CHECK_DEADLOCK FALSE
SYMMETRY Symmetry
