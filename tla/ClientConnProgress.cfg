CONSTANTS
    MaxCalls = 1
    Listeners = {l1}
    OnceListeners = {l1}
    MaxFaults = 1
    MayDispose = TRUE
SPECIFICATION FairSpec
PROPERTIES CallsSettle Resubscribes
CHECK_DEADLOCK FALSE
