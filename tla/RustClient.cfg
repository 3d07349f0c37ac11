CONSTANTS
    MaxCalls = 1
    Events = {e1}
    Transports = {"websocket", "sse"}
    Capacity = 1
    MaxEvents = 2
    MaxFaults = 2
    MayLeave = TRUE
SPECIFICATION Spec
INVARIANTS RequestsSentOnce
PROPERTIES ConnectionRecovers ActionsSettle DisconnectReturns
CHECK_DEADLOCK FALSE
