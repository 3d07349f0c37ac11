CONSTANTS
    MaxCalls = 2
    Listeners = {l1}
    OnceListeners = {}
    MaxFaults = 1
    MayDispose = FALSE
SPECIFICATION Spec
INVARIANTS TypeOK ActionsRunOnce NeverStranded SubscriptionsRestored AnswersFindTheirCall EventBeforeAnswer
CHECK_DEADLOCK FALSE
