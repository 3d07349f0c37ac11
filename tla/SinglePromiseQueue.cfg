CONSTANT MaxCalls = 9
SPECIFICATION Spec
INVARIANTS TypeOK AtMostOneRunning ResolvedWasCovered NoCallerForgotten
PROPERTIES EveryCallResolves AbstractSpec
CHECK_DEADLOCK FALSE
