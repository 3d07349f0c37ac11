SPECIFICATION Spec
CONSTANTS
  WsConns = {w1}
  SseConns = {s1}
  HttpConns = {h1}
  Fetches = {r1}
  RawSockets = {r1}
  MaxStarts = 2
INVARIANT NoSleepInUse
PROPERTIES
  DeadConnsAreRemoved
  AbandonedActorSleeps
CHECK_DEADLOCK FALSE
