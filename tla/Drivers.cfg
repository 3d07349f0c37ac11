SPECIFICATION Spec
CONSTANTS
  FsTasks = {f1, f2}
  MaxEntries = 3
  ReadsMayFail = TRUE
  StartsMayFail = TRUE
  EnRequests = {e1, e2}
  MaxGenerations = 2
  CfTasks = {c1, c2}
  MaxInstances = 3
INVARIANTS
  AtMostOneInstance
  NeverUninitialised
PROPERTIES
  RequestsSettle
  EngineRequestsSettle
  CloudflareRequestsSettle
CHECK_DEADLOCK FALSE
