SPECIFICATION Spec
CONSTANTS
  Requests = {r1, r2}
  h1 = h1
  h2 = h2
  h3 = h3
  Handles = {h1, h2, h3}
  Names = {"counter", "closed", "unknown"}
  Registered = {"counter", "closed"}
  WithOnAuth = {"counter"}
  Via <- MCVia
SYMMETRY Symmetry
CHECK_DEADLOCK FALSE
INVARIANTS
  OnlyAdminsCreate
  ErrorsKeepTheirCode
