SPECIFICATION Spec
CONSTANTS
  Alerts = {a1}
  Requests = {r1, r2}
  NoRequest = NoRequest
  NoAlert = NoAlert
  Decisions = {"dismissed", "escalated"}
  MaxFaults = 0
SYMMETRY RequestSymmetry
CHECK_DEADLOCK FALSE
INVARIANT
  StatusIsLastOfHistory
