SPECIFICATION PSpec
CONSTANTS
  Alerts = {a1}
  Requests = {r1, r2}
  NoRequest = NoRequest
  NoAlert = NoAlert
  Decisions = {"escalated"}
  MaxFaults = 1
  MaxPages = 2
CONSTRAINT NotOnChain
SYMMETRY RequestSymmetry
CHECK_DEADLOCK FALSE
INVARIANT
  PageIsExplained
PROPERTIES
  PagesOnlyGrow
