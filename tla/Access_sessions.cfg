SPECIFICATION Spec
CONSTANTS
  Processes = {p1, p2}
  Clients = {c1}
  Configs <- MCConfigs
  Staff <- MCStaff
  MaxInvestigators = 2
  TTL = 1
  Leeway = 1
  MaxTime = 3
  MaxStops = 1
  MaxLogins = 1
CHECK_DEADLOCK FALSE
INVARIANTS
  BootstrapIsComplete
  WorkIsBackedByLogin
  Attributable
PROPERTIES
  OnlyFirstStartsSeed
  ServerComesUp
