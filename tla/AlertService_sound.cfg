SPECIFICATION FairSpec
CONSTANTS
  Alerts = {a1}
  Requests = {r1, r2}
  NoRequest = NoRequest
  NoAlert = NoAlert
  Decisions = {"dismissed", "escalated"}
  MaxFaults = 1
CHECK_DEADLOCK FALSE
INVARIANTS
  TypeOK
  StatusIsLatestCommit
  AuditedIsCommitted
  PreviousStatusWasReal
  AnchorIsAudited
  AuditIsOrdered
  CompleteWithoutFaults
PROPERTIES
  HistoryIsKept
  DecisionReturns
  AdvisorySettles
