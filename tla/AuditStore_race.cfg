SPECIFICATION Spec
CONSTANTS
  Tasks = {t1, t2}
  NoTask = NoTask
  a = a
  b = b
  Contents <- OneContent
  NoContent = NoContent
  DetachedWrites = TRUE
  MaxRecords = 3
INVARIANT
  ChainValid
