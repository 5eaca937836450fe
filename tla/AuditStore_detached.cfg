SPECIFICATION FairSpec
CONSTANTS
  Tasks = {t1, t2, t3}
  NoTask = NoTask
  a = a
  b = b
  Contents <- OneContent
  NoContent = NoContent
  DetachedWrites = TRUE
  MaxRecords = 3
INVARIANT
  SoundLog
PROPERTIES
  AppendOnly
  AppendReturns
