SPECIFICATION Spec
CONSTANTS
  Tasks = {t1, t2, t3}
  NoTask = NoTask
  a = a
  b = b
  Contents <- MCContents
  NoContent = NoContent
  DetachedWrites = FALSE
  MaxRecords = 3
SYMMETRY TaskSymmetry
INVARIANTS
  ChainValid
  TamperingIsFound
PROPERTY
  ImplementsReference
