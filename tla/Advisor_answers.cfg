SPECIFICATION Spec
CONSTANTS
  MAX_TEXT_LEN = 3
  MAX_SHORT_LEN = 2
  MAX_LIST_ITEMS = 2
  Inputs <- MCInputs
INVARIANTS
  StoredIsSafe
  NothingElseIsLost
  BlankSummaryIsExplained
