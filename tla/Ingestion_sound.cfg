SPECIFICATION FairSpec
CONSTANTS
  MaxTx = 4
  PageLimit = 2
  Demo = 1
  Postable = {2, 3}
  MaxPosts = 1
  Suspicious = {2, 5}
  Faults = {"crash", "storage", "fetch", "write_cursor", "read_cursor", "dead_letter", "disconnect"}
  MaxFaults = 2
INVARIANTS
  NoGap
  DuplicatesAreExplained
  HandledIsAlerted
PROPERTIES
  CursorAdvances
  EventuallyAccounted
