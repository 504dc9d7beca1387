\* All entries have one page: the miss is due to a commit between the reads.
CONSTANTS
  MaxEntries = 3
  MaxPages = 1
  MaxId = 3
  MaxAppends = 2
SPECIFICATION Spec
INVARIANTS
  ScanIsComplete
CHECK_DEADLOCK FALSE
