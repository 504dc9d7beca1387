\* No commit during the search: the miss is due to an entry of several pages.
CONSTANTS
  MaxEntries = 3
  MaxPages = 3
  MaxId = 6
  MaxAppends = 0
SPECIFICATION Spec
INVARIANTS
  FindsEveryEntry
CHECK_DEADLOCK FALSE
