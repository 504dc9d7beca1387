\* All entries have one page: the cache is wrong because the answer of the search
\* is noted after a commit is.
CONSTANTS
  MaxEntries = 3
  MaxPages = 1
  MaxId = 3
  MaxAppends = 2
SPECIFICATION Spec
INVARIANTS
  CacheDeniesNoCommit
CHECK_DEADLOCK FALSE
