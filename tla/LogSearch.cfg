\* Every log of up to three entries of one or two pages with ids up to five,
\* every id looked for, and one commit at any time during the search.
CONSTANTS
  MaxEntries = 3
  MaxPages = 2
  MaxId = 5
  MaxAppends = 1
SPECIFICATION Spec
INVARIANTS
  TypeOK
  FindsSinglePageEntries
  ScanIsCompleteWhenReadTogether
PROPERTIES
  BoundsCloseIn
  SearchReturns
\* The search ends.
CHECK_DEADLOCK FALSE
