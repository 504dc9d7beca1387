\* Words of 2 bits and 10 ids: windows of up to five words, the last one
\* partial or full, are filled in every order.
CONSTANTS
  WordBits = 2
  FirstId = 1
  LastId = 10
SPECIFICATION Spec
INVARIANTS
  TypeOK
  CompleteMeansNoGap
  WindowIsExact
  WordsCoverWindow
\* The run ends when every id has been noted.
CHECK_DEADLOCK FALSE
