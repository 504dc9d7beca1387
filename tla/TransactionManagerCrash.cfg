\* As the ordering run, with one crash at any point and three ids: two can be
\* in the log, durable or not, when the third is lost.
CONSTANTS
  t1 = t1
  t2 = t2
  t3 = t3
  Threads = {t1, t2, t3}
  Trees = {1, 2}
  Capacity = 2
  WordBits = 2
  MaxId = 3
  MaxCrashes = 1
SPECIFICATION Spec
SYMMETRY ThreadSymmetry
INVARIANTS
  LogAscending
  AckedIsDurable
  PublishedIsDurable
PROPERTIES
  ImplementsHistory
\* The threads stop when the ids are used up.
CHECK_DEADLOCK FALSE
