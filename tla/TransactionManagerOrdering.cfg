\* Three threads, so that the commands of two can arrive in either order while
\* a third still runs; five ids and words of two bits, so that the window
\* crosses two word boundaries; a channel of two places, so that it can be full.
\* One tree: transactions on it exclude each other, those without it do not.
CONSTANTS
  t1 = t1
  t2 = t2
  t3 = t3
  Threads = {t1, t2, t3}
  Trees = {1}
  Capacity = 2
  WordBits = 2
  MaxId = 5
  MaxCrashes = 0
SPECIFICATION Spec
SYMMETRY ThreadSymmetry
INVARIANTS
  TypeOK
  CommitsInOrder
  ManagerNeverPanics
  BatchWaitsForSomeone
  TransactionsAreIsolated
PROPERTIES
  OnlyWaitingCommitsAreLogged
  PublishedInIdOrder
\* The threads stop when the ids are used up.
CHECK_DEADLOCK FALSE
