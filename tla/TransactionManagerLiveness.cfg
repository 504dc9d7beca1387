\* Two threads and a channel of one place: each can wait for the other's
\* transaction, for a tree, for the mutex and for the channel.  No symmetry,
\* which is not sound for liveness.
CONSTANTS
  t1 = t1
  t2 = t2
  Threads = {t1, t2}
  Trees = {1, 2}
  Capacity = 1
  WordBits = 2
  MaxId = 3
  MaxCrashes = 0
SPECIFICATION FairSpec
PROPERTIES
  CommitReturns
  TreesAreEventuallyLocked
\* The threads stop when the ids are used up.
CHECK_DEADLOCK FALSE
