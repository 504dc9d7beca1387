\* Four threads: one holds the lock, one barges in, and two wait.  No symmetry,
\* which is unsound for liveness.
CONSTANTS
  Threads = {t1, t2, t3, t4}
  Nobody = Nobody
  t1 = t1
  t2 = t2
  t3 = t3
  t4 = t4
SPECIFICATION LFairSpec
INVARIANTS
  LTypeOK
  MutualExclusion
  NoLostWakeup
PROPERTIES
  ImplementsLock
  SomeoneGetsIn
