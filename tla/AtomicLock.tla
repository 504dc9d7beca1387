------------------------------ MODULE AtomicLock ------------------------------
(***************************************************************************)
(* What a TreeLock promises: it is held by one thread at a time, and is    *)
(* taken and released in one step.  This is how module TransactionManager  *)
(* uses it.                                                                *)
(***************************************************************************)
CONSTANTS Threads, Nobody

VARIABLE holder

LockInit == holder = Nobody

Take(t) == holder = Nobody /\ holder' = t

Give(t) == holder = t /\ holder' = Nobody

LockNext == \E t \in Threads : Take(t) \/ Give(t)

LockSpec == LockInit /\ [][LockNext]_holder
=============================================================================
