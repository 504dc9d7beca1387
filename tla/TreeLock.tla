------------------------------- MODULE TreeLock -------------------------------
(***************************************************************************)
(* TreeLock and TreeLockHandle of transaction/manager.rs: a lock made of   *)
(* an atomic flag and a mutex-protected list of channels, one for each     *)
(* thread that waits.  Several threads may wait in lock(), the case the    *)
(* code's comments are about; State::fetch_tree_locks itself calls lock()  *)
(* with the mutex tree_locks held, that is, one thread at a time.          *)
(*                                                                         *)
(* Each access to the flag, to the mutex and to a channel is a step of its *)
(* own.  A thread waits on a channel made for that wait (bounded(1), sent  *)
(* to once), so that a thread stands for its channel.                      *)
(***************************************************************************)
CONSTANTS Threads, Nobody

ASSUME NobodyAssumption == Nobody \notin Threads

VARIABLES
  locked,    \* TreeLockData.locked
  blocked,   \* TreeLockData.blocked: the threads whose sender is in the list
  mutex,     \* the thread that holds the mutex on `blocked`, or Nobody
  unblocked, \* the threads whose channel has a message
  pc         \* where each thread is

lockVars == <<locked, blocked, mutex, unblocked, pc>>

Goto(t, place) == pc' = [pc EXCEPT ![t] = place]

LInit ==
  /\ locked = FALSE
  /\ blocked = {}
  /\ mutex = Nobody
  /\ unblocked = {}
  /\ pc = [t \in Threads |-> "idle"]

-----------------------------------------------------------------------------
\* TreeLock::lock

\* The caller enters the loop.
Call(t) ==
  /\ pc[t] = "idle"
  /\ Goto(t, "try")
  /\ UNCHANGED <<locked, blocked, mutex, unblocked>>

\* Mutant: the flag is loaded and stored instead of exchanged.
TryWithoutExchange(t) ==
  /\ \/ pc[t] = "try" /\ ~ locked /\ Goto(t, "seen") /\ UNCHANGED locked
     \/ pc[t] = "try" /\ locked /\ Goto(t, "enter") /\ UNCHANGED locked
     \/ pc[t] = "seen" /\ locked' = TRUE /\ Goto(t, "held")
  /\ UNCHANGED <<blocked, mutex, unblocked>>

\* The compare_exchange at the head of the loop.
TryLock(t) ==
  /\ pc[t] = "try"
  /\ \/ ~ locked /\ locked' = TRUE /\ Goto(t, "held")
     \/ locked /\ Goto(t, "enter") /\ UNCHANGED locked
  /\ UNCHANGED <<blocked, mutex, unblocked>>

\* self.data.blocked.lock()
EnterBlocked(t) ==
  /\ pc[t] = "enter"
  /\ mutex = Nobody
  /\ mutex' = t
  /\ Goto(t, "recheck")
  /\ UNCHANGED <<locked, blocked, unblocked>>

\* Mutant: the thread waits without looking at the flag again.
RecheckSkipped(t) ==
  /\ pc[t] = "recheck"
  /\ mutex' = Nobody
  /\ Goto(t, "wait")
  /\ blocked' = blocked \cup {t}
  /\ UNCHANGED <<locked, unblocked>>

\* Under the mutex: the lock is tried again if nobody waits, else the thread
\* leaves a sender in the list.  Either way the mutex is released.
Recheck(t) ==
  /\ pc[t] = "recheck"
  /\ mutex' = Nobody
  /\ \/ /\ blocked = {} /\ ~ locked
        /\ locked' = TRUE
        /\ Goto(t, "held")
        /\ UNCHANGED blocked
     \/ /\ blocked # {} \/ locked
        /\ blocked' = blocked \cup {t}
        /\ Goto(t, "wait")
        /\ UNCHANGED locked
  /\ UNCHANGED unblocked

\* unblocked_receiver.recv(), and around the loop.
Unblocked(t) ==
  /\ pc[t] = "wait"
  /\ t \in unblocked
  /\ unblocked' = unblocked \ {t}
  /\ Goto(t, "try")
  /\ UNCHANGED <<locked, blocked, mutex>>

-----------------------------------------------------------------------------
\* Drop for TreeLockHandle

\* locked.store(false)
Unlock(t) ==
  /\ pc[t] = "held"
  /\ locked' = FALSE
  /\ Goto(t, "unlocked")
  /\ UNCHANGED <<blocked, mutex, unblocked>>

\* data.blocked.lock()
EnterDrain(t) ==
  /\ pc[t] = "unlocked"
  /\ mutex = Nobody
  /\ mutex' = t
  /\ Goto(t, "drain")
  /\ UNCHANGED <<locked, blocked, unblocked>>

\* Mutant: one waiting thread is woken, and the list is cleared.
DrainOne(t, u) ==
  /\ pc[t] = "drain"
  /\ u \in blocked
  /\ blocked' = {}
  /\ unblocked' = unblocked \cup {u}
  /\ UNCHANGED <<locked, mutex, pc>>

\* One round of the loop over the drained list.
Drain(t, u) ==
  /\ pc[t] = "drain"
  /\ u \in blocked
  /\ blocked' = blocked \ {u}
  /\ unblocked' = unblocked \cup {u}
  /\ UNCHANGED <<locked, mutex, pc>>

\* The guard on `blocked` goes out of scope.
Drained(t) ==
  /\ pc[t] = "drain"
  /\ blocked = {}
  /\ mutex' = Nobody
  /\ Goto(t, "idle")
  /\ UNCHANGED <<locked, blocked, unblocked>>

-----------------------------------------------------------------------------
LockSteps(t) ==
  \/ TryLock(t)
  \/ EnterBlocked(t)
  \/ Recheck(t)
  \/ Unblocked(t)

DropSteps(t) ==
  \/ Unlock(t)
  \/ EnterDrain(t)
  \/ \E u \in Threads : Drain(t, u)
  \/ Drained(t)

LNext == \E t \in Threads : Call(t) \/ LockSteps(t) \/ DropSteps(t)

LSpec == LInit /\ [][LNext]_lockVars

(***************************************************************************)
(* Every thread inside lock() or drop() is scheduled, and a handle is      *)
(* dropped some time.  The mutex is given to each thread that waits for it *)
(* sometime (parking_lot hands it over after a while), so that it takes    *)
(* strong fairness.                                                        *)
(***************************************************************************)
LFairSpec ==
  /\ LSpec
  /\ \A t \in Threads :
       /\ WF_lockVars(LockSteps(t))
       /\ WF_lockVars(DropSteps(t))
       /\ SF_lockVars(EnterBlocked(t))
       /\ SF_lockVars(EnterDrain(t))

-----------------------------------------------------------------------------
LTypeOK ==
  /\ locked \in BOOLEAN
  /\ blocked \subseteq Threads
  /\ mutex \in Threads \cup {Nobody}
  /\ unblocked \subseteq Threads
  /\ pc \in [Threads -> {"idle", "try", "enter", "recheck", "wait", "held", "unlocked", "drain"}]

\* At most one thread has a TreeLockHandle at a time, barging included.
MutualExclusion == \A t, u \in Threads : pc[t] = "held" /\ pc[u] = "held" => t = u

(***************************************************************************)
(* No wakeup is lost: a thread that waits and has no message is still in   *)
(* the list, and either the lock is held or a thread that has released it  *)
(* has still to empty the list.                                            *)
(***************************************************************************)
NoLostWakeup ==
  \A t \in Threads :
    pc[t] = "wait" /\ t \notin unblocked =>
      /\ t \in blocked
      /\ locked \/ \E u \in Threads : pc[u] \in {"unlocked", "drain"}

\* The holder is the thread between its successful exchange and its store.
Holder ==
  IF \E t \in Threads : pc[t] = "held"
  THEN CHOOSE t \in Threads : pc[t] = "held"
  ELSE Nobody

Lock == INSTANCE AtomicLock WITH holder <- Holder

\* The flag, the list and the channels together behave as one atomic lock.
ImplementsLock == Lock!LockSpec

(***************************************************************************)
(* As long as some thread wants the lock, some thread gets it.  (One       *)
(* thread may starve: a newcomer's first exchange may win each time.)      *)
(***************************************************************************)
SomeoneGetsIn ==
  (\E t \in Threads : pc[t] \in {"try", "enter", "recheck", "wait"})
    ~> (\E t \in Threads : pc[t] = "held")
=============================================================================
