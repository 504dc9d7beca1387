---------------------------- MODULE TreeLockProofs ----------------------------
(***************************************************************************)
(* A TreeLock is a lock, loses no wakeup and implements AtomicLock, for    *)
(* any number of threads.                                                  *)
(***************************************************************************)
EXTENDS TreeLock, TLAPS

(***************************************************************************)
(* The inductive invariant: the flag tells whether some thread has a       *)
(* handle, the mutex whether some thread is between its lock and unlock,   *)
(* and the threads that wait are those in the list or with a message.      *)
(***************************************************************************)
FlagInv ==
  /\ MutualExclusion
  /\ locked <=> \E t \in Threads : pc[t] = "held"

MutexInv == \A t \in Threads : pc[t] \in {"recheck", "drain"} <=> mutex = t

WaitInv ==
  /\ \A t \in Threads : pc[t] = "wait" <=> t \in blocked \cup unblocked
  /\ blocked \cap unblocked = {}
  /\ blocked # {} => locked \/ \E u \in Threads : pc[u] \in {"unlocked", "drain"}

LIInv == LTypeOK /\ FlagInv /\ MutexInv /\ WaitInv

LEMMA InitLIInv == LInit => LIInv
  BY NobodyAssumption
  DEF LInit, LIInv, LTypeOK, FlagInv, MutualExclusion, MutexInv, WaitInv

\* What a step of thread t is, without the disjunctions of LNext.
LEMMA StepCases ==
  ASSUME LNext
  PROVE  \E t \in Threads :
           \/ Call(t) \/ TryLock(t) \/ EnterBlocked(t) \/ Recheck(t) \/ Unblocked(t)
           \/ Unlock(t) \/ EnterDrain(t) \/ (\E u \in Threads : Drain(t, u)) \/ Drained(t)
  BY DEF LNext, LockSteps, DropSteps

LEMMA StepLTypeOK ==
  ASSUME LTypeOK, LNext
  PROVE  LTypeOK'
<1>1. PICK t \in Threads :
        \/ Call(t) \/ TryLock(t) \/ EnterBlocked(t) \/ Recheck(t) \/ Unblocked(t)
        \/ Unlock(t) \/ EnterDrain(t) \/ (\E u \in Threads : Drain(t, u)) \/ Drained(t)
  BY StepCases
<1>2. CASE Call(t) \/ TryLock(t) \/ EnterBlocked(t) \/ Unlock(t) \/ EnterDrain(t) \/ Drained(t)
  BY <1>2 DEF LTypeOK, Call, TryLock, EnterBlocked, Unlock, EnterDrain, Drained, Goto
<1>3. CASE Recheck(t)
  BY <1>3 DEF LTypeOK, Recheck, Goto
<1>4. CASE Unblocked(t) \/ \E u \in Threads : Drain(t, u)
  BY <1>4 DEF LTypeOK, Unblocked, Drain, Goto
<1> QED
  BY <1>1, <1>2, <1>3, <1>4

LEMMA StepFlagInv ==
  ASSUME LTypeOK, FlagInv, LNext
  PROVE  FlagInv'
<1>1. PICK t \in Threads :
        \/ Call(t) \/ TryLock(t) \/ EnterBlocked(t) \/ Recheck(t) \/ Unblocked(t)
        \/ Unlock(t) \/ EnterDrain(t) \/ (\E u \in Threads : Drain(t, u)) \/ Drained(t)
  BY StepCases
<1> USE DEF LTypeOK, FlagInv, MutualExclusion, Goto
<1>2. CASE \/ locked' = locked /\ pc' = pc
           \/ /\ locked' = locked
              /\ pc[t] # "held"
              /\ \E place \in {"idle", "try", "enter", "recheck", "wait", "unlocked", "drain"} :
                   pc' = [pc EXCEPT ![t] = place]
  BY <1>2
<1>3. CASE ~ locked /\ locked' = TRUE /\ pc' = [pc EXCEPT ![t] = "held"]
  BY <1>3
<1>4. CASE Unlock(t)
  BY <1>4 DEF Unlock
<1>5. CASE TryLock(t) \/ Recheck(t)
  BY <1>2, <1>3, <1>5 DEF TryLock, Recheck
<1>6. CASE \/ Call(t) \/ EnterBlocked(t) \/ Unblocked(t) \/ EnterDrain(t) \/ Drained(t)
           \/ \E u \in Threads : Drain(t, u)
  BY <1>2, <1>6 DEF Call, EnterBlocked, Unblocked, EnterDrain, Drained, Drain
<1> QED
  BY <1>1, <1>4, <1>5, <1>6

LEMMA StepMutexInv ==
  ASSUME LTypeOK, MutexInv, LNext
  PROVE  MutexInv'
<1>1. PICK t \in Threads :
        \/ Call(t) \/ TryLock(t) \/ EnterBlocked(t) \/ Recheck(t) \/ Unblocked(t)
        \/ Unlock(t) \/ EnterDrain(t) \/ (\E u \in Threads : Drain(t, u)) \/ Drained(t)
  BY StepCases
<1> USE NobodyAssumption DEF LTypeOK, MutexInv, Goto
<1>2. CASE Call(t) \/ TryLock(t) \/ Unblocked(t) \/ Unlock(t) \/ \E u \in Threads : Drain(t, u)
  BY <1>2 DEF Call, TryLock, Unblocked, Unlock, Drain
<1>3. CASE EnterBlocked(t) \/ EnterDrain(t)
  BY <1>3 DEF EnterBlocked, EnterDrain
<1>4. CASE Recheck(t) \/ Drained(t)
  BY <1>4 DEF Recheck, Drained
<1> QED
  BY <1>1, <1>2, <1>3, <1>4

LEMMA StepWaitInv ==
  ASSUME LTypeOK, WaitInv, LNext
  PROVE  WaitInv'
<1>1. PICK t \in Threads :
        \/ Call(t) \/ TryLock(t) \/ EnterBlocked(t) \/ Recheck(t) \/ Unblocked(t)
        \/ Unlock(t) \/ EnterDrain(t) \/ (\E u \in Threads : Drain(t, u)) \/ Drained(t)
  BY StepCases
<1> USE DEF LTypeOK, WaitInv, Goto
<1>2. CASE Call(t) \/ TryLock(t) \/ EnterBlocked(t)
  BY <1>2 DEF Call, TryLock, EnterBlocked
<1>3. CASE Recheck(t)
  BY <1>3 DEF Recheck
<1>4. CASE Unblocked(t)
  BY <1>4 DEF Unblocked
<1>5. CASE Unlock(t) \/ EnterDrain(t) \/ Drained(t)
  BY <1>5 DEF Unlock, EnterDrain, Drained
<1>6. CASE \E u \in Threads : Drain(t, u)
  BY <1>6 DEF Drain
<1> QED
  BY <1>1, <1>2, <1>3, <1>4, <1>5, <1>6

\* The invariant holds in every reachable state.
THEOREM LockInductive == LSpec => []LIInv
<1>1. LIInv /\ [LNext]_lockVars => LIInv'
  <2>1. CASE LNext
    BY <2>1, StepLTypeOK, StepFlagInv, StepMutexInv, StepWaitInv DEF LIInv
  <2>2. CASE UNCHANGED lockVars
    BY <2>2 DEF lockVars, LIInv, LTypeOK, FlagInv, MutualExclusion, MutexInv, WaitInv
  <2> QED
    BY <2>1, <2>2
<1> QED
  BY <1>1, InitLIInv, PTL DEF LSpec

(***************************************************************************)
(* TreeLock::lock never hands out two handles at a time.                   *)
(***************************************************************************)
THEOREM Exclusion == LSpec => []MutualExclusion
<1>1. LIInv => MutualExclusion
  BY DEF LIInv, FlagInv
<1> QED
  BY <1>1, LockInductive, PTL

(***************************************************************************)
(* A thread blocked in TreeLock::lock is always in the list of a holder or *)
(* of a releasing thread that will wake it.                                *)
(***************************************************************************)
THEOREM WakeupsAreKept == LSpec => []NoLostWakeup
<1>1. LIInv => NoLostWakeup
  BY DEF LIInv, WaitInv, LTypeOK, NoLostWakeup
<1> QED
  BY <1>1, LockInductive, PTL

\* With exclusion, the thread that holds the lock is Holder.
LEMMA HolderFact ==
  ASSUME LTypeOK, MutualExclusion
  PROVE  /\ \A t \in Threads : pc[t] = "held" <=> Holder = t
         /\ Holder \in Threads \cup {Nobody}
  BY NobodyAssumption DEF LTypeOK, MutualExclusion, Holder

(***************************************************************************)
(* Each step of lock() and drop() is a Take, a Give or nothing to the      *)
(* atomic lock that TransactionManager uses.                               *)
(***************************************************************************)
THEOREM LockRefinement == LSpec => ImplementsLock
<1>1. LInit => Lock!LockInit
  BY DEF LInit, Holder, Lock!LockInit
<1>2. ASSUME LIInv, LIInv', LNext
      PROVE  Lock!LockNext \/ UNCHANGED Holder
  <2>1. PICK t \in Threads :
          \/ Call(t) \/ TryLock(t) \/ EnterBlocked(t) \/ Recheck(t) \/ Unblocked(t)
          \/ Unlock(t) \/ EnterDrain(t) \/ (\E u \in Threads : Drain(t, u)) \/ Drained(t)
    BY <1>2, StepCases
  <2>2. /\ \A u \in Threads : pc[u] = "held" <=> Holder = u
        /\ Holder \in Threads \cup {Nobody}
        /\ \A u \in Threads : pc'[u] = "held" <=> Holder' = u
        /\ Holder' \in Threads \cup {Nobody}
    <3>1. /\ \A u \in Threads : pc[u] = "held" <=> Holder = u
          /\ Holder \in Threads \cup {Nobody}
      BY <1>2, HolderFact DEF LIInv, FlagInv
    <3>2. LTypeOK' /\ MutualExclusion'
      BY <1>2 DEF LIInv, FlagInv
    <3>3. /\ \A u \in Threads : pc'[u] = "held" <=> Holder' = u
          /\ Holder' \in Threads \cup {Nobody}
      BY <3>2, NobodyAssumption DEF LTypeOK, MutualExclusion, Holder
    <3> QED
      BY <3>1, <3>3
  <2>3. CASE ~ locked /\ pc' = [pc EXCEPT ![t] = "held"]
    <3>1. Holder = Nobody
      BY <1>2, <2>2, <2>3 DEF LIInv, FlagInv
    <3>2. Holder' = t
      BY <1>2, <2>2, <2>3 DEF LIInv, LTypeOK
    <3> QED
      BY <3>1, <3>2 DEF Lock!LockNext, Lock!Take
  <2>4. CASE pc[t] = "held" /\ pc' = [pc EXCEPT ![t] = "unlocked"]
    <3>1. Holder = t
      BY <2>2, <2>4
    <3>2. \A u \in Threads : pc'[u] # "held"
      BY <1>2, <2>4 DEF LIInv, LTypeOK, FlagInv, MutualExclusion
    <3>3. Holder' = Nobody
      BY <2>2, <3>2
    <3> QED
      BY <3>1, <3>3 DEF Lock!LockNext, Lock!Give
  <2>5. CASE \A u \in Threads : pc'[u] = "held" <=> pc[u] = "held"
    BY <2>2, <2>5, NobodyAssumption
  <2>6. CASE TryLock(t) \/ Recheck(t) \/ Unlock(t)
    <3>1. CASE \/ pc[t] = "try" /\ pc' = [pc EXCEPT ![t] = "enter"]
               \/ pc[t] = "recheck" /\ pc' = [pc EXCEPT ![t] = "wait"]
      BY <1>2, <2>5, <3>1 DEF LIInv, LTypeOK
    <3> QED
      BY <2>3, <2>4, <2>6, <3>1 DEF TryLock, Recheck, Unlock, Goto
  <2>7. CASE \/ Call(t) \/ EnterBlocked(t) \/ Unblocked(t) \/ EnterDrain(t) \/ Drained(t)
             \/ \E u \in Threads : Drain(t, u)
    BY <1>2, <2>5, <2>7
    DEF LIInv, LTypeOK, Call, EnterBlocked, Unblocked, EnterDrain, Drained, Drain, Goto
  <2> QED
    BY <2>1, <2>6, <2>7
<1>3. UNCHANGED lockVars => UNCHANGED Holder
  BY DEF lockVars, Holder
<1>4. LIInv /\ LIInv' /\ [LNext]_lockVars => [Lock!LockNext]_Holder
  BY <1>2, <1>3
<1> QED
  BY <1>1, <1>4, LockInductive, PTL DEF LSpec, ImplementsLock, Lock!LockSpec
=============================================================================
