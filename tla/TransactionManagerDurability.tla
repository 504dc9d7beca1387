--------------------- MODULE TransactionManagerDurability ---------------------
(***************************************************************************)
(* What a committed transaction can rely on: isolation while it runs, and  *)
(* a durable log entry before commit() returns and before its trees are    *)
(* published.  The proofs build on the inductive invariant IInv.           *)
(***************************************************************************)
EXTENDS TransactionManagerProofs

(***************************************************************************)
(* The threads behind the commits that the manager thread knows of are     *)
(* blocked in push(), and what is being written is what will be answered.  *)
(***************************************************************************)
CommittersInv ==
  /\ \A c \in batch \cup replies : pc[c.thread] = "waiting" /\ txid[c.thread] = c.id
  /\ mpc # "stopped" =>
       \A i \in 1 .. Len(channel) : channel[i].kind = "Commit" =>
         pc[channel[i].thread] = "waiting" /\ txid[channel[i].thread] = channel[i].id
  /\ mpc = "stopped" => batch = {}
  /\ \A c \in replies : \A d \in batch : c.id < d.id
  /\ \A c \in replies : IsNoted(pending, c.id)
  /\ replies # {} <=> mpc \in {"write", "sync", "note", "reply"}
  /\ \A w \in writing : \E c \in replies : c.id = w

\* The locks a thread holds, and those it needs.
LockInv ==
  /\ \A x \in Trees : \A t \in Threads : owner[x] = t => x \in trees[t] /\ pc[t] # "idle"
  /\ \A t \in Threads : Active(t) => \A x \in trees[t] : owner[x] = t

-----------------------------------------------------------------------------
\* What the steps do to the threads, the batch and the channel.

\* A thread blocked in push() does nothing while the manager thread runs.
LEMMA WaitingStays ==
  ASSUME TypeOK, NEW t \in Threads, ThreadStep(t), mpc # "stopped",
         NEW u \in Threads, pc[u] = "waiting"
  PROVE  pc'[u] = "waiting" /\ txid'[u] = txid[u]
<1> USE DEF TypeOK
<1>1. ASSUME NEW requested, NewTransaction(t, requested) PROVE pc'[u] = "waiting" /\ txid'[u] = txid[u]
  BY <1>1 DEF NewTransaction
<1>2. CASE LockTree(t) \/ \E x \in Trees : PublishTree(t, x) \/ ReleaseLock(t, x)
  BY <1>2 DEF LockTree, PublishTree, ReleaseLock, threadVars
<1>3. CASE TreesLocked(t)
  BY <1>3 DEF TreesLocked
<1>4. CASE AllocateId(t)
  BY <1>4 DEF AllocateId
<1>5. CASE Commit(t) \/ CommitFails(t) \/ Rollback(t)
  BY <1>5 DEF Commit, CommitFails, Rollback
<1>6. CASE TreesPublished(t) \/ LocksReleased(t) \/ ChannelDropped(t)
  BY <1>6 DEF TreesPublished, LocksReleased, ChannelDropped
<1> QED
  BY <1>1, <1>2, <1>3, <1>4, <1>5, <1>6 DEF ThreadStep

\* A thread that sends a Commit waits for its answer.
LEMMA ThreadSends ==
  ASSUME IInv, NEW t \in Threads, ThreadStep(t)
  PROVE  \/ channel' = channel
         \/ \E e \in Command :
              /\ channel' = Append(channel, e)
              /\ e.kind = "Commit" => pc'[e.thread] = "waiting" /\ txid'[e.thread] = e.id
<1>1. CASE Commit(t)
  <2> DEFINE e == [kind |-> "Commit", id |-> txid[t], thread |-> t]
  <2>1. e \in Command /\ channel' = Append(channel, e)
    BY <1>1 DEF Commit, IInv, IdsInv, TypeOK, Command
  <2>2. pc'[t] = "waiting" /\ txid'[t] = txid[t]
    BY <1>1 DEF Commit, IInv, TypeOK
  <2> QED
    BY <2>1, <2>2
<1>2. CASE Rollback(t)
  <2> DEFINE e == [kind |-> "Drop", id |-> txid[t], thread |-> t]
  <2>1. e \in Command /\ e.kind # "Commit"
    BY <1>2 DEF Rollback, IInv, IdsInv, TypeOK, Command
  <2>2. channel' = channel \/ channel' = Append(channel, e)
    BY <1>2 DEF Rollback
  <2> HIDE DEF e
  <2> QED
    BY <2>1, <2>2
<1>3. CASE ~ Commit(t) /\ ~ Rollback(t)
  BY <1>3 DEF ThreadStep, NewTransaction, LockTree, TreesLocked, AllocateId, CommitFails,
              PublishTree, TreesPublished, ReleaseLock, LocksReleased, ChannelDropped
<1> QED
  BY <1>1, <1>2, <1>3

\* What is in `after` was in transaction_batch or has just been received.
Taken(after) ==
  \A c \in after : c \in batch \/ (channel # <<>> /\ Head(channel).kind = "Commit" /\ c = Received)

\* A command moves commits from the channel to the batch, and from the batch
\* to LogWriter.
LEMMA ProcessCommandFact ==
  ASSUME IInv, ProcessCommand
  PROVE  /\ mpc = "command" /\ writing = {}
         /\ UNCHANGED <<stateVars, threadVars, logVars, published, acked, crashes>>
         /\ channel' = channel \/ (channel # <<>> /\ channel' = Tail(channel))
         /\ Taken(batch')
         /\ \/ UNCHANGED <<mpc, writing, replies>>
            \/ /\ mpc' = "write" /\ replies' # {} /\ Taken(replies')
               /\ writing' = {c.id : c \in replies'}
<1> DEFINE Frame == /\ mpc = "command"
                    /\ UNCHANGED <<stateVars, threadVars, logVars, published, acked, crashes>>
                    /\ channel' = channel \/ (channel # <<>> /\ channel' = Tail(channel))
           Moved == /\ Taken(batch')
                    /\ \/ UNCHANGED <<mpc, writing, replies>>
                       \/ /\ mpc' = "write" /\ replies' # {} /\ Taken(replies')
                          /\ writing' = {c.id : c \in replies'}
<1> SUFFICES Frame /\ Moved
  BY DEF IInv, BatchInv
<1>1. ASSUME NEW state, NEW kind, Receive(state, kind)
      PROVE  /\ Frame /\ Taken(batch) /\ Taken({})
             /\ kind = "Commit" => Taken({Received}) /\ Taken(batch \cup {Received})
  <2>1. Frame /\ channel # <<>> /\ Head(channel).kind = kind
    BY <1>1, Zenon DEF Receive
  <2>2. Taken(batch) /\ Taken({})
    BY DEF Taken
  <2>3. ASSUME kind = "Commit" PROVE Taken({Received}) /\ Taken(batch \cup {Received})
    BY <2>1, <2>3 DEF Taken
  <2> HIDE DEF Frame
  <2> QED
    BY <2>1, <2>2, <2>3
<1>2. ASSUME NEW committers, NEW state, KeepBatch(committers, state), Taken(committers)
      PROVE  Moved
  BY <1>2 DEF KeepBatch
<1>3. ASSUME NEW committers, NEW state, NEW kept, CommitTransactionBatch(committers, state, kept),
             Taken(committers), committers # {}, Taken(kept)
      PROVE  Moved
  BY <1>3 DEF CommitTransactionBatch
<1> HIDE DEF Frame, Moved
<1>4. CASE FreshCommit
  <2>1. /\ Receive("Fresh", "Commit")
        /\ KeepBatch(batch \cup {Received}, IF Complete(pending') THEN "Batching" ELSE "EnsuringSequence")
    BY <1>4 DEF FreshCommit
  <2> QED
    BY <1>1, <1>2, <2>1
\* mark_transaction_handled
<1>5. ASSUME NEW id, NEW committers, MarkTransactionHandled(id, committers), Taken(committers), Taken({})
      PROVE  Moved
  <2>1. CASE Complete(pending') /\ committers # {}
    BY <1>3, <1>5, <2>1 DEF MarkTransactionHandled
  <2>2. CASE ~ (Complete(pending') /\ committers # {})
    BY <1>2, <1>5, <2>2 DEF MarkTransactionHandled
  <2> QED
    BY <2>1, <2>2
\* note_potentially_sequntial_id
<1>6. ASSUME NEW id, NEW added, NotePotentiallySequentialId(id, added),
             Taken(batch), Taken(added), Taken(batch \cup added)
      PROVE  Moved
  <2>1. CASE Complete(pending')
    BY <1>2, <1>6, <2>1 DEF NotePotentiallySequentialId
  <2>2. CASE ~ Complete(pending') /\ batch # {}
    BY <1>3, <1>6, <2>2 DEF NotePotentiallySequentialId
  <2>3. CASE ~ Complete(pending') /\ batch = {}
    BY <1>2, <1>6, <2>3 DEF NotePotentiallySequentialId
  <2> QED
    BY <2>1, <2>2, <2>3
<1>7. CASE FreshDrop
  BY <1>1, <1>5, <1>7 DEF FreshDrop
<1>8. CASE BatchingCommit
  BY <1>1, <1>6, <1>8 DEF BatchingCommit
<1>9. CASE BatchingDrop
  <2>1. Receive("Batching", "Drop") /\ NotePotentiallySequentialId(Received.id, {})
    BY <1>9 DEF BatchingDrop
  <2>2. Frame /\ Taken(batch) /\ Taken({}) /\ Taken(batch \cup {})
    <3>1. batch \cup {} = batch
      OBVIOUS
    <3> QED
      BY <1>1, <2>1, <3>1
  <2> QED
    BY <1>6, <2>1, <2>2
<1>10. CASE BatchingEmpty
  <2>1. Frame
    BY <1>10 DEF BatchingEmpty, Frame
  <2>2. CommitTransactionBatch(batch, "Fresh", {}) /\ batch # {}
    BY <1>10 DEF BatchingEmpty, IInv, BatchInv
  <2>3. Taken(batch) /\ Taken({})
    BY DEF Taken
  <2> QED
    BY <1>3, <2>1, <2>2, <2>3
<1>11. CASE EnsuringSequenceCommit
  BY <1>1, <1>5, <1>11 DEF EnsuringSequenceCommit
<1>12. CASE EnsuringSequenceDrop
  BY <1>1, <1>5, <1>12 DEF EnsuringSequenceDrop
<1> QED
  BY <1>4, <1>7, <1>8, <1>9, <1>10, <1>11, <1>12 DEF ProcessCommand

-----------------------------------------------------------------------------
\* CommittersInv is preserved, on top of IInv.

LEMMA ThreadStepCommitters ==
  ASSUME IInv, CommittersInv, NEW t \in Threads, ThreadStep(t)
  PROVE  CommittersInv'
<1>1. UNCHANGED <<mstate, pending, batch, mpc, writing, replies>>
  BY ThreadStepFrame DEF managerVars
<1>2. CASE mpc = "stopped"
  <2>1. batch = {} /\ replies = {}
    BY <1>2 DEF CommittersInv
  <2> QED
    BY <1>1, <1>2, <2>1 DEF CommittersInv
<1>3. CASE mpc # "stopped"
  <2>1. \A u \in Threads : pc[u] = "waiting" => pc'[u] = "waiting" /\ txid'[u] = txid[u]
    BY <1>3, WaitingStays DEF IInv
  <2>2. \A c \in batch \cup replies : c.thread \in Threads
    BY DEF IInv, TypeOK, Committer
  <2>3. ASSUME NEW i \in 1 .. Len(channel'), channel'[i].kind = "Commit"
        PROVE  pc'[channel'[i].thread] = "waiting" /\ txid'[channel'[i].thread] = channel'[i].id
    <3>1. /\ channel \in Seq(Command) /\ Len(channel) \in Nat
          /\ \A j \in 1 .. Len(channel) : channel[j].thread \in Threads
      <4>1. \A j \in 1 .. Len(channel) : channel[j] \in Command
        BY IdTypes DEF IInv
      <4> QED
        BY <4>1 DEF IInv, TypeOK, Command
    <3>2. CASE i \in 1 .. Len(channel) /\ channel'[i] = channel[i]
      BY <1>3, <2>1, <2>3, <3>1, <3>2 DEF CommittersInv
    <3>3. CASE channel' = channel
      BY <2>3, <3>2, <3>3
    <3>4. ASSUME NEW e \in Command, channel' = Append(channel, e),
                 e.kind = "Commit" => pc'[e.thread] = "waiting" /\ txid'[e.thread] = e.id
          PROVE  pc'[channel'[i].thread] = "waiting" /\ txid'[channel'[i].thread] = channel'[i].id
      <4>1. \/ i \in 1 .. Len(channel) /\ channel'[i] = channel[i]
            \/ i = Len(channel) + 1 /\ channel'[i] = e
        BY <2>3, <3>1, <3>4, SendType
      <4> QED
        BY <2>3, <3>2, <3>4, <4>1
    <3> QED
      BY <3>3, <3>4, ThreadSends
  <2> QED
    BY <1>1, <1>3, <2>1, <2>2, <2>3 DEF CommittersInv
<1> QED
  BY <1>2, <1>3

LEMMA ProcessCommandCommitters ==
  ASSUME IInv, CommittersInv, ProcessCommand
  PROVE  CommittersInv'
<1>1. /\ mpc = "command" /\ writing = {}
      /\ pc' = pc /\ txid' = txid
      /\ channel' = channel \/ (channel # <<>> /\ channel' = Tail(channel))
      /\ Taken(batch')
      /\ \/ UNCHANGED <<mpc, writing, replies>>
         \/ /\ mpc' = "write" /\ replies' # {} /\ Taken(replies')
            /\ writing' = {c.id : c \in replies'}
  BY ProcessCommandFact DEF threadVars
<1>2. replies = {}
  BY <1>1 DEF CommittersInv
<1>3. channel \in Seq(Command) /\ Len(channel) \in Nat
  BY DEF IInv, TypeOK
<1>4. \A i \in 1 .. Len(channel) : channel[i].kind = "Commit" =>
        pc[channel[i].thread] = "waiting" /\ txid[channel[i].thread] = channel[i].id
  BY <1>1 DEF CommittersInv
<1>5. ASSUME NEW c, c \in batch \/ (channel # <<>> /\ Head(channel).kind = "Commit" /\ c = Received)
      PROVE  pc'[c.thread] = "waiting" /\ txid'[c.thread] = c.id
  <2>1. CASE c \in batch
    BY <1>1, <2>1 DEF CommittersInv
  <2>2. CASE channel # <<>> /\ Head(channel).kind = "Commit" /\ c = Received
    <3>1. Head(channel) = channel[1] /\ 1 \in 1 .. Len(channel)
      BY <1>3, <2>2, ReceiveType
    <3>2. c.id = channel[1].id /\ c.thread = channel[1].thread
      BY <2>2, <3>1 DEF Received
    <3> QED
      BY <1>1, <1>4, <2>2, <3>1, <3>2
  <2> QED
    BY <1>5, <2>1, <2>2
<1>6. \A i \in 1 .. Len(channel') : channel'[i].kind = "Commit" =>
        pc'[channel'[i].thread] = "waiting" /\ txid'[channel'[i].thread] = channel'[i].id
  <2>1. CASE channel' = channel
    BY <1>1, <1>4, <2>1
  <2>2. CASE channel # <<>> /\ channel' = Tail(channel)
    <3>1. \A i \in 1 .. Len(channel') : i + 1 \in 1 .. Len(channel) /\ channel'[i] = channel[i + 1]
      BY <1>3, <2>2, ReceiveType
    <3> QED
      BY <1>1, <1>4, <3>1
  <2> QED
    BY <1>1, <2>1, <2>2
<1>7. BatchInv'
  BY ProcessCommandIInv DEF IInv
<1>8. CASE UNCHANGED <<mpc, writing, replies>>
  BY <1>1, <1>2, <1>5, <1>6, <1>8 DEF CommittersInv, Taken
<1>9. CASE /\ mpc' = "write" /\ replies' # {} /\ Taken(replies')
           /\ writing' = {c.id : c \in replies'}
  <2>1. \A c \in replies' : \A d \in batch' : c.id < d.id
    BY <1>7, <1>9 DEF BatchInv
  <2>2. \A c \in replies' : IsNoted(pending', c.id)
    BY <1>7, <1>9 DEF BatchInv, IsNoted
  <2> QED
    BY <1>1, <1>5, <1>6, <1>9, <2>1, <2>2 DEF CommittersInv, Taken
<1> QED
  BY <1>1, <1>8, <1>9

LEMMA WriteEntryCommitters ==
  ASSUME IInv, CommittersInv, WriteEntry
  PROVE  CommittersInv'
<1>1. /\ mpc = "write" /\ mpc' \in {"sync", "write"}
      /\ writing' \subseteq writing
      /\ UNCHANGED <<pc, batch, replies, txid, channel, pending>>
  BY WriteEntryFact
<1> QED
  BY <1>1 DEF CommittersInv

\* An answer goes to one thread, and no other commit is that thread's.
LEMMA SendCompletionCommitters ==
  ASSUME IInv, CommittersInv, NEW c \in replies, SendCompletion(c)
  PROVE  CommittersInv'
<1>1. c.thread \in Threads /\ c.id \in Nat /\ c \in Committer
  BY IdTypes DEF IInv, TypeOK, Committer
<1>2. /\ mpc = "reply" /\ pc' = [pc EXCEPT ![c.thread] = "committed"]
      /\ replies' = replies \ {c}
      /\ mpc' = IF replies' = {} THEN "command" ELSE "reply"
      /\ UNCHANGED <<batch, writing, txid, channel, pending>>
  BY DEF SendCompletion
<1>3. writing = {}
  BY <1>2 DEF IInv, BatchInv
<1>4. ASSUME NEW d \in Committer, txid[d.thread] = d.id, d # c, txid[c.thread] = c.id
      PROVE  d.thread # c.thread
  <2> SUFFICES ASSUME d.thread = c.thread PROVE d = c
    BY <1>4
  <2> QED
    BY <1>1, <1>4 DEF Committer
<1>5. \A d \in batch \cup replies' : pc'[d.thread] = "waiting" /\ txid'[d.thread] = d.id
  <2> SUFFICES ASSUME NEW d \in batch \cup replies' 
               PROVE  pc'[d.thread] = "waiting" /\ txid'[d.thread] = d.id
    OBVIOUS
  <2>1. d \in Committer /\ d.thread \in Threads /\ d.id \in Nat
    BY <1>2, IdTypes DEF IInv, TypeOK, Committer
  <2>2. d # c
    <3>1. CASE d \in replies'
      BY <1>2, <3>1
    <3>2. CASE d \in batch
      BY <1>1, <2>1, <3>2 DEF CommittersInv
    <3> QED
      BY <3>1, <3>2
  <2>3. /\ pc[d.thread] = "waiting" /\ txid[d.thread] = d.id
        /\ txid[c.thread] = c.id
    BY <1>2 DEF CommittersInv
  <2>4. d.thread # c.thread
    BY <1>4, <2>1, <2>2, <2>3
  <2> QED
    BY <1>2, <2>1, <2>3, <2>4 DEF IInv, TypeOK
<1>6. ASSUME NEW i \in 1 .. Len(channel'), channel'[i].kind = "Commit"
      PROVE  pc'[channel'[i].thread] = "waiting" /\ txid'[channel'[i].thread] = channel'[i].id
  <2> DEFINE u == channel[i].thread
  <2>1. i \in 1 .. Len(channel) /\ channel' = channel
    BY <1>2, <1>6
  <2>2. pc[u] = "waiting" /\ txid[u] = channel[i].id
    BY <1>2, <1>6, <2>1 DEF CommittersInv
  <2>3. channel[i] \in Command /\ channel[i].id \in Nat
    BY <2>1, IdTypes DEF IInv
  <2>4. channel[i].id # c.id
    BY <1>1, <2>1, <2>3 DEF IInv, IdsInv, CommittersInv
  <2>5. txid[c.thread] = c.id
    BY DEF CommittersInv
  <2>6. u # c.thread /\ u \in Threads
    BY <2>2, <2>3, <2>4, <2>5 DEF Command
  <2> QED
    BY <1>2, <2>1, <2>2, <2>6 DEF IInv, TypeOK
<1> QED
  BY <1>2, <1>3, <1>5, <1>6 DEF CommittersInv

LEMMA CommittersStep ==
  ASSUME IInv, CommittersInv, [Next]_vars
  PROVE  CommittersInv'
<1>1. ASSUME NEW t \in Threads, ThreadStep(t) PROVE CommittersInv'
  BY <1>1, ThreadStepCommitters
<1>2. CASE ProcessCommand
  BY <1>2, ProcessCommandCommitters
<1>3. CASE WriteEntry
  BY <1>3, WriteEntryCommitters
<1>4. CASE Synchronize
  BY <1>4 DEF Synchronize, CommittersInv, threadVars
<1>5. CASE NoteCompleted
  BY <1>5 DEF NoteCompleted, CommittersInv, threadVars
<1>6. ASSUME NEW c \in replies, SendCompletion(c) PROVE CommittersInv'
  BY <1>6, SendCompletionCommitters
<1>7. CASE LogFails
  BY <1>7 DEF LogFails, StopManager, CommittersInv, IInv, BatchInv
<1>8. CASE Crash
  <2>1. batch' = {} /\ replies' = {} /\ writing' = {} /\ mpc' = "command" /\ Len(channel') = 0
    BY <1>8 DEF Crash
  <2>2. \A i \in 1 .. Len(channel') : FALSE
    BY <2>1
  <2> QED
    BY <2>1, <2>2 DEF CommittersInv
<1>9. CASE UNCHANGED vars
  BY <1>9 DEF vars, threadVars, managerVars, CommittersInv
<1> QED
  BY <1>1, <1>2, <1>3, <1>4, <1>5, <1>6, <1>7, <1>8, <1>9 DEF Next, ManagerStep, ProcessCommand

-----------------------------------------------------------------------------
\* LockInv is preserved, on top of IInv and CommittersInv.

LEMMA ThreadStepLocks ==
  ASSUME IInv, LockInv, NEW t \in Threads, ThreadStep(t)
  PROVE  LockInv'
<1>0. /\ owner \in [Trees -> Threads \cup {NoThread}] /\ trees \in [Threads -> SUBSET Trees]
      /\ pc \in [Threads -> {"idle", "locking", "locked", "open", "waiting", "committed", "releasing"}]
  BY DEF IInv, TypeOK
<1> USE <1>0, ConstantsAssumption DEF LockInv, Active
\* A thread that keeps its trees and its locks may move on while it is active, or start releasing.
<1>m. ASSUME NEW p \in {"open", "waiting", "releasing"}, pc' = [pc EXCEPT ![t] = p],
             owner' = owner, trees' = trees, Active(t)
      PROVE  LockInv'
  <2>1. \A u \in Threads : pc'[u] = IF u = t THEN p ELSE pc[u]
    BY <1>m
  <2>2. \A u \in Threads : pc'[u] = "idle" => pc[u] = "idle"
    BY <2>1
  <2>3. \A u \in Threads : Active(u)' => Active(u)
    BY <1>m, <2>1
  <2> QED
    BY <1>m, <2>2, <2>3
<1>1. ASSUME NEW requested \in SUBSET Trees, NewTransaction(t, requested) PROVE LockInv'
  BY <1>1 DEF NewTransaction
<1>2. CASE LockTree(t)
  <2> DEFINE x == Minimum(Unlocked(t))
  <2>1. Unlocked(t) \subseteq Nat /\ Unlocked(t) # {}
    BY <1>2 DEF LockTree, Unlocked
  <2>2. x \in Unlocked(t)
    BY <2>1, MinimumFact
  <2>3. x \in trees[t] /\ x \in Trees
    BY <2>2 DEF Unlocked
  <2>4. /\ pc[t] = "locking" /\ owner[x] = NoThread /\ owner' = [owner EXCEPT ![x] = t]
        /\ pc' = pc /\ trees' = trees
    BY <1>2 DEF LockTree, threadVars
  <2> HIDE DEF x
  <2> QED
    BY <2>3, <2>4
<1>3. CASE TreesLocked(t)
  BY <1>3 DEF TreesLocked, Unlocked
<1>4. CASE AllocateId(t)
  <2>1. pc' = [pc EXCEPT ![t] = "open"] /\ owner' = owner /\ trees' = trees /\ Active(t)
    BY <1>4 DEF AllocateId, stateVars
  <2> QED
    BY <1>m, <2>1
<1>5. CASE Commit(t)
  <2>1. pc' = [pc EXCEPT ![t] = "waiting"] /\ owner' = owner /\ trees' = trees /\ Active(t)
    BY <1>5 DEF Commit, stateVars
  <2> QED
    BY <1>m, <2>1
<1>6. CASE CommitFails(t)
  <2>1. pc' = [pc EXCEPT ![t] = "releasing"] /\ owner' = owner /\ trees' = trees /\ Active(t)
    BY <1>6 DEF CommitFails, stateVars
  <2> QED
    BY <1>m, <2>1
<1>7. CASE Rollback(t)
  <2>1. pc' = [pc EXCEPT ![t] = "releasing"] /\ owner' = owner /\ trees' = trees /\ Active(t)
    BY <1>7 DEF Rollback, stateVars
  <2> QED
    BY <1>m, <2>1
<1>8. ASSUME NEW x \in Trees, PublishTree(t, x) PROVE LockInv'
  BY <1>8 DEF PublishTree, stateVars, threadVars
<1>9. CASE TreesPublished(t)
  <2>1. pc' = [pc EXCEPT ![t] = "releasing"] /\ owner' = owner /\ trees' = trees /\ Active(t)
    BY <1>9 DEF TreesPublished, stateVars
  <2> QED
    BY <1>m, <2>1
<1>10. ASSUME NEW x \in Trees, ReleaseLock(t, x) PROVE LockInv'
  BY <1>10 DEF ReleaseLock, threadVars
<1>11. CASE LocksReleased(t)
  BY <1>11 DEF LocksReleased, stateVars
<1>12. CASE ChannelDropped(t)
  <2>1. pc' = [pc EXCEPT ![t] = "releasing"] /\ owner' = owner /\ trees' = trees /\ Active(t)
    BY <1>12 DEF ChannelDropped, stateVars
  <2> QED
    BY <1>m, <2>1
<1> QED
  BY <1>1, <1>2, <1>3, <1>4, <1>5, <1>6, <1>7, <1>8, <1>9, <1>10, <1>11, <1>12 DEF ThreadStep

LEMMA LocksStep ==
  ASSUME IInv, CommittersInv, LockInv, [Next]_vars
  PROVE  LockInv'
<1>1. ASSUME NEW t \in Threads, ThreadStep(t) PROVE LockInv'
  BY <1>1, ThreadStepLocks
<1>2. ASSUME UNCHANGED <<owner, pc, trees>> PROVE LockInv'
  BY <1>2 DEF LockInv, Active
<1>3. CASE ProcessCommand
  BY <1>2, <1>3, ProcessCommandFact DEF stateVars, threadVars
<1>4. CASE WriteEntry
  BY <1>2, <1>4, WriteEntryFact DEF stateVars
<1>5. CASE Synchronize \/ NoteCompleted
  BY <1>2, <1>5 DEF Synchronize, NoteCompleted, stateVars, threadVars
<1>6. ASSUME NEW c \in replies, SendCompletion(c) PROVE LockInv'
  <2>1. c.thread \in Threads /\ pc[c.thread] = "waiting"
    BY DEF IInv, TypeOK, Committer, CommittersInv
  <2>2. owner' = owner /\ trees' = trees /\ pc' = [pc EXCEPT ![c.thread] = "committed"]
    BY <1>6 DEF SendCompletion, stateVars
  <2>3. \A u \in Threads : pc'[u] = IF u = c.thread THEN "committed" ELSE pc[u]
    BY <2>2 DEF IInv, TypeOK
  <2>4. \A u \in Threads : (pc'[u] = "idle" => pc[u] = "idle") /\ (Active(u)' => Active(u))
    BY <2>1, <2>3 DEF Active
  <2> QED
    BY <2>2, <2>4 DEF LockInv
<1>7. CASE LogFails
  <2>1. \A t \in Threads : pc'[t] = pc[t] \/ (pc'[t] = "releasing" /\ ~ Active(t)')
    BY <1>7 DEF LogFails, StopManager, Active
  <2>2. \A t \in Threads : pc'[t] # "idle" \/ pc'[t] = pc[t]
    BY <2>1
  <2>3. owner' = owner /\ trees' = trees
    BY <1>7 DEF LogFails, stateVars
  <2> QED
    BY <2>1, <2>2, <2>3 DEF LockInv, Active
<1>8. CASE Crash
  BY <1>8, ConstantsAssumption DEF Crash, LockInv, Active
<1>9. CASE UNCHANGED vars
  BY <1>2, <1>9 DEF vars, stateVars, threadVars
<1> QED
  BY <1>1, <1>3, <1>4, <1>5, <1>6, <1>7, <1>8, <1>9 DEF Next, ManagerStep, ProcessCommand

-----------------------------------------------------------------------------
\* Durability, on top of IInv and CommittersInv.

(***************************************************************************)
(* Whoever is answered has an entry in the log, and the log was            *)
(* synchronized since.                                                     *)
(***************************************************************************)
DurableInv ==
  /\ \A c \in replies : c.id \in writing \/ \E i \in 1 .. Len(log) : log[i] = c.id
  /\ mpc \in {"note", "reply"} => synced = Len(log)
  /\ AckedIsDurable
  /\ \A t \in Threads : pc[t] = "committed" => IsDurable(txid[t])
  /\ PublishedIsDurable

\* The log and how much of it is on disk: no step takes back a durable entry.
LEMMA DurableStays ==
  ASSUME IInv, [Next]_vars
  PROVE  /\ synced' \in Nat /\ synced \in Nat /\ synced <= synced'
         /\ \A i \in 1 .. synced : log'[i] = log[i]
         /\ \A id : IsDurable(id) => IsDurable(id)'
<1>1. synced \in Nat /\ synced <= Len(log) /\ Len(log) \in Nat /\ log \in Seq(Ids)
  BY DEF IInv, TypeOK
<1>2. synced' \in Nat
  <2>1. TypeOK'
    BY NextIInv DEF IInv
  <2>2. synced' \in 0 .. Len(log') /\ Len(log') \in Nat
    BY <2>1 DEF TypeOK
  <2> QED
    BY <2>2
<1>3. synced <= synced' /\ \A i \in 1 .. synced : log'[i] = log[i]
  <2>1. ASSUME UNCHANGED logVars PROVE synced <= synced' /\ \A i \in 1 .. synced : log'[i] = log[i]
    BY <1>1, <2>1 DEF logVars
  <2>2. ASSUME NEW t \in Threads, ThreadStep(t) PROVE UNCHANGED logVars
    BY <2>2, ThreadStepFrame
  <2>3. CASE ProcessCommand
    BY <2>1, <2>3, ProcessCommandFact
  <2>4. CASE WriteEntry
    <3>1. synced' = synced /\ log' = Append(log, Minimum(writing))
      BY <2>4, WriteEntryFact
    <3>2. Minimum(writing) \in Ids
      BY <2>4, WriteEntryFact DEF IInv, TypeOK
    <3>3. \A i \in 1 .. Len(log) : Append(log, Minimum(writing))[i] = log[i]
      BY <1>1, <3>2, SendType
    <3>4. \A i \in 1 .. synced : i \in 1 .. Len(log)
      BY <1>1
    <3> QED
      BY <1>1, <3>1, <3>3, <3>4
  <2>5. CASE Synchronize
    BY <1>1, <2>5 DEF Synchronize
  <2>6. CASE NoteCompleted \/ LogFails \/ \E c \in replies : SendCompletion(c)
    BY <2>1, <2>6 DEF NoteCompleted, LogFails, SendCompletion
  <2>7. CASE Crash
    <3>1. PICK kept \in synced .. Len(log) : log' = SubSeq(log, 1, kept) /\ synced' = kept
      BY <2>7 DEF Crash
    <3> QED
      BY <1>1, <3>1
  <2>8. CASE UNCHANGED vars
    BY <2>1, <2>8 DEF vars
  <2> QED
    BY <2>1, <2>2, <2>3, <2>4, <2>5, <2>6, <2>7, <2>8 DEF Next, ManagerStep, ProcessCommand
<1> QED
  BY <1>1, <1>2, <1>3 DEF IsDurable

\* Steps that answer nobody and publish nothing.
LEMMA QuietDurable ==
  ASSUME IInv, DurableInv, [Next]_vars,
         UNCHANGED <<acked, published>>,
         \A t \in Threads : pc'[t] = "committed" => pc[t] = "committed" /\ txid'[t] = txid[t],
         \A c \in replies' : c.id \in writing' \/ \E i \in 1 .. Len(log') : log'[i] = c.id,
         mpc' \in {"note", "reply"} => synced' = Len(log')
  PROVE  DurableInv'
BY DurableStays DEF DurableInv, AckedIsDurable, PublishedIsDurable

LEMMA ThreadStepDurable ==
  ASSUME IInv, DurableInv, NEW t \in Threads, ThreadStep(t), [Next]_vars
  PROVE  DurableInv'
<1>1. UNCHANGED <<mpc, writing, replies, log, synced, acked>>
  BY ThreadStepFrame DEF managerVars, logVars
<1>2. ASSUME NEW x \in Trees, PublishTree(t, x) PROVE DurableInv'
  <2>1. /\ pc[t] = "committed" /\ published' = [published EXCEPT ![x] = txid[t]]
        /\ pc' = pc /\ txid' = txid
    BY <1>2 DEF PublishTree, threadVars
  <2>2. \A y \in Trees : published'[y] = published[y] \/ published'[y] = txid[t]
    BY <2>1 DEF IInv, TypeOK
  <2> QED
    <3>1. \A id : IsDurable(id)' <=> IsDurable(id)
      BY <1>1 DEF IsDurable
    <3>2. IsDurable(txid[t])
      BY <2>1 DEF DurableInv
    <3>3. AckedIsDurable' /\ \A u \in Threads : pc'[u] = "committed" => IsDurable(txid[u])'
      BY <1>1, <2>1, <3>1 DEF DurableInv, AckedIsDurable
    <3>4. PublishedIsDurable'
      BY <2>2, <3>1, <3>2 DEF DurableInv, PublishedIsDurable
    <3> QED
      BY <1>1, <3>3, <3>4 DEF DurableInv
<1>3. CASE ~ \E x \in Trees : PublishTree(t, x)
  <2>1. published' = published
    BY <1>3 DEF ThreadStep, NewTransaction, LockTree, TreesLocked, AllocateId, Commit, CommitFails,
                Rollback, TreesPublished, ReleaseLock, LocksReleased, ChannelDropped
  <2>2. ASSUME NEW u \in Threads, pc'[u] = "committed" PROVE pc[u] = "committed" /\ txid'[u] = txid[u]
    <3> USE DEF IInv, TypeOK
    <3>1. CASE \E requested \in SUBSET Trees : NewTransaction(t, requested)
      BY <2>2, <3>1 DEF NewTransaction
    <3>2. CASE LockTree(t) \/ \E x \in Trees : ReleaseLock(t, x)
      BY <2>2, <3>2 DEF LockTree, ReleaseLock, threadVars
    <3>3. CASE TreesLocked(t) \/ AllocateId(t)
      BY <2>2, <3>3 DEF TreesLocked, AllocateId
    <3>4. CASE Commit(t) \/ CommitFails(t) \/ Rollback(t)
      BY <2>2, <3>4 DEF Commit, CommitFails, Rollback
    <3>5. CASE TreesPublished(t) \/ LocksReleased(t) \/ ChannelDropped(t)
      BY <2>2, <3>5 DEF TreesPublished, LocksReleased, ChannelDropped
    <3> QED
      BY <1>3, <3>1, <3>2, <3>3, <3>4, <3>5 DEF ThreadStep
  <2> QED
    BY <1>1, <2>1, <2>2, QuietDurable DEF DurableInv
<1> QED
  BY <1>2, <1>3

LEMMA DurableStep ==
  ASSUME IInv, CommittersInv, DurableInv, [Next]_vars
  PROVE  DurableInv'
<1>1. ASSUME NEW t \in Threads, ThreadStep(t) PROVE DurableInv'
  BY <1>1, ThreadStepDurable
<1>2. CASE ProcessCommand
  <2>1. /\ mpc = "command" /\ pc' = pc /\ txid' = txid /\ UNCHANGED <<acked, published, log, synced>>
        /\ \/ UNCHANGED <<mpc, writing, replies>>
           \/ mpc' = "write" /\ writing' = {c.id : c \in replies'}
    BY <1>2, ProcessCommandFact DEF threadVars, logVars
  <2> QED
    BY <2>1, QuietDurable DEF DurableInv
<1>3. CASE WriteEntry
  <2> DEFINE id == Minimum(writing)
  <2>1. /\ id \in Ids /\ log' = Append(log, id) /\ writing' = writing \ {id} /\ replies' = replies
        /\ mpc' \in {"sync", "write"} /\ pc' = pc /\ txid' = txid /\ UNCHANGED <<acked, published>>
    BY <1>3, WriteEntryFact DEF IInv, TypeOK
  <2>2. log \in Seq(Ids) /\ Len(log) \in Nat
    BY DEF IInv, TypeOK
  <2> HIDE DEF id
  <2>3. /\ Len(log') = Len(log) + 1 /\ log'[Len(log) + 1] = id
        /\ \A i \in 1 .. Len(log) : log'[i] = log[i]
    <3>1. log' = Append(log, id) /\ id \in Ids
      BY <2>1
    <3>2. /\ Len(Append(log, id)) = Len(log) + 1 /\ Append(log, id)[Len(log) + 1] = id
          /\ \A i \in 1 .. Len(log) : Append(log, id)[i] = log[i]
      BY ONLY <2>2, <3>1, SendType
    <3> QED
      BY <3>1, <3>2
  <2>4. \E i \in 1 .. Len(log') : log'[i] = id
    <3>1. Len(log) + 1 \in 1 .. Len(log')
      BY <2>2, <2>3
    <3> QED
      BY <2>3, <3>1
  <2>5. ASSUME NEW c \in replies' PROVE c.id \in writing' \/ \E i \in 1 .. Len(log') : log'[i] = c.id
    <3>1. CASE c.id \in writing
      BY <2>1, <2>4, <3>1
    <3>2. ASSUME NEW i \in 1 .. Len(log), log[i] = c.id PROVE \E j \in 1 .. Len(log') : log'[j] = c.id
      BY <2>2, <2>3, <3>2
    <3> QED
      BY <2>1, <3>1, <3>2 DEF DurableInv
  <2> QED
    BY <2>1, <2>5, QuietDurable
<1>4. CASE Synchronize
  <2>1. /\ synced' = Len(log) /\ UNCHANGED <<log, writing, replies, acked, published>>
        /\ pc' = pc /\ txid' = txid
    BY <1>4 DEF Synchronize, threadVars
  <2> QED
    BY <2>1, QuietDurable DEF DurableInv
<1>5. CASE NoteCompleted
  <2>1. /\ mpc = "note" /\ UNCHANGED <<log, synced, writing, replies, acked, published>>
        /\ pc' = pc /\ txid' = txid
    BY <1>5 DEF NoteCompleted, threadVars, logVars
  <2> QED
    BY <2>1, QuietDurable DEF DurableInv
<1>6. ASSUME NEW c \in replies, SendCompletion(c) PROVE DurableInv'
  <2>1. /\ mpc = "reply" /\ pc' = [pc EXCEPT ![c.thread] = "committed"]
        /\ acked' = acked \cup {c.id} /\ replies' \subseteq replies
        /\ UNCHANGED <<txid, writing, log, synced, published>>
    BY <1>6 DEF SendCompletion, logVars
  <2>2. c.thread \in Threads /\ txid[c.thread] = c.id
    BY DEF IInv, TypeOK, Committer, CommittersInv
  <2>3. writing = {} /\ synced = Len(log)
    BY <2>1 DEF IInv, BatchInv, DurableInv
  <2>4. IsDurable(c.id)
    BY <2>3 DEF DurableInv, IsDurable
  <2>5. \A t \in Threads : pc'[t] = "committed" => t = c.thread \/ pc[t] = "committed"
    BY <2>1, <2>2 DEF IInv, TypeOK
  <2> QED
    <3>1. \A id : IsDurable(id)' <=> IsDurable(id)
      BY <2>1 DEF IsDurable
    <3>2. AckedIsDurable'
      BY <2>1, <2>4, <3>1 DEF DurableInv, AckedIsDurable
    <3>3. \A t \in Threads : pc'[t] = "committed" => IsDurable(txid[t])'
      BY <2>1, <2>2, <2>4, <2>5, <3>1 DEF DurableInv
    <3>4. PublishedIsDurable'
      BY <2>1, <3>1 DEF DurableInv, PublishedIsDurable
    <3> QED
      BY <2>1, <2>3, <3>2, <3>3, <3>4 DEF DurableInv
<1>7. CASE LogFails
  <2>1. /\ replies' = {} /\ mpc' = "stopped" /\ UNCHANGED <<acked, published, txid>>
        /\ \A t \in Threads : pc'[t] = "committed" => pc[t] = "committed"
    BY <1>7 DEF LogFails, StopManager
  <2> QED
    BY <2>1, QuietDurable
<1>8. CASE Crash
  <2>1. /\ replies' = {} /\ mpc' = "command" /\ UNCHANGED acked
        /\ \A t \in Threads : pc'[t] # "committed"
        /\ \A x \in Trees : published'[x] = 0
    BY <1>8 DEF Crash
  <2> QED
    BY <2>1, DurableStays DEF DurableInv, AckedIsDurable, PublishedIsDurable
<1>9. CASE UNCHANGED vars
  BY <1>9, QuietDurable DEF vars, threadVars, managerVars, logVars, DurableInv
<1> QED
  BY <1>1, <1>2, <1>3, <1>4, <1>5, <1>6, <1>7, <1>8, <1>9 DEF Next, ManagerStep, ProcessCommand

-----------------------------------------------------------------------------
(***************************************************************************)
(* From the three invariants: isolation, durability and what may be added  *)
(* to the log.                                                             *)
(***************************************************************************)
JInv == IInv /\ CommittersInv /\ LockInv /\ DurableInv

THEOREM InductiveToo == Spec => []JInv
<1>1. Init => JInv
  <2> SUFFICES ASSUME Init PROVE JInv
    OBVIOUS
  <2>1. CommittersInv
    <3>1. batch = {} /\ replies = {} /\ writing = {} /\ mpc = "command" /\ Len(channel) = 0
      BY DEF Init
    <3>2. \A i \in 1 .. Len(channel) : FALSE
      BY <3>1
    <3> QED
      BY <3>1, <3>2 DEF CommittersInv
  <2>2. LockInv
    BY ConstantsAssumption DEF Init, LockInv, Active
  <2>3. DurableInv
    BY DEF Init, DurableInv, AckedIsDurable, PublishedIsDurable
  <2> QED
    BY <2>1, <2>2, <2>3, InitIInv DEF JInv
<1>2. JInv /\ [Next]_vars => JInv'
  BY NextIInv, CommittersStep, LocksStep, DurableStep DEF JInv
<1> QED
  BY <1>1, <1>2, PTL DEF Spec

\* The promise of ExecutingTransaction: two transactions that run at the same
\* time have no tree in common.
THEOREM Isolation == Spec => []TransactionsAreIsolated
<1>1. JInv => TransactionsAreIsolated
  BY DEF JInv, LockInv, TransactionsAreIsolated
<1> QED
  BY <1>1, InductiveToo, PTL

\* A commit that returned Ok is on disk, and a crash at any point leaves it there.
THEOREM Durability == Spec => []AckedIsDurable
<1>1. JInv => AckedIsDurable
  BY DEF JInv, DurableInv
<1> QED
  BY <1>1, InductiveToo, PTL

\* Readers only ever see trees whose transaction is on disk.
THEOREM ReadersSeeDurable == Spec => []PublishedIsDurable
<1>1. JInv => PublishedIsDurable
  BY DEF JInv, DurableInv
<1> QED
  BY <1>1, InductiveToo, PTL

\* LogWriter adds an entry only for a thread that waits in push() with all its
\* trees locked.
THEOREM LoggedWhileWaiting == Spec => OnlyWaitingCommitsAreLogged
<1> DEFINE A == \A i \in (Len(log) + 1) .. Len(log') :
                  \E t \in Threads :
                    /\ pc[t] = "waiting"
                    /\ txid[t] = log'[i]
                    /\ \A x \in trees[t] : owner[x] = t
<1>1. JInv /\ [Next]_vars => [A]_vars
  <2> SUFFICES ASSUME JInv, [Next]_vars PROVE A
    OBVIOUS
  <2>1. log \in Seq(Ids) /\ Len(log) \in Nat
    BY DEF JInv, IInv, TypeOK
  <2>2. CASE WriteEntry
    <3> DEFINE id == Minimum(writing)
    <3>1. id \in writing /\ log' = Append(log, id)
      BY <2>2, WriteEntryFact DEF JInv
    <3>2. PICK c \in replies : c.id = id
      BY <3>1 DEF JInv, CommittersInv
    <3>3. c.thread \in Threads /\ pc[c.thread] = "waiting" /\ txid[c.thread] = id /\ id \in Ids
      BY <3>1, <3>2 DEF JInv, IInv, TypeOK, Committer, CommittersInv
    <3>4. \A x \in trees[c.thread] : owner[x] = c.thread
      BY <3>3 DEF JInv, LockInv, Active
    <3> HIDE DEF id
    <3>5. Len(log') = Len(log) + 1 /\ log'[Len(log) + 1] = id
      BY <2>1, <3>1, <3>3, SendType
    <3>6. \A i \in (Len(log) + 1) .. Len(log') : i = Len(log) + 1
      BY <2>1, <3>5
    <3> QED
      BY <3>3, <3>4, <3>5, <3>6
  <2>3. ASSUME log' = log PROVE A
    BY <2>1, <2>3
  <2>4. ASSUME NEW t \in Threads, ThreadStep(t) PROVE log' = log
    BY <2>4, ThreadStepFrame DEF logVars
  <2>5. CASE ProcessCommand
    BY <2>3, <2>5, ProcessCommandFact DEF JInv, logVars
  <2>6. CASE Synchronize \/ NoteCompleted \/ LogFails \/ \E c \in replies : SendCompletion(c)
    BY <2>3, <2>6 DEF Synchronize, NoteCompleted, LogFails, SendCompletion, logVars
  <2>7. CASE Crash
    <3>1. PICK kept \in synced .. Len(log) : log' = SubSeq(log, 1, kept)
      BY <2>7 DEF Crash
    <3>2. kept \in 0 .. Len(log)
      <4>1. synced \in 0 .. Len(log) /\ Len(log) \in Nat
        BY <2>1 DEF JInv, IInv, TypeOK
      <4> QED
        BY <4>1
    <3>3. Len(log') = kept
      BY <2>1, <3>1, <3>2
    <3> QED
      BY <2>1, <3>2, <3>3
  <2>8. CASE UNCHANGED vars
    BY <2>3, <2>8 DEF vars, logVars
  <2> QED
    BY <2>2, <2>3, <2>4, <2>5, <2>6, <2>7, <2>8 DEF Next, ManagerStep, ProcessCommand
<1> QED
  BY <1>1, InductiveToo, PTL DEF Spec, OnlyWaitingCommitsAreLogged
=============================================================================
