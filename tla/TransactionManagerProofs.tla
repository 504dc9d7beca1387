----------------------- MODULE TransactionManagerProofs -----------------------
(***************************************************************************)
(* The ordering and the durability of the transaction manager, proved for  *)
(* any number of threads, trees and ids, any channel capacity, word width  *)
(* and number of crashes.                                                  *)
(***************************************************************************)
EXTENDS TransactionManager, IdSequenceProofs

(***************************************************************************)
(* An id that was handed out is in one place only, a thread or a command   *)
(* in the channel, until the manager thread notes it.                      *)
(***************************************************************************)
IdsInv ==
  /\ WellFormed(pending)
  /\ pending.start + pending.length <= nextId
  /\ \A t \in Threads : pc[t] = "open" =>
       txid[t] # 0 /\ txid[t] < nextId /\ ~ IsNoted(pending, txid[t])
  /\ \A i \in 1 .. Len(channel) :
       channel[i].id < nextId /\ ~ IsNoted(pending, channel[i].id)
  /\ \A t, u \in Threads : pc[t] = "open" /\ pc[u] = "open" /\ t # u => txid[t] # txid[u]
  /\ \A t \in Threads : \A i \in 1 .. Len(channel) : pc[t] = "open" => channel[i].id # txid[t]
  /\ \A i, j \in 1 .. Len(channel) : i # j => channel[i].id # channel[j].id

(***************************************************************************)
(* What the manager thread knows in each of its states: what it is writing *)
(* is below the window and below what it keeps for later, and Batching     *)
(* means that every id so far has been noted.                              *)
(***************************************************************************)
BatchInv ==
  /\ \A c \in batch : IsNoted(pending, c.id) /\ lastWritten < c.id
  /\ \A w \in writing : lastWritten < w /\ w < pending.start
  /\ \A w \in writing : \A c \in batch : w < c.id
  /\ mpc = "write" <=> writing # {}
  /\ lastWritten < pending.start
  /\ mstate = "Fresh" => batch = {}
  /\ mstate = "Batching" => batch # {} /\ Complete(pending) /\ mpc = "command"

LogInv ==
  /\ \A i \in 1 .. Len(log) : log[i] <= lastWritten
  /\ LogAscending

IInv == TypeOK /\ IdsInv /\ BatchInv /\ LogInv

-----------------------------------------------------------------------------
\* Facts about the operators.

\* The first element of a sorted batch.
LEMMA MinimumFact ==
  ASSUME NEW S, S \subseteq Nat, S # {}
  PROVE  Minimum(S) \in S /\ \A m \in S : Minimum(S) <= m
BY LeastNatural DEF Minimum

\* A window holds no id at or after its end; when it is complete, none at or
\* after its start.
LEMMA NotedFact ==
  ASSUME NEW seq, WellFormed(seq), NEW id \in Nat
  PROVE  /\ IsNoted(seq, id) => id < seq.start + seq.length
         /\ Complete(seq) => (IsNoted(seq, id) <=> id < seq.start)
         /\ ~ IsNoted(seq, id) => id >= seq.start
BY DEF WellFormed, Complete, IsNoted

\* Commands are sent at the end of the channel and taken from its front.
LEMMA SendType ==
  ASSUME NEW S, NEW seq \in Seq(S), NEW e \in S
  PROVE  /\ Append(seq, e) \in Seq(S)
         /\ Len(Append(seq, e)) = Len(seq) + 1
         /\ \A i \in 1 .. Len(seq) : Append(seq, e)[i] = seq[i]
         /\ Append(seq, e)[Len(seq) + 1] = e
OBVIOUS

LEMMA ReceiveType ==
  ASSUME NEW S, NEW seq \in Seq(S), seq # <<>>
  PROVE  /\ Head(seq) \in S
         /\ Head(seq) = seq[1]
         /\ Tail(seq) \in Seq(S)
         /\ Len(Tail(seq)) = Len(seq) - 1
         /\ Len(seq) >= 1
         /\ \A i \in 1 .. Len(Tail(seq)) : Tail(seq)[i] = seq[i + 1]
OBVIOUS

\* What TypeOK says of the ids, for the steps that compare them.
LEMMA IdTypes ==
  ASSUME TypeOK
  PROVE  /\ Ids \subseteq Nat
         /\ nextId \in Nat /\ lastWritten \in Nat
         /\ pending.start \in Nat /\ pending.length \in Nat
         /\ \A t \in Threads : txid[t] \in Nat
         /\ Len(channel) \in Nat /\ Len(log) \in Nat
         /\ \A i \in 1 .. Len(channel) : channel[i] \in Command /\ channel[i].id \in Nat
         /\ \A i \in 1 .. Len(log) : log[i] \in Nat
         /\ \A c \in batch : c.id \in Nat
         /\ \A c \in replies : c.id \in Nat
         /\ writing \subseteq Nat
<1>1. Ids \subseteq Nat
  BY ConstantsAssumption DEF Ids
<1>2. nextId \in Nat /\ lastWritten \in Nat
  BY <1>1, ConstantsAssumption DEF TypeOK
<1>3. pending.start \in Nat /\ pending.length \in Nat
  BY DEF TypeOK, Sequence
<1>4. \A t \in Threads : txid[t] \in Nat
  <2>1. \A t \in Threads : txid[t] \in Ids \cup {0}
    BY DEF TypeOK
  <2>2. Ids \cup {0} \subseteq Nat
    BY <1>1
  <2> QED
    BY <2>1, <2>2
<1>5. Len(channel) \in Nat /\ \A i \in 1 .. Len(channel) : channel[i] \in Command /\ channel[i].id \in Nat
  <2>1. Len(channel) \in Nat /\ \A i \in 1 .. Len(channel) : channel[i] \in Command
    BY DEF TypeOK
  <2> QED
    BY <1>1, <2>1 DEF Command
<1>6. Len(log) \in Nat /\ \A i \in 1 .. Len(log) : log[i] \in Nat
  <2>1. Len(log) \in Nat /\ \A i \in 1 .. Len(log) : log[i] \in Ids
    BY DEF TypeOK
  <2> QED
    BY <1>1, <2>1
<1>7. \A c \in batch \cup replies : c.id \in Nat
  BY <1>1 DEF TypeOK, Committer
<1>8. writing \subseteq Nat
  BY <1>1 DEF TypeOK
<1> QED
  BY <1>1, <1>2, <1>3, <1>4, <1>5, <1>6, <1>7, <1>8

-----------------------------------------------------------------------------
\* IInv holds initially.

LEMMA InitIInv == Init => IInv
<1> SUFFICES ASSUME Init PROVE IInv
  OBVIOUS
<1> USE ConstantsAssumption DEF Init
<1>1. TypeOK
  BY DEF TypeOK, NewSequence, Sequence, Ids
<1>2. IdsInv
  BY DEF IdsInv, WellFormed, NewSequence
<1>3. BatchInv
  BY DEF BatchInv, NewSequence
<1>4. LogInv
  BY DEF LogInv, LogAscending
<1> QED
  BY <1>1, <1>2, <1>3, <1>4 DEF IInv

-----------------------------------------------------------------------------
\* IInv is preserved by the threads.

\* No action of a thread touches the manager thread's variables or the log.
LEMMA ThreadStepFrame ==
  ASSUME NEW t \in Threads, ThreadStep(t)
  PROVE  UNCHANGED <<managerVars, logVars, acked, crashes>>
BY DEF ThreadStep, NewTransaction, LockTree, TreesLocked, AllocateId, Commit, CommitFails,
       Rollback, PublishTree, TreesPublished, ReleaseLock, LocksReleased, ChannelDropped,
       managerVars

LEMMA ThreadStepTypeOK ==
  ASSUME TypeOK, IdsInv, NEW t \in Threads, ThreadStep(t)
  PROVE  TypeOK'
<1> USE ConstantsAssumption DEF TypeOK
<1>1. ASSUME NEW requested \in SUBSET Trees, NewTransaction(t, requested) PROVE TypeOK'
  BY <1>1 DEF NewTransaction, managerVars, logVars
<1>2. CASE LockTree(t)
  BY <1>2 DEF LockTree, managerVars, logVars, threadVars
<1>3. CASE TreesLocked(t)
  BY <1>3 DEF TreesLocked, managerVars, logVars
<1>4. CASE AllocateId(t)
  BY <1>4 DEF AllocateId, managerVars, logVars, Ids
<1>5. CASE Commit(t)
  <2>1. txid[t] \in Ids
    BY <1>5 DEF Commit, IdsInv
  <2>2. channel' \in Seq(Command)
    BY <1>5, <2>1, SendType DEF Commit, Command
  <2> QED
    BY <1>5, <2>2 DEF Commit, managerVars, logVars, stateVars
<1>6. CASE CommitFails(t)
  BY <1>6 DEF CommitFails, managerVars, logVars, stateVars
<1>7. CASE Rollback(t)
  <2>1. txid[t] \in Ids
    BY <1>7 DEF Rollback, IdsInv
  <2>2. \/ channel' = channel
        \/ channel' = Append(channel, [kind |-> "Drop", id |-> txid[t], thread |-> t])
    BY <1>7, Zenon DEF Rollback
  <2>3. [kind |-> "Drop", id |-> txid[t], thread |-> t] \in Command
    BY <2>1 DEF Command
  <2>4. channel \in Seq(Command)
    OBVIOUS
  <2>5. channel' \in Seq(Command)
    BY ONLY <2>2, <2>3, <2>4, SendType
  <2> QED
    BY <1>7, <2>5 DEF Rollback, managerVars, logVars, stateVars
<1>8. ASSUME NEW x \in Trees, PublishTree(t, x) PROVE TypeOK'
  BY <1>8 DEF PublishTree, managerVars, logVars, stateVars, threadVars
<1>9. CASE TreesPublished(t)
  BY <1>9 DEF TreesPublished, managerVars, logVars, stateVars
<1>10. ASSUME NEW x \in Trees, ReleaseLock(t, x) PROVE TypeOK'
  BY <1>10 DEF ReleaseLock, managerVars, logVars, threadVars
<1>11. CASE LocksReleased(t)
  BY <1>11 DEF LocksReleased, managerVars, logVars, stateVars
<1>12. CASE ChannelDropped(t)
  BY <1>12 DEF ChannelDropped, managerVars, logVars, stateVars
<1> QED
  BY <1>1, <1>2, <1>3, <1>4, <1>5, <1>6, <1>7, <1>8, <1>9, <1>10, <1>11, <1>12 DEF ThreadStep

\* A step of a thread hands out a new id, sends an id it holds, or neither.
LEMMA ThreadStepIdsInv ==
  ASSUME TypeOK, IdsInv, NEW t \in Threads, ThreadStep(t)
  PROVE  IdsInv'
<1>1. pending' = pending
  BY ThreadStepFrame DEF managerVars
<1>2. ASSUME channel' = channel, nextId' = nextId,
             \A u \in Threads : pc'[u] = "open" => pc[u] = "open" /\ txid'[u] = txid[u]
      PROVE  IdsInv'
  <2>1. WellFormed(pending') /\ pending'.start + pending'.length <= nextId'
    BY <1>1, <1>2 DEF IdsInv
  <2>2. ASSUME NEW u \in Threads, pc'[u] = "open"
        PROVE  /\ txid'[u] # 0 /\ txid'[u] < nextId' /\ ~ IsNoted(pending', txid'[u])
               /\ \A i \in 1 .. Len(channel') : channel'[i].id # txid'[u]
    BY <1>1, <1>2, <2>2 DEF IdsInv
  <2>3. ASSUME NEW u \in Threads, NEW v \in Threads, pc'[u] = "open", pc'[v] = "open", u # v
        PROVE  txid'[u] # txid'[v]
    BY <1>2, <2>3 DEF IdsInv
  <2>4. /\ \A i \in 1 .. Len(channel') :
             channel'[i].id < nextId' /\ ~ IsNoted(pending', channel'[i].id)
        /\ \A i, j \in 1 .. Len(channel') : i # j => channel'[i].id # channel'[j].id
    BY <1>1, <1>2 DEF IdsInv
  <2> QED
    BY <2>1, <2>2, <2>3, <2>4 DEF IdsInv
<1>3. ASSUME pc[t] = "open", nextId' = nextId, txid' = txid,
             NEW e \in Command, e.id = txid[t], channel' = Append(channel, e),
             \A u \in Threads : pc'[u] = "open" => pc[u] = "open" /\ u # t
      PROVE  IdsInv'
  <2>1. channel \in Seq(Command)
    BY DEF TypeOK
  <2>2. /\ Len(channel) \in Nat
        /\ Len(channel') = Len(channel) + 1
        /\ \A i \in 1 .. Len(channel) : channel'[i] = channel[i]
        /\ channel'[Len(channel) + 1] = e
    BY <1>3, <2>1, SendType
  <2>3. \A i \in 1 .. Len(channel') :
          \/ i = Len(channel) + 1 /\ channel'[i].id = txid[t]
          \/ i \in 1 .. Len(channel) /\ channel'[i].id = channel[i].id
    BY <1>3, <2>2
  <2>4. txid[t] < nextId /\ ~ IsNoted(pending, txid[t])
    BY <1>3 DEF IdsInv
  <2>5. WellFormed(pending') /\ pending'.start + pending'.length <= nextId'
    BY <1>1, <1>3 DEF IdsInv
  <2>6. ASSUME NEW u \in Threads, pc'[u] = "open"
        PROVE  /\ txid'[u] # 0 /\ txid'[u] < nextId' /\ ~ IsNoted(pending', txid'[u])
               /\ \A v \in Threads : pc'[v] = "open" /\ u # v => txid'[u] # txid'[v]
    BY <1>1, <1>3, <2>6 DEF IdsInv
  <2>7. ASSUME NEW u \in Threads, pc'[u] = "open", NEW i \in 1 .. Len(channel')
        PROVE  channel'[i].id # txid'[u]
    <3>1. pc[u] = "open" /\ u # t /\ txid'[u] = txid[u]
      BY <1>3, <2>7
    <3>2. txid[u] # txid[t] /\ \A j \in 1 .. Len(channel) : channel[j].id # txid[u]
      BY <1>3, <3>1 DEF IdsInv
    <3> QED
      BY <2>3, <3>1, <3>2
  <2>8. \A i \in 1 .. Len(channel') : channel'[i].id < nextId' /\ ~ IsNoted(pending', channel'[i].id)
    BY <1>1, <1>3, <2>3, <2>4 DEF IdsInv
  <2>9. ASSUME NEW i \in 1 .. Len(channel'), NEW j \in 1 .. Len(channel'), i # j
        PROVE  channel'[i].id # channel'[j].id
    <3>1. \A k \in 1 .. Len(channel) : channel[k].id # txid[t]
      BY <1>3 DEF IdsInv
    <3>2. CASE i \in 1 .. Len(channel) /\ j \in 1 .. Len(channel)
      BY <2>2, <2>9, <3>2 DEF IdsInv
    <3>3. CASE i = Len(channel) + 1 \/ j = Len(channel) + 1
      BY <2>3, <2>9, <3>1, <3>3
    <3> QED
      BY <2>3, <3>2, <3>3
  <2> QED
    BY <2>5, <2>6, <2>7, <2>8, <2>9 DEF IdsInv
<1>4. ASSUME NEW requested, NewTransaction(t, requested) PROVE IdsInv'
  BY <1>2, <1>4 DEF NewTransaction, TypeOK
<1>5. CASE LockTree(t)
  BY <1>2, <1>5 DEF LockTree, threadVars
<1>6. CASE TreesLocked(t)
  BY <1>2, <1>6 DEF TreesLocked, TypeOK
<1>7. CASE AllocateId(t)
  <2>1. /\ nextId \in Nat \ {0}
        /\ nextId' = nextId + 1
        /\ channel' = channel
        /\ txid'[t] = nextId
        /\ \A u \in Threads : u # t => pc'[u] = pc[u] /\ txid'[u] = txid[u]
    BY <1>7 DEF AllocateId, TypeOK
  <2>2. ~ IsNoted(pending, nextId)
    <3>1. /\ WellFormed(pending) /\ pending.start + pending.length <= nextId
          /\ pending.start + pending.length \in Nat /\ nextId \in Nat
      BY <2>1, IdTypes DEF IdsInv
    <3>2. IsNoted(pending, nextId) => nextId < pending.start + pending.length
      BY <3>1, NotedFact
    <3> QED
      BY <3>1, <3>2
  <2>3. /\ \A u \in Threads : txid[u] \in Nat
        /\ \A i \in 1 .. Len(channel) : channel[i].id \in Nat
        /\ pending.start + pending.length \in Nat
    BY IdTypes
  <2>4. WellFormed(pending') /\ pending'.start + pending'.length <= nextId'
    <3>1. WellFormed(pending) /\ pending.start + pending.length <= nextId
      BY DEF IdsInv
    <3> QED
      BY <1>1, <2>1, <2>3, <3>1
  <2>5. ASSUME NEW u \in Threads, pc'[u] = "open"
        PROVE  /\ txid'[u] # 0 /\ txid'[u] < nextId' /\ ~ IsNoted(pending', txid'[u])
               /\ \A i \in 1 .. Len(channel') : channel'[i].id # txid'[u]
    <3>1. CASE u = t
      <4>1. \A i \in 1 .. Len(channel) : channel[i].id < nextId
        BY DEF IdsInv
      <4> QED
        BY <1>1, <2>1, <2>2, <2>3, <3>1, <4>1
    <3>2. CASE u # t
      <4>1. pc[u] = "open" /\ txid'[u] = txid[u]
        BY <2>1, <2>5, <3>2
      <4>2. /\ txid[u] # 0 /\ txid[u] < nextId /\ ~ IsNoted(pending, txid[u])
            /\ \A i \in 1 .. Len(channel) : channel[i].id # txid[u]
        BY <4>1 DEF IdsInv
      <4> QED
        BY <1>1, <2>1, <2>3, <4>1, <4>2
    <3> QED
      BY <3>1, <3>2
  <2>6. ASSUME NEW u \in Threads, NEW v \in Threads, pc'[u] = "open", pc'[v] = "open", u # v
        PROVE  txid'[u] # txid'[v]
    <3>1. \A w \in Threads : w # t /\ pc'[w] = "open" => txid'[w] = txid[w] /\ txid[w] < nextId
      BY <2>1 DEF IdsInv
    <3>2. CASE u # t /\ v # t
      BY <2>1, <2>6, <3>2 DEF IdsInv
    <3>3. CASE u = t \/ v = t
      BY <2>1, <2>3, <2>6, <3>1, <3>3
    <3> QED
      BY <3>2, <3>3
  <2>7. /\ \A i \in 1 .. Len(channel') :
             channel'[i].id < nextId' /\ ~ IsNoted(pending', channel'[i].id)
        /\ \A i, j \in 1 .. Len(channel') : i # j => channel'[i].id # channel'[j].id
    <3>1. /\ \A i \in 1 .. Len(channel) : channel[i].id < nextId /\ ~ IsNoted(pending, channel[i].id)
          /\ \A i, j \in 1 .. Len(channel) : i # j => channel[i].id # channel[j].id
      BY DEF IdsInv
    <3> QED
      BY <1>1, <2>1, <2>3, <3>1
  <2> QED
    BY <2>4, <2>5, <2>6, <2>7 DEF IdsInv
<1>8. CASE Commit(t)
  <2>1. txid[t] \in Ids
    BY <1>8 DEF Commit, IdsInv, TypeOK
  <2> DEFINE e == [kind |-> "Commit", id |-> txid[t], thread |-> t]
  <2>2. e \in Command /\ e.id = txid[t] /\ channel' = Append(channel, e)
    BY <1>8, <2>1 DEF Commit, Command
  <2>3. /\ pc[t] = "open" /\ nextId' = nextId /\ txid' = txid
        /\ \A u \in Threads : pc'[u] = "open" => pc[u] = "open" /\ u # t
    BY <1>8 DEF Commit, TypeOK, stateVars
  <2> QED
    BY <1>3, <2>2, <2>3
<1>9. CASE CommitFails(t)
  BY <1>2, <1>9 DEF CommitFails, TypeOK, stateVars
<1>10. CASE Rollback(t)
  <2>1. txid[t] \in Ids
    BY <1>10 DEF Rollback, IdsInv, TypeOK
  <2> DEFINE e == [kind |-> "Drop", id |-> txid[t], thread |-> t]
  <2>2. e \in Command /\ e.id = txid[t]
    BY <2>1 DEF Command
  <2>3. channel' = channel \/ channel' = Append(channel, e)
    BY <1>10 DEF Rollback
  <2>4. /\ pc[t] = "open" /\ nextId' = nextId /\ txid' = txid
        /\ \A u \in Threads : pc'[u] = "open" => pc[u] = "open" /\ u # t
    BY <1>10 DEF Rollback, TypeOK, stateVars
  <2> QED
    BY <1>2, <1>3, <2>2, <2>3, <2>4
<1>11. ASSUME NEW x \in Trees, PublishTree(t, x) PROVE IdsInv'
  BY <1>2, <1>11 DEF PublishTree, stateVars, threadVars
<1>12. CASE TreesPublished(t)
  BY <1>2, <1>12 DEF TreesPublished, TypeOK, stateVars
<1>13. ASSUME NEW x \in Trees, ReleaseLock(t, x) PROVE IdsInv'
  BY <1>2, <1>13 DEF ReleaseLock, threadVars
<1>14. CASE LocksReleased(t)
  BY <1>2, <1>14 DEF LocksReleased, TypeOK, stateVars
<1>15. CASE ChannelDropped(t)
  BY <1>2, <1>15 DEF ChannelDropped, TypeOK, stateVars
<1> QED
  BY <1>4, <1>5, <1>6, <1>7, <1>8, <1>9, <1>10, <1>11, <1>12, <1>13, <1>14, <1>15 DEF ThreadStep

LEMMA ThreadStepIInv ==
  ASSUME IInv, NEW t \in Threads, ThreadStep(t)
  PROVE  IInv'
<1>1. TypeOK' /\ IdsInv'
  BY ThreadStepTypeOK, ThreadStepIdsInv DEF IInv
<1>2. BatchInv' /\ LogInv'
  BY ThreadStepFrame DEF IInv, BatchInv, LogInv, LogAscending, managerVars, logVars
<1> QED
  BY <1>1, <1>2 DEF IInv

-----------------------------------------------------------------------------
\* IInv is preserved by the commands the manager thread processes.

\* Taking a command and noting its id.
LEMMA ReceiveAndNote ==
  ASSUME TypeOK, IdsInv, channel # <<>>, channel' = Tail(channel),
         UNCHANGED <<stateVars, threadVars>>, pending' = Note(pending, Received.id)
  PROVE  /\ IdsInv'
         /\ channel' \in Seq(Command) /\ pending' \in Sequence /\ WellFormed(pending')
         /\ Received \in Committer
         /\ ~ IsNoted(pending, Received.id) /\ Received.id >= pending.start
         /\ pending'.start >= pending.start
         /\ \A x \in Nat : IsNoted(pending', x) <=> IsNoted(pending, x) \/ x = Received.id
<1> DEFINE id == Received.id
<1>1. /\ channel' \in Seq(Command)
      /\ Head(channel) = channel[1] /\ Head(channel) \in Command
      /\ Len(channel) >= 1 /\ Len(channel') = Len(channel) - 1
      /\ \A i \in 1 .. Len(channel') : channel'[i] = channel[i + 1]
  BY ReceiveType DEF TypeOK
<1>2. Received \in Committer /\ id = channel[1].id
  BY <1>1 DEF Received, Command, Committer
<1>3. id \in Nat /\ Len(channel) \in Nat /\ nextId \in Nat
  BY <1>1, <1>2, IdTypes
<1>4. ~ IsNoted(pending, id) /\ id < nextId
  BY <1>1, <1>2, <1>3 DEF IdsInv
<1>5. WellFormed(pending)
  BY DEF IdsInv
<1>6. id >= pending.start
  BY <1>3, <1>4, <1>5, NotedFact
<1>7. /\ WellFormed(pending')
      /\ pending'.start >= pending.start
      /\ pending'.start + pending'.length = Larger(pending.start + pending.length, id + 1)
      /\ \A x \in Nat : IsNoted(pending', x) <=> IsNoted(pending, x) \/ x = id
  BY <1>3, <1>5, <1>6, NoteFact
<1>8. pending' \in Sequence
  BY <1>7 DEF WellFormed, Sequence
<1>9. IdsInv'
  <2>1. pending'.start + pending'.length <= nextId'
    <3> DEFINE end == pending.start + pending.length
    <3>1. end \in Nat /\ end <= nextId /\ nextId' = nextId
      <4>1. pending.start \in Nat /\ pending.length \in Nat
        BY IdTypes
      <4>2. pending.start + pending.length <= nextId
        BY DEF IdsInv
      <4>3. nextId' = nextId
        BY DEF stateVars
      <4> QED
        BY <4>1, <4>2, <4>3
    <3>2. pending'.start + pending'.length = Larger(end, id + 1)
      BY <1>7
    <3> HIDE DEF end, id
    <3> QED
      BY <1>3, <1>4, <3>1, <3>2 DEF Larger
  <2>2. ASSUME NEW t \in Threads, pc'[t] = "open"
        PROVE  /\ txid'[t] # 0 /\ txid'[t] < nextId' /\ ~ IsNoted(pending', txid'[t])
               /\ \A u \in Threads : pc'[u] = "open" /\ t # u => txid'[t] # txid'[u]
               /\ \A i \in 1 .. Len(channel') : channel'[i].id # txid'[t]
    <3>1. pc[t] = "open" /\ txid' = txid /\ pc' = pc /\ nextId' = nextId /\ txid[t] \in Nat
      BY <2>2, IdTypes DEF stateVars, threadVars
    <3>2. txid[t] # id
      <4>1. 1 \in 1 .. Len(channel)
        BY <1>1, <1>3
      <4>2. channel[1].id # txid[t]
        BY <3>1, <4>1 DEF IdsInv
      <4> QED
        BY <1>2, <4>2
    <3>3. \A i \in 1 .. Len(channel') : i + 1 \in 1 .. Len(channel)
      BY <1>1, <1>3
    <3>4. txid'[t] # 0 /\ txid'[t] < nextId' /\ ~ IsNoted(pending', txid'[t])
      BY <1>7, <3>1, <3>2 DEF IdsInv
    <3>5. \A u \in Threads : pc'[u] = "open" /\ t # u => txid'[t] # txid'[u]
      BY <3>1 DEF IdsInv
    <3>6. \A i \in 1 .. Len(channel) : channel[i].id # txid[t]
      BY <3>1 DEF IdsInv
    <3> QED
      BY <1>1, <3>1, <3>3, <3>4, <3>5, <3>6
  <2>3. ASSUME NEW i \in 1 .. Len(channel')
        PROVE  /\ channel'[i].id < nextId' /\ ~ IsNoted(pending', channel'[i].id)
               /\ \A j \in 1 .. Len(channel') : i # j => channel'[i].id # channel'[j].id
    <3>1. /\ i + 1 \in 2 .. Len(channel) /\ 1 \in 1 .. Len(channel)
          /\ \A j \in 1 .. Len(channel') : j + 1 \in 1 .. Len(channel) /\ (i # j => i + 1 # j + 1)
      BY <1>1, <1>3
    <3>2. channel[i + 1].id # channel[1].id /\ channel[i + 1].id \in Nat
      <4>1. i + 1 \in 1 .. Len(channel) /\ i + 1 # 1
        BY <1>3, <3>1
      <4>2. channel[i + 1].id \in Nat
        BY <4>1, IdTypes
      <4> QED
        BY <3>1, <4>1, <4>2 DEF IdsInv
    <3>3. nextId' = nextId
      BY DEF stateVars
    <3>4. channel'[i] = channel[i + 1] /\ i + 1 \in 1 .. Len(channel)
      BY <1>1, <3>1
    <3>5. channel[i + 1].id < nextId /\ ~ IsNoted(pending, channel[i + 1].id)
      BY <3>4 DEF IdsInv
    <3>6. ~ IsNoted(pending', channel[i + 1].id)
      BY <1>2, <1>7, <3>2, <3>5
    <3>7. ASSUME NEW j \in 1 .. Len(channel'), i # j PROVE channel[i + 1].id # channel[j + 1].id
      BY <3>1, <3>4, <3>7 DEF IdsInv
    <3> QED
      BY <1>1, <3>3, <3>4, <3>5, <3>6, <3>7
  <2> QED
    BY <1>7, <2>1, <2>2, <2>3 DEF IdsInv
<1> QED
  BY <1>1, <1>2, <1>4, <1>6, <1>7, <1>8, <1>9

\* What a command leaves alone, and what ReceiveAndNote says of the rest.
CommandFrame ==
  /\ mpc = "command"
  /\ UNCHANGED <<stateVars, threadVars, logVars, published, acked, crashes>>
  /\ channel' \in Seq(Command)
  /\ pending' \in Sequence
  /\ pending'.start >= pending.start

\* The ids that may be kept in transaction_batch after a command.
Keepable(committers) ==
  /\ committers \subseteq Committer
  /\ \A c \in committers : IsNoted(pending', c.id) /\ lastWritten < c.id

\* A command that only adds to the batch.
LEMMA KeepBatchInv ==
  ASSUME IInv, CommandFrame, NEW committers, NEW state,
         KeepBatch(committers, state),
         Keepable(committers),
         state \in {"Fresh", "Batching", "EnsuringSequence"},
         state = "Fresh" => committers = {},
         state = "Batching" => committers # {} /\ Complete(pending')
  PROVE  TypeOK' /\ BatchInv' /\ LogInv'
<1>1. TypeOK'
  BY DEF IInv, TypeOK, CommandFrame, KeepBatch, Keepable, stateVars, threadVars, logVars
<1>2. writing = {} /\ lastWritten < pending'.start
  <2>1. lastWritten \in Nat /\ pending.start \in Nat /\ pending'.start \in Nat
    BY IdTypes DEF IInv, CommandFrame, Sequence
  <2> QED
    BY <2>1 DEF IInv, BatchInv, CommandFrame
<1>3. BatchInv'
  BY <1>2 DEF CommandFrame, KeepBatch, Keepable, BatchInv, logVars
<1>4. LogInv'
  BY DEF IInv, LogInv, LogAscending, CommandFrame, logVars
<1> QED
  BY <1>1, <1>3, <1>4

\* A command that starts to write a batch, all of it below the window.
LEMMA CommitTransactionBatchInv ==
  ASSUME IInv, CommandFrame, NEW committers, NEW state, NEW kept,
         CommitTransactionBatch(committers, state, kept),
         Keepable(committers), committers # {}, Keepable(kept),
         \A c \in committers : c.id < pending'.start,
         \A c \in committers : \A d \in kept : c.id < d.id,
         state \in {"Fresh", "EnsuringSequence"},
         state = "Fresh" => kept = {}
  PROVE  TypeOK' /\ BatchInv' /\ LogInv'
<1>1. {c.id : c \in committers} \subseteq Ids
  BY DEF Keepable, Committer
<1>2. TypeOK'
  BY <1>1 DEF IInv, TypeOK, CommandFrame, CommitTransactionBatch, Keepable, stateVars, threadVars, logVars
<1>3. lastWritten < pending'.start
  <2>1. lastWritten \in Nat /\ pending.start \in Nat /\ pending'.start \in Nat
    BY IdTypes DEF IInv, CommandFrame, Sequence
  <2> QED
    BY <2>1 DEF IInv, BatchInv, CommandFrame
<1>4. BatchInv'
  BY <1>3 DEF CommandFrame, CommitTransactionBatch, Keepable, BatchInv, logVars
<1>5. LogInv'
  BY DEF IInv, LogInv, LogAscending, CommandFrame, logVars
<1> QED
  BY <1>2, <1>4, <1>5

\* A step that leaves the threads alone, or ends transactions that wait.
LEMMA AnswersIdsInv ==
  ASSUME IdsInv,
         UNCHANGED <<stateVars, trees, txid, channel, pending>>,
         \A t \in Threads : pc'[t] = "open" => pc[t] = "open"
  PROVE  IdsInv'
BY DEF IdsInv, stateVars

\* The seven ways a command is processed.
ProcessCommand ==
  \/ FreshCommit \/ FreshDrop
  \/ BatchingCommit \/ BatchingDrop \/ BatchingEmpty
  \/ EnsuringSequenceCommit \/ EnsuringSequenceDrop

LEMMA ProcessCommandIInv ==
  ASSUME IInv, ProcessCommand
  PROVE  IInv'
<1>1. /\ TypeOK /\ IdsInv /\ BatchInv
      /\ lastWritten \in Nat /\ pending.start \in Nat
      /\ batch \subseteq Committer
      /\ \A c \in Committer : c.id \in Nat
  BY IdTypes DEF IInv, TypeOK, Committer
<1>2. ASSUME NEW state, NEW kind, Receive(state, kind), pending' = Note(pending, Received.id)
      PROVE  /\ CommandFrame /\ IdsInv' /\ mstate = state
             /\ Keepable(batch) /\ Keepable(batch \cup {Received}) /\ Keepable({Received})
             /\ Received.id >= pending.start
             /\ WellFormed(pending')
  <2>1. /\ mpc = "command" /\ mstate = state /\ channel # <<>> /\ channel' = Tail(channel)
        /\ UNCHANGED <<stateVars, threadVars, logVars, published, acked, crashes>>
    BY <1>2 DEF Receive
  <2>2. /\ IdsInv'
        /\ channel' \in Seq(Command) /\ pending' \in Sequence /\ WellFormed(pending')
        /\ Received \in Committer
        /\ ~ IsNoted(pending, Received.id) /\ Received.id >= pending.start
        /\ pending'.start >= pending.start
        /\ \A x \in Nat : IsNoted(pending', x) <=> IsNoted(pending, x) \/ x = Received.id
    BY <1>1, <1>2, <2>1, ReceiveAndNote
  <2>3. CommandFrame
    BY <2>1, <2>2 DEF CommandFrame
  <2>4. Received.id \in Nat /\ lastWritten < Received.id
    BY <1>1, <2>2 DEF BatchInv
  <2>5. Keepable(batch \cup {Received})
    BY <1>1, <2>2, <2>4 DEF Keepable, BatchInv
  <2> QED
    BY <2>1, <2>2, <2>3, <2>5 DEF Keepable
\* mark_transaction_handled
<1>3. ASSUME NEW state \in {"Fresh", "EnsuringSequence"}, NEW kind, NEW committers,
             Receive(state, kind), MarkTransactionHandled(Received.id, committers),
             Keepable(committers),
             state = "Fresh" => committers = {}
      PROVE  IInv'
  <2>1. pending' = Note(pending, Received.id)
    BY <1>3 DEF MarkTransactionHandled
  <2>2. /\ CommandFrame /\ IdsInv' /\ mstate = state /\ Keepable(committers) /\ Keepable({})
        /\ WellFormed(pending')
    BY <1>2, <1>3, <2>1 DEF Keepable
  <2>3. CASE Complete(pending') /\ committers # {}
    <3>1. CommitTransactionBatch(committers, "Fresh", {})
      BY <1>3, <2>3 DEF MarkTransactionHandled
    <3>2. \A c \in committers : c.id < pending'.start
      BY <1>1, <2>2, <2>3, NotedFact DEF Keepable
    <3> QED
      BY <2>2, <2>3, <3>1, <3>2, CommitTransactionBatchInv DEF IInv
  <2>4. CASE ~ (Complete(pending') /\ committers # {})
    <3>1. KeepBatch(committers, mstate)
      BY <1>3, <2>4 DEF MarkTransactionHandled
    <3> QED
      BY <1>3, <2>2, <2>4, <3>1, KeepBatchInv DEF IInv
  <2> QED
    BY <2>3, <2>4
\* note_potentially_sequntial_id
<1>4. ASSUME NEW kind, NEW added, added = {} \/ added = {Received},
             Receive("Batching", kind), NotePotentiallySequentialId(Received.id, added)
      PROVE  IInv'
  <2>1. pending' = Note(pending, Received.id)
    BY <1>4 DEF NotePotentiallySequentialId
  <2>2. /\ CommandFrame /\ IdsInv' /\ Keepable(added) /\ Keepable(batch) /\ Keepable(batch \cup added)
        /\ Received.id >= pending.start
    BY <1>2, <1>4, <2>1 DEF Keepable
  <2>3. batch # {} /\ Complete(pending)
    BY <1>1, <1>2, <1>4, <2>1 DEF BatchInv
  <2>4. CASE Complete(pending')
    <3>1. KeepBatch(batch \cup added, "Batching")
      BY <1>4, <2>4 DEF NotePotentiallySequentialId
    <3>2. batch \cup added # {}
      BY <2>3
    <3> QED
      BY <2>2, <2>4, <3>1, <3>2, KeepBatchInv DEF IInv
  <2>5. CASE ~ Complete(pending')
    <3>1. CommitTransactionBatch(batch, "EnsuringSequence", added)
      BY <1>4, <2>3, <2>5 DEF NotePotentiallySequentialId
    <3>2. \A c \in batch : c.id < pending.start
      BY <1>1, <2>3, NotedFact DEF BatchInv, IdsInv
    <3>3. \A c \in batch : c.id < pending'.start
      BY <1>1, <2>2, <3>2 DEF CommandFrame, Sequence
    <3>4. \A c \in batch : \A d \in added : c.id < d.id
      BY <1>1, <1>4, <2>2, <3>2 DEF Keepable
    <3> QED
      BY <2>2, <2>3, <3>1, <3>3, <3>4, CommitTransactionBatchInv DEF IInv
  <2> QED
    BY <2>4, <2>5
<1>5. CASE FreshCommit
  <2>1. /\ Receive("Fresh", "Commit")
        /\ pending' = Note(pending, Received.id)
        /\ KeepBatch(batch \cup {Received}, IF Complete(pending') THEN "Batching" ELSE "EnsuringSequence")
    BY <1>5 DEF FreshCommit
  <2>2. CommandFrame /\ IdsInv' /\ Keepable(batch \cup {Received})
    BY <1>2, <2>1
  <2> QED
    BY <2>1, <2>2, KeepBatchInv DEF IInv
<1>6. CASE FreshDrop
  <2>1. Receive("Fresh", "Drop") /\ MarkTransactionHandled(Received.id, batch)
    BY <1>6 DEF FreshDrop
  <2>2. Keepable(batch) /\ batch = {}
    BY <1>1, <1>2, <2>1 DEF MarkTransactionHandled, BatchInv
  <2> QED
    BY <1>3, <2>1, <2>2
<1>7. CASE BatchingCommit
  BY <1>4, <1>7 DEF BatchingCommit
<1>8. CASE BatchingDrop
  BY <1>4, <1>8 DEF BatchingDrop
<1>9. CASE BatchingEmpty
  <2>1. /\ mpc = "command" /\ mstate = "Batching" /\ pending' = pending
        /\ CommitTransactionBatch(batch, "Fresh", {})
    BY <1>9 DEF BatchingEmpty
  <2>2. CommandFrame
    <3>1. channel \in Seq(Command) /\ pending \in Sequence /\ pending.start \in Nat
      BY <1>1, IdTypes DEF TypeOK
    <3>2. channel' = channel /\ UNCHANGED <<stateVars, threadVars, logVars, published, acked, crashes>>
      BY <1>9 DEF BatchingEmpty
    <3>3. channel' \in Seq(Command) /\ pending' \in Sequence /\ pending'.start >= pending.start
      BY <2>1, <3>1, <3>2
    <3> QED
      BY <2>1, <3>2, <3>3 DEF CommandFrame
  <2>3. batch # {} /\ \A c \in batch : c.id < pending'.start
    BY <1>1, <2>1, NotedFact DEF BatchInv, IdsInv
  <2>4. Keepable(batch) /\ Keepable({})
    BY <1>1, <2>1 DEF Keepable, BatchInv
  <2>5. IdsInv'
    BY <1>1, <1>9, <2>1, AnswersIdsInv DEF BatchingEmpty, stateVars, threadVars
  <2> QED
    BY <2>1, <2>2, <2>3, <2>4, <2>5, CommitTransactionBatchInv DEF IInv
<1>10. CASE EnsuringSequenceCommit
  <2>1. /\ Receive("EnsuringSequence", "Commit")
        /\ MarkTransactionHandled(Received.id, batch \cup {Received})
    BY <1>10 DEF EnsuringSequenceCommit
  <2>2. Keepable(batch \cup {Received})
    BY <1>2, <2>1 DEF MarkTransactionHandled
  <2> QED
    BY <1>3, <2>1, <2>2
<1>11. CASE EnsuringSequenceDrop
  <2>1. Receive("EnsuringSequence", "Drop") /\ MarkTransactionHandled(Received.id, batch)
    BY <1>11 DEF EnsuringSequenceDrop
  <2>2. Keepable(batch)
    BY <1>2, <2>1 DEF MarkTransactionHandled
  <2> QED
    BY <1>3, <2>1, <2>2
<1> QED
  BY <1>5, <1>6, <1>7, <1>8, <1>9, <1>10, <1>11 DEF ProcessCommand

-----------------------------------------------------------------------------
\* IInv is preserved by LogWriter, by the answers and by a failure.

\* The manager thread panics while it holds a batch.
LEMMA StopManagerIInv ==
  ASSUME IInv, mpc \in {"write", "sync"}, StopManager,
         UNCHANGED <<stateVars, trees, txid, channel, mstate, pending, logVars, published, acked, crashes>>
  PROVE  IInv'
<1>1. TypeOK'
  BY DEF IInv, TypeOK, StopManager, stateVars, logVars
<1>2. IdsInv'
  <2>1. \A t \in Threads : pc'[t] = "open" => pc[t] = "open"
    BY DEF StopManager
  <2> QED
    BY <2>1, AnswersIdsInv DEF IInv
<1>3. BatchInv'
  BY DEF IInv, BatchInv, StopManager, logVars
<1>4. LogInv'
  BY DEF IInv, LogInv, LogAscending, logVars
<1> QED
  BY <1>1, <1>2, <1>3, <1>4 DEF IInv

\* LogWriter finds the ids in order: its check never fails.
LEMMA WriteEntryFact ==
  ASSUME IInv, WriteEntry
  PROVE  LET id == Minimum(writing)
         IN  /\ mpc = "write"
             /\ id \in writing /\ id \in Nat
             /\ \A w \in writing : w = id \/ id < w
             /\ id > lastWritten /\ id < pending.start
             /\ lastWritten' = id
             /\ log' = Append(log, id)
             /\ writing' = writing \ {id}
             /\ mpc' = IF writing' = {} THEN "sync" ELSE "write"
             /\ UNCHANGED <<pc, batch, replies>>
             /\ UNCHANGED <<stateVars, trees, txid, channel, mstate, pending, synced,
                            published, acked, crashes>>
<1>1. writing # {} /\ writing \subseteq Nat /\ lastWritten \in Nat /\ mpc = "write"
  BY IdTypes DEF IInv, BatchInv, WriteEntry
<1>2. /\ Minimum(writing) \in writing
      /\ \A w \in writing : Minimum(writing) <= w
  BY <1>1, MinimumFact
<1>3. Minimum(writing) > lastWritten /\ Minimum(writing) < pending.start
  BY <1>1, <1>2 DEF IInv, BatchInv
<1>4. ASSUME NEW w \in writing PROVE w = Minimum(writing) \/ Minimum(writing) < w
  <2>1. w \in Nat /\ Minimum(writing) \in Nat /\ Minimum(writing) <= w
    BY <1>1, <1>2
  <2> QED
    BY <2>1
<1> QED
  BY <1>1, <1>2, <1>3, <1>4 DEF WriteEntry

LEMMA WriteEntryIInv ==
  ASSUME IInv, WriteEntry
  PROVE  IInv'
<1> DEFINE id == Minimum(writing)
<1>1. /\ mpc = "write"
      /\ id \in writing /\ id \in Nat
      /\ \A w \in writing : w = id \/ id < w
      /\ id > lastWritten /\ id < pending.start
      /\ lastWritten' = id
      /\ log' = Append(log, id)
      /\ writing' = writing \ {id}
      /\ mpc' = IF writing' = {} THEN "sync" ELSE "write"
      /\ UNCHANGED <<pc, batch, replies>>
      /\ UNCHANGED <<stateVars, trees, txid, channel, mstate, pending, synced,
                     published, acked, crashes>>
  BY WriteEntryFact
<1> HIDE DEF id
<1>2. /\ log \in Seq(Ids) /\ id \in Ids /\ lastWritten \in Nat /\ Len(log) \in Nat
      /\ \A i \in 1 .. Len(log) : log[i] \in Nat
  BY <1>1, IdTypes DEF IInv, TypeOK
<1>3. /\ log' \in Seq(Ids) /\ Len(log') = Len(log) + 1
      /\ \A i \in 1 .. Len(log) : log'[i] = log[i]
      /\ log'[Len(log) + 1] = id
  <2>1. log' = Append(log, id)
    BY <1>1
  <2> QED
    BY <1>2, <2>1, SendType
<1>4. TypeOK'
  <2>1. lastWritten' \in Ids \cup {0} /\ writing' \subseteq Ids /\ mpc' \in {"write", "sync"}
    BY <1>1, <1>2 DEF IInv, TypeOK
  <2>2. synced' \in 0 .. Len(log')
    <3>1. synced' = synced /\ synced \in 0 .. Len(log)
      BY <1>1 DEF IInv, TypeOK
    <3> QED
      BY <1>2, <1>3, <3>1
  <2> QED
    BY <1>1, <1>3, <2>1, <2>2 DEF IInv, TypeOK, stateVars
<1>5. IdsInv'
  BY <1>1, AnswersIdsInv DEF IInv
<1>6. BatchInv'
  BY <1>1, <1>2 DEF IInv, BatchInv
<1>7. ASSUME NEW i \in 1 .. Len(log')
      PROVE  \/ i = Len(log) + 1 /\ log'[i] = id
             \/ i \in 1 .. Len(log) /\ log'[i] = log[i] /\ log'[i] < id
  <2>1. i = Len(log) + 1 \/ i \in 1 .. Len(log)
    BY <1>2, <1>3
  <2>2. \A j \in 1 .. Len(log) : log[j] < id
    BY <1>1, <1>2 DEF IInv, LogInv
  <2> QED
    BY <1>3, <2>1, <2>2
<1>8. LogInv'
  <2>1. \A i \in 1 .. Len(log') : log'[i] <= lastWritten'
    BY <1>1, <1>2, <1>7
  <2>2. ASSUME NEW i \in 1 .. Len(log'), NEW j \in 1 .. Len(log'), i < j
        PROVE  log'[i] < log'[j]
    <3>1. i \in 1 .. Len(log) /\ log'[i] = log[i] /\ log'[i] < id
      BY <1>2, <1>3, <1>7, <2>2
    <3>2. CASE j \in 1 .. Len(log) /\ log'[j] = log[j]
      BY <2>2, <3>1, <3>2 DEF IInv, LogInv, LogAscending
    <3> QED
      BY <1>7, <3>1, <3>2
  <2> QED
    BY <2>1, <2>2 DEF LogInv, LogAscending
<1> QED
  BY <1>4, <1>5, <1>6, <1>8 DEF IInv

LEMMA AnswersIInv ==
  ASSUME IInv, Synchronize \/ NoteCompleted \/ \E c \in replies : SendCompletion(c)
  PROVE  IInv'
<1>1. CASE Synchronize
  <2>1. TypeOK'
    <3>1. log' = log /\ synced' \in 0 .. Len(log')
      <4>1. log' = log /\ synced' = Len(log)
        BY <1>1 DEF Synchronize
      <4>2. Len(log) \in Nat
        BY IdTypes DEF IInv
      <4> QED
        BY <4>1, <4>2
    <3> QED
      BY <1>1, <3>1 DEF IInv, TypeOK, Synchronize, stateVars, threadVars
  <2> QED
    BY <1>1, <2>1, AnswersIdsInv
    DEF IInv, BatchInv, LogInv, LogAscending, Synchronize, stateVars, threadVars
<1>2. CASE NoteCompleted
  <2>1. TypeOK'
    BY <1>2 DEF IInv, TypeOK, NoteCompleted, stateVars, threadVars, logVars
  <2> QED
    BY <1>2, <2>1, AnswersIdsInv
    DEF IInv, BatchInv, LogInv, LogAscending, NoteCompleted, stateVars, threadVars, logVars
<1>3. ASSUME NEW c \in replies, SendCompletion(c) PROVE IInv'
  <2>1. c.id \in Ids /\ c.thread \in Threads
    BY DEF IInv, TypeOK, Committer
  <2>2. TypeOK'
    BY <1>3, <2>1 DEF IInv, TypeOK, SendCompletion, stateVars, logVars
  <2>3. \A t \in Threads : pc'[t] = "open" => pc[t] = "open"
    BY <1>3, <2>1 DEF IInv, TypeOK, SendCompletion
  <2>4. IdsInv'
    BY <1>3, <2>3, AnswersIdsInv DEF IInv, SendCompletion
  <2>5. BatchInv' /\ LogInv'
    BY <1>3 DEF IInv, BatchInv, LogInv, LogAscending, SendCompletion, logVars
  <2> QED
    BY <2>2, <2>4, <2>5 DEF IInv
<1> QED
  BY <1>1, <1>2, <1>3

\* A crash: the window starts after the last entry that is left.
LEMMA CrashIInv ==
  ASSUME IInv, Crash
  PROVE  IInv'
<1>1. PICK kept \in synced .. Len(log) :
        /\ log' = SubSeq(log, 1, kept)
        /\ synced' = kept
        /\ lastWritten' = LastId(kept)
        /\ nextId' = LastId(kept) + 1
        /\ pending' = NewSequence(LastId(kept) + 1)
  BY DEF Crash
<1> DEFINE last == LastId(kept)
<1>2. log \in Seq(Ids) /\ Len(log) \in Nat /\ kept \in 0 .. Len(log) /\ MaxId \in Nat
  <2>1. log \in Seq(Ids) /\ synced \in 0 .. Len(log)
    BY DEF IInv, TypeOK
  <2>2. Len(log) \in Nat
    BY <2>1
  <2> QED
    BY <2>1, <2>2, ConstantsAssumption
<1>3. /\ log' \in Seq(Ids) /\ Len(log') = kept
      /\ \A i \in 1 .. kept : log'[i] = log[i]
  BY <1>1, <1>2
<1>4. last \in 0 .. MaxId /\ (last \in Ids \/ last = 0)
  BY <1>2 DEF Ids, LastId
<1>5. /\ pending' = [start |-> last + 1, length |-> 0, words |-> 0, bits |-> {}]
      /\ lastWritten' = last /\ nextId' = last + 1 /\ synced' = kept
  BY <1>1 DEF NewSequence
<1>6. ASSUME NEW i \in 1 .. kept PROVE log[i] \in Nat /\ log[i] <= last
  <2>1. i \in 1 .. Len(log) /\ kept \in 1 .. Len(log) /\ last = log[kept]
    BY <1>2 DEF LastId
  <2>2. log[i] \in Nat /\ log[kept] \in Nat
    BY <2>1, IdTypes DEF IInv
  <2>3. i < kept => log[i] < log[kept]
    BY <2>1 DEF IInv, LogInv, LogAscending
  <2> QED
    BY <1>2, <2>1, <2>2, <2>3
<1> HIDE DEF last
<1>7. TypeOK'
  <2>0. last \in Nat /\ last + 1 \in Nat
    BY <1>2, <1>4
  <2>1. pending' \in Sequence
    <3> DEFINE first == last + 1
    <3>1. first \in Nat /\ pending' = [start |-> first, length |-> 0, words |-> 0, bits |-> {}]
      BY <1>5, <2>0
    <3> HIDE DEF first
    <3>2. 0 \in Nat /\ 0 \in Int /\ {} \in SUBSET Nat
      OBVIOUS
    <3> QED
      BY ONLY <3>1, <3>2, Zenon DEF Sequence
  <2>2. nextId' \in 1 .. (MaxId + 1) /\ lastWritten' \in Ids \cup {0}
    <3>1. nextId' = last + 1 /\ lastWritten' = last
      BY <1>5
    <3>2. MaxId \in Nat /\ last \in 0 .. MaxId
      BY <1>2, <1>4
    <3> QED
      BY <1>4, <3>1, <3>2
  <2>3. synced' \in 0 .. Len(log') /\ log' \in Seq(Ids)
    <3>1. kept \in Nat
      BY <1>2
    <3>2. synced' = kept /\ Len(log') = kept
      BY <1>3, <1>5
    <3> QED
      BY <1>3, <3>1, <3>2
  <2>4. crashes' \in 0 .. MaxCrashes
    <3>1. crashes \in 0 .. MaxCrashes /\ crashes < MaxCrashes /\ crashes' = crashes + 1
      BY DEF IInv, TypeOK, Crash
    <3> QED
      BY <3>1, ConstantsAssumption
  <2>6. mutex' \in Threads \cup {NoThread} /\ owner' \in [Trees -> Threads \cup {NoThread}]
    BY DEF Crash
  <2>5. /\ trees' \in [Threads -> SUBSET Trees] /\ txid' \in [Threads -> Ids \cup {0}]
        /\ channel' \in Seq(Command) /\ published' \in [Trees -> Ids \cup {0}]
    <3>1. /\ trees' = [t \in Threads |-> {}] /\ txid' = [t \in Threads |-> 0]
          /\ channel' = <<>> /\ published' = [x \in Trees |-> 0]
      BY DEF Crash
    <3> QED
      BY <3>1
  <2> QED
    BY <2>1, <2>2, <2>3, <2>4, <2>5, <2>6 DEF IInv, TypeOK, Crash
<1>8. IdsInv'
  <2>1. last \in Nat
    BY <1>2, <1>4
  <2>2. WellFormed(pending') /\ pending'.start + pending'.length <= nextId'
    BY <1>5, <2>1 DEF WellFormed
  <2>3. Len(channel') = 0 /\ \A t \in Threads : pc'[t] # "open"
    BY DEF Crash
  <2>4. \A i \in 1 .. Len(channel') : FALSE
    BY <2>3
  <2> QED
    BY <2>2, <2>3, <2>4 DEF IdsInv
<1>9. BatchInv'
  <2>1. last \in Nat
    BY <1>2, <1>4
  <2>2. lastWritten' < pending'.start
    BY <1>5, <2>1
  <2>3. batch' = {} /\ writing' = {} /\ mpc' = "command" /\ mstate' = "Fresh"
    BY DEF Crash
  <2> QED
    BY <2>2, <2>3 DEF BatchInv
<1>10. LogInv'
  <2>1. \A i \in 1 .. Len(log') : log'[i] <= lastWritten'
    BY <1>3, <1>5, <1>6
  <2>2. \A i, j \in 1 .. kept : i < j => log[i] < log[j]
    BY <1>2 DEF IInv, LogInv, LogAscending
  <2>3. LogAscending'
    BY <1>3, <2>2 DEF LogAscending
  <2> QED
    BY <2>1, <2>3 DEF LogInv
<1> QED
  BY <1>7, <1>8, <1>9, <1>10 DEF IInv

-----------------------------------------------------------------------------
LEMMA NextIInv == IInv /\ [Next]_vars => IInv'
<1> SUFFICES ASSUME IInv, [Next]_vars PROVE IInv'
  OBVIOUS
<1>1. ASSUME NEW t \in Threads, ThreadStep(t) PROVE IInv'
  BY <1>1, ThreadStepIInv
<1>2. CASE ManagerStep
  <2>1. CASE ProcessCommand
    BY <2>1, ProcessCommandIInv
  <2>2. CASE WriteEntry
    BY <2>2, WriteEntryIInv
  <2>3. CASE Synchronize \/ NoteCompleted \/ \E c \in replies : SendCompletion(c)
    BY <2>3, AnswersIInv
  <2> QED
    BY <1>2, <2>1, <2>2, <2>3 DEF ManagerStep, ProcessCommand
<1>3. CASE LogFails
  BY <1>3, StopManagerIInv DEF LogFails
<1>4. CASE Crash
  BY <1>4, CrashIInv
<1>5. CASE UNCHANGED vars
  <2>1. TypeOK'
    BY <1>5 DEF vars, stateVars, threadVars, managerVars, logVars, IInv, TypeOK
  <2>2. IdsInv'
    BY <1>5, AnswersIdsInv DEF vars, stateVars, threadVars, managerVars, IInv
  <2>3. BatchInv' /\ LogInv'
    BY <1>5 DEF vars, managerVars, logVars, IInv, BatchInv, LogInv, LogAscending
  <2> QED
    BY <2>1, <2>2, <2>3 DEF IInv
<1> QED
  BY <1>1, <1>2, <1>3, <1>4, <1>5 DEF Next

(***************************************************************************)
(* The type invariant, the order of the log against the transactions still *)
(* running, the unwraps of the manager thread and the order of the file,   *)
(* all from IInv.                                                          *)
(***************************************************************************)
THEOREM Inductive == Spec => []IInv
BY InitIInv, NextIInv, PTL DEF Spec

\* Every variable keeps its type, in every reachable state.
THEOREM TypeCorrect == Spec => []TypeOK
<1>1. IInv => TypeOK
  BY DEF IInv
<1> QED
  BY <1>1, Inductive, PTL

\* The manager thread writes nothing that a smaller id could still precede:
\* the commands may reach it in any order, the log is in id order.
THEOREM Ordering == Spec => []CommitsInOrder
<1>1. IInv => CommitsInOrder
  <2> SUFFICES ASSUME IInv, NEW id \in Outstanding
               PROVE  /\ \A i \in 1 .. Len(log) : log[i] < id
                      /\ \A w \in writing : w < id
    BY DEF CommitsInOrder
  <2>1. id \in Nat /\ ~ IsNoted(pending, id)
    BY IdTypes DEF Outstanding, IInv, IdsInv
  <2>2. id >= pending.start
    BY <2>1, NotedFact DEF IInv, IdsInv
  <2>3. pending.start \in Nat /\ lastWritten \in Nat /\ lastWritten < pending.start
    BY IdTypes DEF IInv, BatchInv
  <2>4. \A i \in 1 .. Len(log) : log[i] \in Nat /\ log[i] <= lastWritten
    BY IdTypes DEF IInv, LogInv
  <2>5. \A w \in writing : w \in Nat /\ w < pending.start
    BY IdTypes DEF IInv, BatchInv
  <2> QED
    BY <2>1, <2>2, <2>3, <2>4, <2>5
<1> QED
  BY <1>1, Inductive, PTL

\* None of the unwraps of the manager thread can fail, except on an I/O error.
THEOREM NoPanic == Spec => []ManagerNeverPanics
<1>1. IInv => ManagerNeverPanics
  <2> SUFFICES ASSUME IInv PROVE ManagerNeverPanics
    OBVIOUS
  <2>1. \A i \in 1 .. Len(channel) : channel[i].id >= pending.start
    BY IdTypes, NotedFact DEF IInv, IdsInv
  <2>2. \A w \in writing : w > lastWritten
    BY IdTypes DEF IInv, BatchInv
  <2> QED
    BY <2>1, <2>2 DEF IInv, BatchInv, ManagerNeverPanics
<1> QED
  BY <1>1, Inductive, PTL

\* The log file is strictly ascending, through every crash and restart.
THEOREM AscendingLog == Spec => []LogAscending
<1>1. IInv => LogAscending
  BY DEF IInv, LogInv
<1> QED
  BY <1>1, Inductive, PTL
=============================================================================
