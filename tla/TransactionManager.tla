-------------------------- MODULE TransactionManager --------------------------
(***************************************************************************)
(* The transaction manager of nebari: transaction/manager.rs, the shared   *)
(* state of transaction/state.rs and LogWriter of transaction/log.rs.      *)
(*                                                                         *)
(* Threads lock trees, take an id, and either commit (send Commit to the   *)
(* manager thread and block until it answers) or roll back (send Drop).    *)
(* The manager thread writes commits to the log in id order, whatever the  *)
(* order they arrive in, and so has to know of every id below.             *)
(*                                                                         *)
(* Simplifications:                                                        *)
(*  - a TreeLock is taken in one step (module TreeLock has its steps);     *)
(*  - a log entry is written in one step and a crash keeps a prefix of the *)
(*    entries that were not synchronized: entries of a single page;        *)
(*  - transaction_batch and completion_senders, always pushed together,    *)
(*    are one set of [id, thread];                                         *)
(*  - last_processed_id, which the code never reads, is left out.          *)
(***************************************************************************)
EXTENDS IdSequence, Sequences

CONSTANTS
  Threads,      \* the threads that run transactions
  Trees,        \* the names of the trees, ordered
  Capacity,     \* capacity of the command channel (32 in spawn)
  MaxId,        \* bound: ids handed out
  MaxCrashes    \* bound: crashes of the process

NoThread == "none"

ASSUME ConstantsAssumption ==
  /\ Trees \subseteq Nat
  /\ Capacity \in Nat \ {0}
  /\ MaxId \in Nat
  /\ MaxCrashes \in Nat
  /\ NoThread \notin Threads

VARIABLES
  nextId,      \* state.rs: current_transaction_id
  mutex,       \* the thread that holds the mutex tree_locks, or NoThread
  owner,       \* the thread each TreeLock is held for, or NoThread
  pc,          \* what each thread is doing
  trees,       \* the trees of each thread's transaction
  txid,        \* the id of each thread's transaction
  channel,     \* the commands sent to the manager thread
  mstate,      \* ManagerThread.state
  pending,     \* ManagerThread.pending_transaction_ids
  batch,       \* transaction_batch and completion_senders
  mpc,         \* where the manager thread is in commit_transaction_batch
  writing,     \* the ids of the batch that LogWriter has still to write
  replies,     \* the committers of the batch being written, to be answered
  lastWritten, \* LogPosition.last_written_transaction
  log,         \* the ids in the log file, in file order
  synced,      \* how many entries of the log are known to be on disk
  published,   \* the id of the transaction last published in each tree
  acked,       \* history: the ids whose commit() returned Ok
  crashes      \* number of crashes so far

stateVars   == <<nextId, mutex, owner>>
threadVars  == <<pc, trees, txid>>
managerVars == <<mstate, pending, batch, mpc, writing, replies>>
logVars     == <<lastWritten, log, synced>>
vars == <<stateVars, threadVars, channel, managerVars, logVars, published, acked, crashes>>

Ids == 1 .. MaxId

Command == [kind : {"Commit", "Drop"}, id : Ids, thread : Threads]

Committer == [id : Ids, thread : Threads]

Sequence == [start : Nat, length : Nat, words : Int, bits : SUBSET Nat]

Minimum(S) == CHOOSE n \in S : \A m \in S : n <= m

-----------------------------------------------------------------------------
(***************************************************************************)
(* Roots::open on an empty directory: the log is missing, so               *)
(* initialize_state sets the last id to 0 and the next one to 1.           *)
(***************************************************************************)
Init ==
  /\ nextId = 1
  /\ mutex = NoThread
  /\ owner = [x \in Trees |-> NoThread]
  /\ pc = [t \in Threads |-> "idle"]
  /\ trees = [t \in Threads |-> {}]
  /\ txid = [t \in Threads |-> 0]
  /\ channel = <<>>
  /\ mstate = "Fresh"
  /\ pending = NewSequence(1)
  /\ batch = {}
  /\ mpc = "command"
  /\ writing = {}
  /\ replies = {}
  /\ lastWritten = 0
  /\ log = <<>>
  /\ synced = 0
  /\ published = [x \in Trees |-> 0]
  /\ acked = {}
  /\ crashes = 0

-----------------------------------------------------------------------------
\* Threads: beginning a transaction.

\* fetch_tree_locks takes the mutex tree_locks, and keeps it while it waits
\* for the trees' own locks.
NewTransaction(t, requested) ==
  /\ pc[t] = "idle"
  /\ mutex = NoThread
  /\ mutex' = t
  /\ trees' = [trees EXCEPT ![t] = requested]
  /\ pc' = [pc EXCEPT ![t] = "locking"]
  /\ UNCHANGED <<nextId, owner, txid, channel, managerVars, logVars, published, acked, crashes>>

Unlocked(t) == {x \in trees[t] : owner[x] # t}

\* Mutant: lock() returns although another thread has the tree.
LockTreeWithoutWaiting(t) ==
  /\ pc[t] = "locking"
  /\ Unlocked(t) # {}
  /\ owner' = [owner EXCEPT ![Minimum(Unlocked(t))] = t]
  /\ UNCHANGED <<nextId, mutex, threadVars, channel, managerVars, logVars, published, acked, crashes>>

\* One round of the loop of fetch_tree_locks, over the trees in order.
LockTree(t) ==
  /\ pc[t] = "locking"
  /\ Unlocked(t) # {}
  /\ LET x == Minimum(Unlocked(t))
     IN  /\ owner[x] = NoThread
         /\ owner' = [owner EXCEPT ![x] = t]
  /\ UNCHANGED <<nextId, mutex, threadVars, channel, managerVars, logVars, published, acked, crashes>>

\* fetch_tree_locks returns and releases the mutex.
TreesLocked(t) ==
  /\ pc[t] = "locking"
  /\ Unlocked(t) = {}
  /\ mutex' = NoThread
  /\ pc' = [pc EXCEPT ![t] = "locked"]
  /\ UNCHANGED <<nextId, owner, trees, txid, channel, managerVars, logVars, published, acked, crashes>>

\* new_transaction: fetch_add on current_transaction_id.
AllocateId(t) ==
  /\ pc[t] = "locked"
  /\ nextId \in Ids
  /\ txid' = [txid EXCEPT ![t] = nextId]
  /\ nextId' = nextId + 1
  /\ pc' = [pc EXCEPT ![t] = "open"]
  /\ UNCHANGED <<mutex, owner, trees, channel, managerVars, logVars, published, acked, crashes>>

-----------------------------------------------------------------------------
\* Threads: ending a transaction.

\* ManagedTransaction::commit and push: blocked while the channel is full.
Commit(t) ==
  /\ pc[t] = "open"
  /\ mpc # "stopped"
  /\ Len(channel) < Capacity
  /\ channel' = Append(channel, [kind |-> "Commit", id |-> txid[t], thread |-> t])
  /\ pc' = [pc EXCEPT ![t] = "waiting"]
  /\ UNCHANGED <<stateVars, trees, txid, managerVars, logVars, published, acked, crashes>>

\* push: the manager thread is gone, send() fails and drops the handle.
CommitFails(t) ==
  /\ pc[t] = "open"
  /\ mpc = "stopped"
  /\ pc' = [pc EXCEPT ![t] = "releasing"]
  /\ UNCHANGED <<stateVars, trees, txid, channel, managerVars, logVars, published, acked, crashes>>

\* Mutant: the manager thread is not told.
RollbackInSilence(t) ==
  /\ pc[t] = "open"
  /\ pc' = [pc EXCEPT ![t] = "releasing"]
  /\ UNCHANGED <<stateVars, trees, txid, channel, managerVars, logVars, published, acked, crashes>>

\* Drop for ManagedTransaction: the id is sent first, then the handle goes out
\* of scope with its locks.  A failure to send is ignored.
Rollback(t) ==
  /\ pc[t] = "open"
  /\ \/ mpc = "stopped" /\ UNCHANGED channel
     \/ /\ mpc # "stopped"
        /\ Len(channel) < Capacity
        /\ channel' = Append(channel, [kind |-> "Drop", id |-> txid[t], thread |-> t])
  /\ pc' = [pc EXCEPT ![t] = "releasing"]
  /\ UNCHANGED <<stateVars, trees, txid, managerVars, logVars, published, acked, crashes>>

\* Mutant: the trees are published before push returned.
PublishTreeBeforePush(t, x) ==
  /\ pc[t] \in {"waiting", "committed"}
  /\ x \in trees[t]
  /\ published[x] # txid[t]
  /\ published' = [published EXCEPT ![x] = txid[t]]
  /\ UNCHANGED <<stateVars, threadVars, channel, managerVars, logVars, acked, crashes>>

\* ExecutingTransaction::commit, after push returned: one tree is published.
PublishTree(t, x) ==
  /\ pc[t] = "committed"
  /\ x \in trees[t]
  /\ published[x] # txid[t]
  /\ published' = [published EXCEPT ![x] = txid[t]]
  /\ UNCHANGED <<stateVars, threadVars, channel, managerVars, logVars, acked, crashes>>

\* ... and once all are, drop(tree_locks).
TreesPublished(t) ==
  /\ pc[t] = "committed"
  /\ \A x \in trees[t] : published[x] = txid[t]
  /\ pc' = [pc EXCEPT ![t] = "releasing"]
  /\ UNCHANGED <<stateVars, trees, txid, channel, managerVars, logVars, published, acked, crashes>>

\* Mutant: the locks are dropped while the trees are being published.
ReleaseLockEarly(t, x) ==
  /\ pc[t] \in {"committed", "releasing"}
  /\ owner[x] = t
  /\ owner' = [owner EXCEPT ![x] = NoThread]
  /\ UNCHANGED <<nextId, mutex, threadVars, channel, managerVars, logVars, published, acked, crashes>>

\* One TreeLockHandle of a TreeLocks value is dropped.
ReleaseLock(t, x) ==
  /\ pc[t] = "releasing"
  /\ owner[x] = t
  /\ owner' = [owner EXCEPT ![x] = NoThread]
  /\ UNCHANGED <<nextId, mutex, threadVars, channel, managerVars, logVars, published, acked, crashes>>

\* Mutant: a handle is forgotten with its lock taken.
LocksForgotten(t) ==
  /\ pc[t] = "releasing"
  /\ pc' = [pc EXCEPT ![t] = "idle"]
  /\ trees' = [trees EXCEPT ![t] = {}]
  /\ txid' = [txid EXCEPT ![t] = 0]
  /\ UNCHANGED <<stateVars, channel, managerVars, logVars, published, acked, crashes>>

LocksReleased(t) ==
  /\ pc[t] = "releasing"
  /\ \A x \in Trees : owner[x] # t
  /\ pc' = [pc EXCEPT ![t] = "idle"]
  /\ trees' = [trees EXCEPT ![t] = {}]
  /\ txid' = [txid EXCEPT ![t] = 0]
  /\ UNCHANGED <<stateVars, channel, managerVars, logVars, published, acked, crashes>>

-----------------------------------------------------------------------------
\* The manager thread: one command.

\* The manager thread takes the next command of the channel.
Receive(state, kind) ==
  /\ mpc = "command"
  /\ mstate = state
  /\ channel # <<>>
  /\ Head(channel).kind = kind
  /\ channel' = Tail(channel)
  /\ UNCHANGED <<stateVars, threadVars, logVars, published, acked, crashes>>

Received == [id |-> Head(channel).id, thread |-> Head(channel).thread]

(***************************************************************************)
(* commit_transaction_batch, up to the call of log.push: the batch is      *)
(* swapped out to be written and answered.  The rest of the handler, which *)
(* runs after the answers, touches only the manager's own variables: the   *)
(* state and the batch it leaves are given here.                           *)
(***************************************************************************)
CommitTransactionBatch(committers, stateAfter, batchAfter) ==
  /\ writing' = {c.id : c \in committers}
  /\ replies' = committers
  /\ mpc' = "write"
  /\ mstate' = stateAfter
  /\ batch' = batchAfter

KeepBatch(committers, stateAfter) ==
  /\ batch' = committers
  /\ mstate' = stateAfter
  /\ UNCHANGED <<mpc, writing, replies>>

\* Mutant: nothing is committed when the last gap is filled.
MarkWithoutCommitting(id, committers) ==
  /\ pending' = Note(pending, id)
  /\ KeepBatch(committers, mstate)

\* mark_transaction_handled, with the batch as it is when it is called.
MarkTransactionHandled(id, committers) ==
  /\ pending' = Note(pending, id)
  /\ IF Complete(pending') /\ committers # {}
     THEN CommitTransactionBatch(committers, "Fresh", {})
     ELSE KeepBatch(committers, mstate)

\* Mutant: a new batch is begun without asking complete().
FreshCommitUnordered ==
  /\ Receive("Fresh", "Commit")
  /\ pending' = Note(pending, Received.id)
  /\ KeepBatch(batch \cup {Received}, "Batching")

\* process_next_command_fresh
FreshCommit ==
  /\ Receive("Fresh", "Commit")
  /\ pending' = Note(pending, Received.id)
  /\ KeepBatch(batch \cup {Received},
               IF Complete(pending') THEN "Batching" ELSE "EnsuringSequence")

FreshDrop ==
  /\ Receive("Fresh", "Drop")
  /\ MarkTransactionHandled(Received.id, batch)

\* Mutant: the commit is pushed before the batch that must not hold it is written.
PushBeforeNote(id, added) ==
  /\ pending' = Note(pending, id)
  /\ IF Complete(pending')
     THEN KeepBatch(batch \cup added, "Batching")
     ELSE CommitTransactionBatch(batch \cup added, "EnsuringSequence", {})

\* note_potentially_sequntial_id, followed by the push of `added`.
NotePotentiallySequentialId(id, added) ==
  /\ pending' = Note(pending, id)
  /\ IF Complete(pending')
     THEN KeepBatch(batch \cup added, "Batching")
     ELSE IF batch # {}
          THEN CommitTransactionBatch(batch, "EnsuringSequence", added)
          ELSE KeepBatch(added, "EnsuringSequence")

\* process_next_command_batching
BatchingCommit ==
  /\ Receive("Batching", "Commit")
  /\ NotePotentiallySequentialId(Received.id, {Received})

BatchingDrop ==
  /\ Receive("Batching", "Drop")
  /\ NotePotentiallySequentialId(Received.id, {})

\* try_recv finds the channel empty.
BatchingEmpty ==
  /\ mpc = "command"
  /\ mstate = "Batching"
  /\ channel = <<>>
  /\ CommitTransactionBatch(batch, "Fresh", {})
  /\ UNCHANGED <<stateVars, threadVars, channel, pending, logVars, published, acked, crashes>>

\* process_next_command_ensuring_sequence
EnsuringSequenceCommit ==
  /\ Receive("EnsuringSequence", "Commit")
  /\ MarkTransactionHandled(Received.id, batch \cup {Received})

\* Mutant: a Drop is put into the batch as a Commit is.
EnsuringSequenceDropBatched ==
  /\ Receive("EnsuringSequence", "Drop")
  /\ MarkTransactionHandled(Received.id, batch \cup {Received})

EnsuringSequenceDrop ==
  /\ Receive("EnsuringSequence", "Drop")
  /\ MarkTransactionHandled(Received.id, batch)

-----------------------------------------------------------------------------
\* The manager thread: LogWriter and the answers.

(***************************************************************************)
(* commit_transaction_batch unwraps the result of log.push: on an error    *)
(* the thread panics and drops the senders and the locks of its batch.     *)
(* Their threads see TransactionManagerStopped.                            *)
(***************************************************************************)
StopManager ==
  /\ mpc' = "stopped"
  /\ pc' = [t \in Threads |-> IF \E c \in replies \cup batch : c.thread = t
                              THEN "releasing" ELSE pc[t]]
  /\ batch' = {}
  /\ writing' = {}
  /\ replies' = {}

\* Mutant: the batch is written in the order the commits arrived.
WriteEntryUnsorted ==
  /\ mpc = "write"
  /\ \E id \in writing :
       IF id > lastWritten
       THEN /\ lastWritten' = id
            /\ log' = Append(log, id)
            /\ writing' = writing \ {id}
            /\ mpc' = IF writing' = {} THEN "sync" ELSE "write"
            /\ UNCHANGED <<pc, batch, replies>>
       ELSE StopManager /\ UNCHANGED <<lastWritten, log>>
  /\ UNCHANGED <<stateVars, trees, txid, channel, mstate, pending, synced, published, acked, crashes>>

\* One round of LogWriter's loop.  The batch was sorted: smallest id first.
WriteEntry ==
  /\ mpc = "write"
  /\ LET id == Minimum(writing)
     IN  IF id > lastWritten
         THEN /\ lastWritten' = id
              /\ log' = Append(log, id)
              /\ writing' = writing \ {id}
              /\ mpc' = IF writing' = {} THEN "sync" ELSE "write"
              /\ UNCHANGED <<pc, batch, replies>>
         ELSE StopManager /\ UNCHANGED <<lastWritten, log>>
  /\ UNCHANGED <<stateVars, trees, txid, channel, mstate, pending, synced, published, acked, crashes>>

\* Mutant: the file is not synchronized.
SynchronizeNothing ==
  /\ mpc = "sync"
  /\ mpc' = "note"
  /\ UNCHANGED <<stateVars, threadVars, channel, mstate, pending, batch, writing, replies,
                 logVars, published, acked, crashes>>

\* log.synchronize(), after the lock on the log position was dropped.
Synchronize ==
  /\ mpc = "sync"
  /\ synced' = Len(log)
  /\ mpc' = "note"
  /\ UNCHANGED <<stateVars, threadVars, channel, mstate, pending, batch, writing, replies,
                 lastWritten, log, published, acked, crashes>>

\* note_transaction_ids_completed; the cache is in module LogSearch.
NoteCompleted ==
  /\ mpc = "note"
  /\ mpc' = "reply"
  /\ UNCHANGED <<stateVars, threadVars, channel, mstate, pending, batch, writing, replies,
                 logVars, published, acked, crashes>>

\* One round of the loop over completion_senders: push() returns the locks.
SendCompletion(c) ==
  /\ mpc = "reply"
  /\ c \in replies
  /\ pc' = [pc EXCEPT ![c.thread] = "committed"]
  /\ acked' = acked \cup {c.id}
  /\ replies' = replies \ {c}
  /\ mpc' = IF replies' = {} THEN "command" ELSE "reply"
  /\ UNCHANGED <<stateVars, trees, txid, channel, mstate, pending, batch, writing, logVars,
                 published, crashes>>

\* An I/O error in write_all or synchronize.
LogFails ==
  /\ mpc \in {"write", "sync"}
  /\ StopManager
  /\ UNCHANGED <<stateVars, trees, txid, channel, mstate, pending, logVars, published, acked, crashes>>

(***************************************************************************)
(* A thread whose Commit is still in the channel when the manager thread   *)
(* is gone may see its completion sender dropped with the channel's        *)
(* contents.  When the channel library drops them is not modelled: this    *)
(* may happen at any time, or never.                                       *)
(***************************************************************************)
ChannelDropped(t) ==
  /\ mpc = "stopped"
  /\ pc[t] = "waiting"
  /\ pc' = [pc EXCEPT ![t] = "releasing"]
  /\ UNCHANGED <<stateVars, trees, txid, channel, managerVars, logVars, published, acked, crashes>>

-----------------------------------------------------------------------------
\* Mutant: the entries already in the log are not looked at.
LastIdIgnored(kept) == 0

\* StateInitializer: the id of the last entry, 0 for a log without entries.
LastId(kept) == IF kept = 0 THEN 0 ELSE log[kept]

(***************************************************************************)
(* The process dies and the database is opened again.  The log keeps what  *)
(* was synchronized and any prefix of the rest; StateInitializer reads the *)
(* last entry and State::initialize continues from its id.  The trees come *)
(* back in the last state their log entries vouch for (not modelled here). *)
(***************************************************************************)
Crash ==
  /\ crashes < MaxCrashes
  /\ crashes' = crashes + 1
  /\ \E kept \in synced .. Len(log) :
       /\ log' = SubSeq(log, 1, kept)
       /\ synced' = kept
       /\ lastWritten' = LastId(kept)
       /\ nextId' = LastId(kept) + 1
       /\ pending' = NewSequence(LastId(kept) + 1)
  /\ mutex' = NoThread
  /\ owner' = [x \in Trees |-> NoThread]
  /\ pc' = [t \in Threads |-> "idle"]
  /\ trees' = [t \in Threads |-> {}]
  /\ txid' = [t \in Threads |-> 0]
  /\ channel' = <<>>
  /\ mstate' = "Fresh"
  /\ batch' = {}
  /\ mpc' = "command"
  /\ writing' = {}
  /\ replies' = {}
  /\ published' = [x \in Trees |-> 0]
  /\ UNCHANGED acked

-----------------------------------------------------------------------------
ThreadStep(t) ==
  \/ \E requested \in SUBSET Trees : NewTransaction(t, requested)
  \/ LockTree(t)
  \/ TreesLocked(t)
  \/ AllocateId(t)
  \/ Commit(t)
  \/ CommitFails(t)
  \/ Rollback(t)
  \/ \E x \in Trees : PublishTree(t, x)
  \/ TreesPublished(t)
  \/ \E x \in Trees : ReleaseLock(t, x)
  \/ LocksReleased(t)
  \/ ChannelDropped(t)

ManagerStep ==
  \/ FreshCommit
  \/ FreshDrop
  \/ BatchingCommit
  \/ BatchingDrop
  \/ BatchingEmpty
  \/ EnsuringSequenceCommit
  \/ EnsuringSequenceDrop
  \/ WriteEntry
  \/ Synchronize
  \/ NoteCompleted
  \/ \E c \in replies : SendCompletion(c)

Next ==
  \/ \E t \in Threads : ThreadStep(t)
  \/ ManagerStep
  \/ LogFails
  \/ Crash

Spec == Init /\ [][Next]_vars

(***************************************************************************)
(* The manager thread and the threads that run transactions are scheduled, *)
(* and a program that holds an open transaction ends it.  No program need  *)
(* begin one, no I/O error and no crash need happen.                       *)
(***************************************************************************)
EndTransaction(t) == Commit(t) \/ CommitFails(t) \/ Rollback(t)

KeepGoing(t) ==
  \/ LockTree(t)
  \/ TreesLocked(t)
  \/ AllocateId(t)
  \/ \E x \in Trees : PublishTree(t, x)
  \/ TreesPublished(t)
  \/ \E x \in Trees : ReleaseLock(t, x)
  \/ LocksReleased(t)

Fairness ==
  /\ WF_vars(ManagerStep)
  /\ \A t \in Threads : WF_vars(EndTransaction(t)) /\ WF_vars(KeepGoing(t))

FairSpec == Spec /\ Fairness

-----------------------------------------------------------------------------
TypeOK ==
  /\ nextId \in 1 .. (MaxId + 1)
  /\ mutex \in Threads \cup {NoThread}
  /\ owner \in [Trees -> Threads \cup {NoThread}]
  /\ pc \in [Threads -> {"idle", "locking", "locked", "open", "waiting", "committed", "releasing"}]
  /\ trees \in [Threads -> SUBSET Trees]
  /\ txid \in [Threads -> Ids \cup {0}]
  /\ channel \in Seq(Command)
  /\ mstate \in {"Fresh", "Batching", "EnsuringSequence"}
  /\ pending \in Sequence
  /\ batch \subseteq Committer
  /\ mpc \in {"command", "write", "sync", "note", "reply", "stopped"}
  /\ writing \subseteq Ids
  /\ replies \subseteq Committer
  /\ lastWritten \in Ids \cup {0}
  /\ log \in Seq(Ids)
  /\ synced \in 0 .. Len(log)
  /\ published \in [Trees -> Ids \cup {0}]
  /\ acked \subseteq Ids
  /\ crashes \in 0 .. MaxCrashes

\* The ids handed out that the manager thread has not heard of yet.
Outstanding ==
  {txid[t] : t \in {u \in Threads : pc[u] = "open"}}
    \cup {channel[i].id : i \in 1 .. Len(channel)}

IsDurable(id) == \E i \in 1 .. synced : log[i] = id

(***************************************************************************)
(* A transaction is written to the log only after every transaction with a *)
(* smaller id has been committed or dropped, however their commands arrive *)
(* (manager.rs, the three states of ManagerThread).                        *)
(***************************************************************************)
CommitsInOrder ==
  \A id \in Outstanding :
    /\ \A i \in 1 .. Len(log) : log[i] < id
    /\ \A w \in writing : w < id

(***************************************************************************)
(* The unwraps of the manager thread cannot fail: note() never sees an id  *)
(* below the start of its window, a batch that is committed is not empty,  *)
(* and log.push never answers TransactionPushedOutOfOrder.                 *)
(***************************************************************************)
ManagerNeverPanics ==
  /\ \A i \in 1 .. Len(channel) : channel[i].id >= pending.start
  /\ mpc = "command" /\ mstate = "Batching" => batch # {}
  /\ mpc = "write" => writing # {}
  /\ \A w \in writing : w > lastWritten

\* The file stays strictly ascending, which the search of fetch_entry needs.
LogAscending ==
  \A i, j \in 1 .. Len(log) : i < j => log[i] < log[j]

(***************************************************************************)
(* While the manager thread blocks in EnsuringSequence on commits it has   *)
(* not written, there is an earlier transaction still to be ended or still *)
(* in the channel: it never waits for nobody.                              *)
(***************************************************************************)
BatchWaitsForSomeone ==
  mpc = "command" /\ batch # {} =>
    \/ mstate = "Batching"
    \/ mstate = "EnsuringSequence" /\ \E id \in Outstanding : id < pending.start + pending.length

(***************************************************************************)
(* Once commit() has returned Ok the entry is on disk, and stays there and *)
(* keeps its id through a crash and restart at any point.                  *)
(***************************************************************************)
AckedIsDurable == \A id \in acked : IsDurable(id)

(***************************************************************************)
(* No reader is shown a tree state whose transaction a crash could undo.   *)
(***************************************************************************)
PublishedIsDurable == \A x \in Trees : published[x] # 0 => IsDurable(published[x])

(***************************************************************************)
(* "While this exists, no other transactions can execute across the same   *)
(* trees as this transaction holds" (roots.rs, ExecutingTransaction): from *)
(* the id being allocated to the last tree being published.                *)
(***************************************************************************)
Active(t) == pc[t] \in {"locked", "open", "waiting", "committed"}

TransactionsAreIsolated ==
  \A t, u \in Threads : t # u /\ Active(t) /\ Active(u) => trees[t] \cap trees[u] = {}

(***************************************************************************)
(* An entry is added to the log only while its committer is blocked in     *)
(* push(), with all its trees locked: nothing rolled back is ever logged.  *)
(***************************************************************************)
OnlyWaitingCommitsAreLogged ==
  [][\A i \in (Len(log) + 1) .. Len(log') :
       \E t \in Threads :
         /\ pc[t] = "waiting"
         /\ txid[t] = log'[i]
         /\ \A x \in trees[t] : owner[x] = t]_vars

(***************************************************************************)
(* Each tree is published in the order of the transaction ids, the order   *)
(* of the log: recovery, which follows the log, restores the same state.   *)
(***************************************************************************)
PublishedInIdOrder ==
  [][crashes' = crashes => \A x \in Trees : published'[x] >= published[x]]_vars

(***************************************************************************)
(* The manager implements TransactionHistory.  A transaction is active     *)
(* from the allocation of its id until its entry is in the log, the        *)
(* manager thread has noted its Drop, or the manager thread has panicked   *)
(* with it.  A Commit or Drop left in the channel of a stopped manager     *)
(* thread is never recorded, and stays active until the next open.         *)
(***************************************************************************)
History == INSTANCE TransactionHistory
  WITH next    <- nextId,
       active  <- Outstanding \cup {c.id : c \in batch} \cup writing,
       durable <- synced

ImplementsHistory == History!HistSpec

(***************************************************************************)
(* commit() returns, if the threads with smaller ids end their             *)
(* transactions and the log can be written.                                *)
(***************************************************************************)
CommitReturns ==
  \A t \in Threads : pc[t] = "waiting" ~> (pc[t] # "waiting" \/ mpc = "stopped")

(***************************************************************************)
(* A thread that asks for trees in fetch_tree_locks gets them, although it *)
(* waits with the mutex tree_locks in its hands.  (When the bound on ids   *)
(* is reached a thread may be left holding trees without an id.)           *)
(***************************************************************************)
TreesAreEventuallyLocked ==
  \A t \in Threads :
    pc[t] = "locking" ~> (pc[t] # "locking" \/ mpc = "stopped" \/ nextId > MaxId)
=============================================================================
