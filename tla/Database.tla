------------------------------ MODULE Database ------------------------------
(***************************************************************************)
(* A database of several trees (roots.rs, tree/mod.rs, tree/state.rs,      *)
(* io/mod.rs, io/fs.rs): transactions over sets of trees whose files are   *)
(* saved by a pool of threads, the transaction log that decides which      *)
(* headers are trusted, readers, compaction, crashes, and the recovery of  *)
(* a tree when it is first opened again.                                   *)
(*                                                                         *)
(* What a tree holds is the set of the transactions whose changes are in   *)
(* it; a transaction is the number of its attempt, which is never used     *)
(* again, while its id can be.  A file is named by its inode.  The         *)
(* positions in a root are right in one file only, so a root carries the   *)
(* inode they are for: to read with a handle of another inode is to read   *)
(* whatever is there.                                                      *)
(*                                                                         *)
(* Simplifications.  new_transaction takes its locks in one step (modules  *)
(* TreeLock and TransactionManager), the log is written in one step        *)
(* (TransactionManager) and looked up exactly (LogSearch).  A tree is      *)
(* changed once by a transaction (TreeFile has the changes themselves).    *)
(* File ids are counted for each tree.  The files of the trees exist.  A   *)
(* write that fails leaves the file as it was, or with a complete header;  *)
(* the copy of a compaction does not fail.                                 *)
(***************************************************************************)
EXTENDS Integers, Sequences, FiniteSets

CONSTANTS
    Trees, Writers, Compactors, Readers,    \* trees, and threads by what they do
    None,                                   \* no thread, no tree
    MaxTransactions, MaxCompactions,        \* bounds on what is tried
    Faults, MaxFaults                       \* "failure" of a commit, "crash"

ASSUME DatabaseAssumption ==
    /\ None \notin Trees \cup Writers \cup Compactors
    /\ Writers \cap Compactors = {}
    /\ {MaxTransactions, MaxCompactions, MaxFaults} \subseteq Nat
    /\ Faults \subseteq {"failure", "crash"}

VARIABLES
    log,         \* the transaction log: [id, attempt] in the order of its entries
    nextId,      \* the next transaction id
    attempt,     \* of each attempt begun: [id, trees] with the trees it changed
    lock,        \* the holder of the transaction lock of each tree
    file,        \* the file at the path of each tree: [inode, headers, synced, torn]
    spare,       \* the .compacting file of each tree, by inode (0: none)
    fileId,      \* PathIds: the file id of each path (0: none)
    ready,       \* the state of the tree has been initialized
    writer,      \* State::writer of each tree: [file_id, inode, id, content, dirty]
    reader,      \* State::reader
    tx,          \* the transaction of each writer thread
    pool,        \* the commits of trees under way: [client, attempt, tree, id, saved]
    comp,        \* the compaction of each compactor
    read,        \* the read of each reader thread
    leaky,       \* trees in which a failed commit left its changes
    used         \* what was used of the bounds: [inodes, faults]

vars == <<log, nextId, attempt, lock, file, spare, fileId, ready, writer, reader, tx, pool,
          comp, read, leaky, used>>
managerVars == <<log, nextId, attempt, lock>>
treeVars == <<fileId, ready, writer, reader>>

Committed == {log[i].attempt : i \in DOMAIN log}
Logged(id) == \E i \in DOMAIN log : log[i].id = id

NoHandle == [id |-> 0, inode |-> 0]
Idle == [pc |-> "idle", id |-> 0, attempt |-> 0, trees |-> {}, left |-> {},
         handle |-> [t \in Trees |-> NoHandle]]
NotCompacting == [pc |-> "idle", tree |-> None, id |-> 0, inode |-> 0, new |-> 0]
NotReading == [pc |-> "idle", tree |-> None, handle |-> NoHandle, early |-> FALSE]

EmptyFile == [inode |-> 1, headers |-> <<>>, synced |-> 0, torn |-> FALSE]
NoRoot == [file_id |-> 0, inode |-> 0, id |-> 0, content |-> {}, dirty |-> TRUE]

Init ==
    /\ log = <<>> /\ nextId = 1 /\ attempt = <<>>
    /\ lock = [t \in Trees |-> None]
    /\ file = [t \in Trees |-> EmptyFile]
    /\ spare = [t \in Trees |-> 0]
    /\ fileId = [t \in Trees |-> 0] /\ ready = [t \in Trees |-> FALSE]
    /\ writer = [t \in Trees |-> NoRoot] /\ reader = [t \in Trees |-> NoRoot]
    /\ tx = [w \in Writers |-> Idle] /\ pool = {}
    /\ comp = [k \in Compactors |-> NotCompacting]
    /\ read = [r \in Readers |-> NotReading]
    /\ leaky = {} /\ used = [inodes |-> 1, faults |-> 0]

(***************************************************************************)
(* Recovery                                                                *)
(***************************************************************************)
\* Mutant: every header is trusted.
TrustedAlways(h) == TRUE

\* A header is trusted when its transaction is in the log, or it has none.
Trusted(h) == h.id = 0 \/ Logged(h.id)

\* The place of the header initialize_state finds, looking back from the end (0: none).
LastTrusted(headers) ==
    LET places == {i \in 1..Len(headers) : Trusted(headers[i])}
    IN  IF places = {} THEN 0 ELSE CHOOSE i \in places : \A j \in places : j <= i

\* The root it leads to.  A file without a trusted header is an empty tree.
Recovered(headers, inode, id) ==
    LET at == LastTrusted(headers)
    IN  [file_id |-> id, inode |-> inode, dirty |-> at = 0,
         id |-> IF at = 0 THEN 0 ELSE headers[at].id,
         content |-> IF at = 0 THEN {} ELSE headers[at].content]

\* PathIds::file_id_for_path, which gives the path an id if it has none.
PathId(t) == IF fileId[t] = 0 THEN 1 ELSE fileId[t]

\* initialize_state: done once; a header that cannot be read is an error.
InitializeState(t) ==
    LET root == Recovered(file[t].headers, file[t].inode, PathId(t))
    IN  /\ fileId' = [fileId EXCEPT ![t] = PathId(t)]
        /\ ready[t] \/ ~file[t].torn
        /\ ready' = [ready EXCEPT ![t] = TRUE]
        /\ writer' = [writer EXCEPT ![t] = IF ready[t] THEN @ ELSE root]
        /\ reader' = [reader EXCEPT ![t] = IF ready[t] THEN @ ELSE root]

Fault(kind) ==
    kind \in Faults /\ used.faults < MaxFaults /\ used' = [used EXCEPT !.faults = @ + 1]

Unreadable(t) == ~ready[t] /\ file[t].torn

\* The mutex of the write state is held while a tree is saved, and by a compaction
\* from its copy to its end.
StateFree(t) ==
    /\ \A e \in pool : e.tree = t => ~e.saved
    /\ \A k \in Compactors : comp[k].tree = t => comp[k].pc \notin {"copied", "renamed"}

(***************************************************************************)
(* Transactions                                                            *)
(***************************************************************************)
Unlocked(client) == [t \in Trees |-> IF lock[t] = client THEN None ELSE lock[t]]

\* Roots::transaction, up to new_transaction.
Begin(w, trees) ==
    /\ tx[w].pc = "idle" /\ Len(attempt) < MaxTransactions
    /\ \A t \in trees : lock[t] = None
    /\ lock' = [t \in Trees |-> IF t \in trees THEN w ELSE lock[t]]
    /\ nextId' = nextId + 1
    /\ attempt' = Append(attempt, [id |-> nextId, trees |-> {}])
    /\ tx' = [tx EXCEPT ![w] = [pc |-> "opening", id |-> nextId, attempt |-> Len(attempt) + 1,
                                trees |-> trees, left |-> trees, handle |-> Idle.handle]]
    /\ UNCHANGED <<log, file, spare, treeVars, pool, comp, read, leaky, used>>

\* What is opened under the path now.
HandleNow(t) == [id |-> PathId(t), inode |-> file[t].inode]

\* begin_transaction of one tree: TreeFile::write.
Open(w, t) ==
    /\ tx[w].pc = "opening" /\ t \in tx[w].left
    /\ InitializeState(t)
    /\ tx' = [tx EXCEPT ![w] =
                  [tx[w] EXCEPT !.left = tx[w].left \ {t},
                                !.pc = IF tx[w].left = {t} THEN "open" ELSE "opening",
                                !.handle = [tx[w].handle EXCEPT ![t] = HandleNow(t)]]]
    /\ UNCHANGED <<managerVars, file, spare, pool, comp, read, leaky, used>>

\* A tree that cannot be opened ends the transaction, which releases its locks.
OpenFails(w, t) ==
    /\ tx[w].pc = "opening" /\ t \in tx[w].left /\ Unreadable(t)
    /\ tx' = [tx EXCEPT ![w] = Idle] /\ lock' = Unlocked(w)
    /\ UNCHANGED <<log, nextId, attempt, file, spare, treeVars, pool, comp, read, leaky, used>>

\* TreeModifier in a transaction.
Modify(w, t) ==
    LET a == tx[w].attempt
    IN  /\ tx[w].pc = "open" /\ t \in tx[w].trees \ attempt[a].trees /\ StateFree(t)
        /\ writer' = [writer EXCEPT ![t] = [writer[t] EXCEPT !.content = writer[t].content \cup {a},
                                                            !.id = tx[w].id, !.dirty = TRUE]]
        /\ attempt' = [attempt EXCEPT ![a].trees = @ \cup {t}]
        /\ UNCHANGED <<log, nextId, lock, file, spare, fileId, ready, reader, tx, pool, comp,
                       read, leaky, used>>

\* rollback, or the drop of the transaction: the roots of its trees are those of
\* the readers again.
Rollback(w) ==
    /\ tx[w].pc = "open" /\ \A t \in tx[w].trees : StateFree(t)
    /\ writer' = [t \in Trees |-> IF t \in tx[w].trees
                                  THEN [reader[t] EXCEPT !.file_id = writer[t].file_id]
                                  ELSE writer[t]]
    /\ tx' = [tx EXCEPT ![w] = Idle] /\ lock' = Unlocked(w)
    /\ UNCHANGED <<log, nextId, attempt, file, spare, fileId, ready, reader, pool, comp, read,
                   leaky, used>>

\* commit_trees hands the trees to the pool (a single tree is saved by the caller).
CommitTrees(w) ==
    /\ tx[w].pc = "open"
    /\ tx' = [tx EXCEPT ![w] = [tx[w] EXCEPT !.pc = "saving", !.left = tx[w].trees]]
    /\ pool' = pool \cup {[client |-> w, attempt |-> tx[w].attempt, tree |-> t,
                           id |-> tx[w].handle[t].id, saved |-> FALSE] : t \in tx[w].trees}
    /\ UNCHANGED <<managerVars, file, spare, treeVars, comp, read, leaky, used>>

\* The client of a commit still waits for its result.
Awaited(e) == tx[e.client].attempt = e.attempt /\ tx[e.client].pc = "saving"

\* A result that is no error reaches the client, if it still waits.
Finished(e) ==
    /\ pool' = pool \ {e}
    /\ tx' = IF ~Awaited(e) THEN tx
             ELSE [tx EXCEPT ![e.client] =
                        [tx[e.client] EXCEPT
                            !.left = tx[e.client].left \ {e.tree},
                            !.pc = IF tx[e.client].left = {e.tree} THEN "saved" ELSE "saving"]]

\* The header save_tree writes.  It leads nowhere if the positions are not for the file.
Header(t, inode) ==
    [id |-> writer[t].id, content |-> IF writer[t].inode = inode THEN writer[t].content ELSE {}]

\* TreeWriter: the nodes and the header are written if anything changed.
SaveTree(e) ==
    LET root == writer[e.tree]
    IN  /\ ~e.saved /\ StateFree(e.tree) /\ root.file_id = e.id
        /\ IF root.dirty
           THEN /\ file' = [file EXCEPT ![e.tree].headers =
                                           Append(@, Header(e.tree, file[e.tree].inode))]
                /\ writer' = [writer EXCEPT ![e.tree].dirty = FALSE]
                /\ pool' = (pool \ {e}) \cup {[e EXCEPT !.saved = TRUE]}
                /\ tx' = tx
           ELSE Finished(e) /\ UNCHANGED <<file, writer>>
        /\ UNCHANGED <<managerVars, spare, fileId, ready, reader, comp, read, leaky, used>>


\* save_tree ends with synchronize.
SyncTree(e) ==
    /\ e.saved
    /\ file' = [file EXCEPT ![e.tree].synced = Len(file[e.tree].headers)]
    /\ Finished(e)
    /\ UNCHANGED <<managerVars, spare, treeVars, comp, read, leaky, used>>

\* An error reaches the client, if it still waits, and ends its commit: the locks are
\* released, the other trees stay in the pool, and no state is rolled back, for the
\* transaction has given its trees away.
Failed(e) ==
    /\ pool' = pool \ {e}
    /\ IF Awaited(e)
       THEN /\ leaky' = leaky \cup tx[e.client].trees
            /\ lock' = Unlocked(e.client) /\ tx' = [tx EXCEPT ![e.client] = Idle]
       ELSE UNCHANGED <<leaky, lock, tx>>
    /\ UNCHANGED <<log, nextId, attempt, file, spare, fileId, ready, reader, comp, read>>

\* TreeWriter answers TreeCompacted.
FindCompacted(e) ==
    /\ StateFree(e.tree) /\ writer[e.tree].file_id # e.id
    /\ Failed(e)
    /\ UNCHANGED <<writer, used>>

\* A write fails (and the root may count as clean already), or synchronize does.
SaveFails(e, dirty) ==
    /\ Fault("failure")
    /\ IF e.saved THEN ~dirty ELSE StateFree(e.tree) /\ (dirty => writer[e.tree].dirty)
    /\ writer' = [writer EXCEPT ![e.tree].dirty = dirty]
    /\ Failed(e)

\* Mutant: a transaction waits for its own id too.
LogAfterItself(w) ==
    /\ tx[w].pc = "saved"
    /\ \A v \in Writers : tx[v].pc \notin {"idle", "logged"} => tx[v].id > tx[w].id
    /\ \A k \in Compactors : comp[k].id = 0 \/ comp[k].id > tx[w].id
    /\ log' = Append(log, [id |-> tx[w].id, attempt |-> tx[w].attempt])
    /\ tx' = [tx EXCEPT ![w] = [tx[w] EXCEPT !.pc = "logged", !.left = tx[w].trees]]
    /\ UNCHANGED <<nextId, attempt, lock, file, spare, treeVars, pool, comp, read, leaky, used>>

\* ManagedTransaction::commit: the log gets the transaction, once all that have a
\* smaller id have ended or are in the log.
LogTransaction(w) ==
    /\ tx[w].pc = "saved"
    /\ \A v \in Writers : tx[v].pc \notin {"idle", "logged"} => tx[v].id >= tx[w].id
    /\ \A k \in Compactors : comp[k].id = 0 \/ comp[k].id > tx[w].id
    /\ log' = Append(log, [id |-> tx[w].id, attempt |-> tx[w].attempt])
    /\ tx' = [tx EXCEPT ![w] = [tx[w] EXCEPT !.pc = "logged", !.left = tx[w].trees]]
    /\ UNCHANGED <<nextId, attempt, lock, file, spare, treeVars, pool, comp, read, leaky, used>>

\* The trees are published one by one; the locks go with the last.
Publish(w, t) ==
    /\ tx[w].pc = "logged" /\ t \in tx[w].left /\ StateFree(t)
    /\ reader' = [reader EXCEPT ![t] = writer[t]]
    /\ IF tx[w].left = {t}
       THEN tx' = [tx EXCEPT ![w] = Idle] /\ lock' = Unlocked(w)
       ELSE tx' = [tx EXCEPT ![w].left = @ \ {t}] /\ lock' = lock
    /\ UNCHANGED <<log, nextId, attempt, file, spare, fileId, ready, writer, pool, comp, read,
                   leaky, used>>

(***************************************************************************)
(* Compaction                                                              *)
(***************************************************************************)
\* Tree::compact opens the tree; TreeCompactor removes a .compacting file, whoever
\* left it there.
OpenCompaction(k, t) ==
    /\ comp[k].pc = "idle" /\ used.inodes <= MaxCompactions
    /\ InitializeState(t)
    /\ spare' = [spare EXCEPT ![t] = 0]
    /\ used' = [used EXCEPT !.inodes = @ + 1]
    /\ comp' = [comp EXCEPT ![k] = [pc |-> "opened", tree |-> t, id |-> 0,
                                    inode |-> file[t].inode, new |-> used.inodes + 1]]
    /\ UNCHANGED <<managerVars, file, tx, pool, read, leaky>>

\* Mutant: compaction does not wait for the transactions of the tree.
LockCompactionUnlocked(k) ==
    /\ comp[k].pc = "opened"
    /\ nextId' = nextId + 1
    /\ comp' = [comp EXCEPT ![k] = [comp[k] EXCEPT !.pc = "locked", !.id = nextId]]
    /\ UNCHANGED <<log, attempt, lock, file, spare, treeVars, tx, pool, read, leaky, used>>

\* It takes a transaction, which is never committed.
LockCompaction(k) ==
    /\ comp[k].pc = "opened" /\ lock[comp[k].tree] = None
    /\ lock' = [lock EXCEPT ![comp[k].tree] = k]
    /\ nextId' = nextId + 1
    /\ comp' = [comp EXCEPT ![k] = [comp[k] EXCEPT !.pc = "locked", !.id = nextId]]
    /\ UNCHANGED <<log, attempt, file, spare, treeVars, tx, pool, read, leaky, used>>

\* The data is copied with the handle opened before, and the new file is saved.  The
\* write state now has the positions of the new file (or none that is right).
Copy(k) ==
    LET t == comp[k].tree
    IN  /\ comp[k].pc = "locked" /\ StateFree(t)
        /\ spare' = [spare EXCEPT ![t] = comp[k].new]
        /\ writer' = [writer EXCEPT ![t] =
                        [writer[t] EXCEPT
                            !.dirty = FALSE,
                            !.inode = IF comp[k].inode = writer[t].inode THEN comp[k].new ELSE 0]]
        /\ comp' = [comp EXCEPT ![k].pc = "copied"]
        /\ UNCHANGED <<managerVars, file, fileId, ready, reader, tx, pool, read, leaky, used>>

\* replace_with renames the new file.  If it is gone, the error ends the compaction.
Rename(k) ==
    LET t == comp[k].tree
    IN  /\ comp[k].pc = "copied"
        /\ IF spare[t] = comp[k].new
           THEN /\ file' = [file EXCEPT ![t] =
                               [inode |-> comp[k].new, torn |-> FALSE, synced |-> 1,
                                headers |-> <<Header(t, comp[k].new)>>]]
                /\ spare' = [spare EXCEPT ![t] = 0]
                /\ comp' = [comp EXCEPT ![k].pc = "renamed"]
                /\ lock' = lock
           ELSE /\ comp' = [comp EXCEPT ![k] = NotCompacting]
                /\ lock' = Unlocked(k)
                /\ UNCHANGED <<file, spare>>
        /\ UNCHANGED <<log, nextId, attempt, treeVars, tx, pool, read, leaky, used>>

\* Mutant: the state is published before it has the new file id.
FinishOldId(k) ==
    LET t == comp[k].tree
    IN  /\ comp[k].pc = "renamed"
        /\ fileId' = [fileId EXCEPT ![t] = @ + 1]
        /\ writer' = [writer EXCEPT ![t].file_id = fileId'[t]]
        /\ reader' = [reader EXCEPT ![t] = writer[t]]
        /\ comp' = [comp EXCEPT ![k] = NotCompacting] /\ lock' = Unlocked(k)
        /\ UNCHANGED <<log, nextId, attempt, file, spare, ready, tx, pool, read, leaky, used>>

\* Mutant: the state has a new file id, the path keeps its old one.
FinishOldPath(k) ==
    LET t == comp[k].tree
    IN  /\ comp[k].pc = "renamed"
        /\ writer' = [writer EXCEPT ![t].file_id = @ + 1]
        /\ reader' = [reader EXCEPT ![t] = writer'[t]]
        /\ comp' = [comp EXCEPT ![k] = NotCompacting] /\ lock' = Unlocked(k)
        /\ UNCHANGED <<log, nextId, attempt, file, spare, fileId, ready, tx, pool, read, leaky, used>>

\* close_handles: the path has a new id, and the state is published with it.
Finish(k) ==
    LET t == comp[k].tree
    IN  /\ comp[k].pc = "renamed"
        /\ fileId' = [fileId EXCEPT ![t] = @ + 1]
        /\ writer' = [writer EXCEPT ![t].file_id = fileId'[t]]
        /\ reader' = [reader EXCEPT ![t] = writer'[t]]
        /\ comp' = [comp EXCEPT ![k] = NotCompacting] /\ lock' = Unlocked(k)
        /\ UNCHANGED <<log, nextId, attempt, file, spare, ready, tx, pool, read, leaky, used>>

(***************************************************************************)
(* Reading                                                                 *)
(***************************************************************************)
\* A read (or its next try) asks for the id of the path.
FindFile(r, t) ==
    /\ read[r].pc = "idle" \/ (read[r].pc = "retry" /\ t = read[r].tree)
    /\ fileId' = [fileId EXCEPT ![t] = PathId(t)]
    /\ read' = [read EXCEPT ![r] = [pc |-> "found", tree |-> t, early |-> FALSE,
                                    handle |-> [id |-> PathId(t), inode |-> 0]]]
    /\ UNCHANGED <<managerVars, file, spare, ready, writer, reader, tx, pool, comp, leaky, used>>

\* It opens the file and initializes the state.  early: the file has been renamed and
\* the state does not have it yet.
OpenFile(r) ==
    LET t == read[r].tree
    IN  /\ read[r].pc = "found"
        /\ InitializeState(t)
        /\ read' = [read EXCEPT ![r] =
                        [read[r] EXCEPT
                            !.pc = "opened",
                            !.handle = [id |-> read[r].handle.id, inode |-> file[t].inode],
                            !.early = \E k \in Compactors :
                                          comp[k].tree = t /\ comp[k].pc = "renamed"]]
        /\ UNCHANGED <<managerVars, file, spare, tx, pool, comp, leaky, used>>

\* A file that cannot be read is an error.
OpenFileFails(r) ==
    /\ read[r].pc = "found" /\ Unreadable(read[r].tree)
    /\ read' = [read EXCEPT ![r] = NotReading]
    /\ UNCHANGED <<managerVars, file, spare, treeVars, tx, pool, comp, leaky, used>>

\* TreeGetter and the others: the read state, if it is for the file of the handle;
\* if not, catch_compaction_and_retry tries again.
ReadState(r) ==
    /\ read[r].pc = "opened"
    /\ read' = [read EXCEPT ![r] = IF reader[read[r].tree].file_id = read[r].handle.id
                                   THEN NotReading ELSE [read[r] EXCEPT !.pc = "retry"]]
    /\ UNCHANGED <<managerVars, file, spare, treeVars, tx, pool, comp, leaky, used>>

(***************************************************************************)
(* Crashes                                                                 *)
(***************************************************************************)
\* What is not synchronized may be lost from some header on, which may be torn.  The
\* process starts again with nothing but its files and the log; the ids go on after
\* the last one in the log.
Crash(kept, torn) ==
    /\ Fault("crash")
    /\ \A t \in Trees : kept[t] >= file[t].synced /\ kept[t] <= Len(file[t].headers)
    /\ \A t \in torn : kept[t] < Len(file[t].headers)
    /\ file' = [t \in Trees |-> [file[t] EXCEPT !.headers = SubSeq(@, 1, kept[t]), !.synced = kept[t],
                                                !.torn = @ \/ t \in torn]]
    /\ nextId' = IF log = <<>> THEN 1 ELSE log[Len(log)].id + 1
    /\ lock' = [t \in Trees |-> None]
    /\ fileId' = [t \in Trees |-> 0] /\ ready' = [t \in Trees |-> FALSE]
    /\ writer' = [t \in Trees |-> NoRoot] /\ reader' = [t \in Trees |-> NoRoot]
    /\ tx' = [w \in Writers |-> Idle] /\ pool' = {}
    /\ comp' = [k \in Compactors |-> NotCompacting]
    /\ read' = [r \in Readers |-> NotReading]
    /\ UNCHANGED <<log, attempt, spare, leaky>>

\* What goes on by itself: the threads of the pool, transactions that were begun, and
\* compactions that wait for nobody's transaction.
Progress ==
    \/ \E w \in Writers, t \in Trees : Open(w, t) \/ OpenFails(w, t) \/ Publish(w, t)
    \/ \E w \in Writers : Rollback(w) \/ CommitTrees(w) \/ LogTransaction(w)
    \/ \E e \in pool : SaveTree(e) \/ SyncTree(e) \/ FindCompacted(e)
    \/ \E k \in Compactors : LockCompaction(k) \/ Copy(k) \/ Rename(k) \/ Finish(k)

Next ==
    \/ Progress
    \/ \E w \in Writers, trees \in SUBSET Trees \ {{}} : Begin(w, trees)
    \/ \E w \in Writers, t \in Trees : Modify(w, t)
    \/ \E e \in pool, dirty \in BOOLEAN : SaveFails(e, dirty)
    \/ \E k \in Compactors, t \in Trees : OpenCompaction(k, t)
    \/ \E r \in Readers, t \in Trees : FindFile(r, t)
    \/ \E r \in Readers : OpenFile(r) \/ OpenFileFails(r) \/ ReadState(r)
    \/ \E kept \in [Trees -> 0..(2 * MaxTransactions)], torn \in SUBSET Trees : Crash(kept, torn)

Spec == Init /\ [][Next]_vars

(***************************************************************************)
(* Properties                                                              *)
(***************************************************************************)
\* The committed transactions that changed a tree.
CommittedIn(t) == {a \in Committed : t \in attempt[a].trees}

\* The transactions that were not committed, whose id a committed one has got: the
\* ids start again after the last one in the log.
IdReused == {a \in DOMAIN attempt \ Committed : Logged(attempt[a].id)}

\* What readers see of a tree is what was committed to it, all of it and nothing else,
\* at every moment and after any crash: nothing of a transaction shows before it is
\* in the log, commit publishes what it saved, rollback takes back all it did,
\* initialize_state finds the last header that counts, compaction keeps the data.
\* Left out are the moment between the log and publish, the trees in which a failed
\* commit left its changes, and changes whose id was given out again.
SeenIsCommitted ==
    \A t \in Trees \ leaky :
        ready[t] /\ (\A w \in Writers : tx[w].pc = "logged" => t \notin tx[w].left) =>
            /\ CommittedIn(t) \subseteq reader[t].content
            /\ reader[t].content \subseteq CommittedIn(t) \cup IdReused


\* A transaction is never interrupted by a compaction: from begin_transaction to
\* publish the handles of its trees are for the file the write state is about, so
\* TreeModifier and TreeWriter find the file id they expect and the positions they
\* write are positions in that file.
TransactionsKeepTheirFile ==
    \A w \in Writers : \A t \in tx[w].trees \ (IF tx[w].pc = "opening" THEN tx[w].left ELSE {}) :
        tx[w].handle[t] = [id |-> writer[t].file_id, inode |-> writer[t].inode]

\* A read that passes the check of the file id reads positions of the file it has
\* open, unless it opened the file between the rename of a compaction and
\* close_handles.
ReadsUseTheirFile ==
    \A r \in Readers :
        /\ read[r].pc = "opened" /\ reader[read[r].tree].file_id = read[r].handle.id
        /\ ~read[r].early
        => read[r].handle.inode = reader[read[r].tree].inode

\* catch_compaction_and_retry does not spin: a read that has to try again finds
\* another file id than the one it failed with, so that it tries as often as
\* compactions end, and once more.
RetryFindsNewFile ==
    \A r \in Readers : read[r].pc = "retry" => fileId[read[r].tree] > read[r].handle.id

\* Nobody waits for ever: while a transaction, a compaction or a commit in the pool
\* is under way, one of them can go on, whatever the locks of the trees, the mutexes
\* of the write states and the order of the ids in the log make them wait for.
SomeoneGoesOn ==
    \/ \E w \in Writers : tx[w].pc # "idle"
    \/ \E k \in Compactors : comp[k].pc # "idle"
    \/ pool # {}
    => ENABLED Progress

\* initialize_state: "The transaction wasn't written successfully, so we cannot trust
\* the data present."  What readers see of a tree that no transaction holds was
\* committed.
OnlyCommittedIsSeen ==
    \A t \in Trees : ready[t] /\ lock[t] = None => reader[t].content \subseteq Committed
=============================================================================
