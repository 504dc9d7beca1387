------------------------ MODULE DatabaseFilesProofs ------------------------
(***************************************************************************)
(* That handles, states and files stay together through compactions        *)
(* (TransactionsKeepTheirFile, ReadsUseTheirFile, RetryFindsNewFile), as   *)
(* long as no two compactions run at once.                                 *)
(***************************************************************************)
EXTENDS DatabaseTypes

\* Compactions do not overlap.  The code does not see to it.
OneCompactor == \A k, l \in Compactors : k = l

\* The trees that a transaction has opened.
Opened(w) == tx[w].trees \ (IF tx[w].pc = "opening" THEN tx[w].left ELSE {})

\* A transaction has the locks of its trees, and a compaction that of its tree.
LocksHeld ==
    /\ \A w \in Writers : tx[w].left \subseteq tx[w].trees /\ \A t \in tx[w].trees : lock[t] = w
    /\ \A k \in Compactors : comp[k].pc \in {"locked", "copied", "renamed"} => lock[comp[k].tree] = k

\* The id of the path and those of the two states are the same.
IdsAgree ==
    \A t \in Trees : IF ready[t] THEN fileId[t] > 0 /\ writer[t].file_id = fileId[t]
                                      /\ reader[t].file_id = fileId[t]
                     ELSE fileId[t] \in {0, 1}

\* Where a compaction is, and which files the tree is in then.
CompactionAt(pcs, t) == \E k \in Compactors : comp[k].tree = t /\ comp[k].pc \in pcs

FilesAgree ==
    \A t \in Trees : ready[t] =>
        /\ ~CompactionAt({"renamed"}, t) => reader[t].inode = file[t].inode
        /\ ~CompactionAt({"copied"}, t) => writer[t].inode = file[t].inode

CompactionsAgree ==
    \A k \in Compactors : comp[k].pc # "idle" =>
        /\ ready[comp[k].tree]
        /\ comp[k].pc \in {"opened", "locked", "copied"} => comp[k].inode = file[comp[k].tree].inode
        /\ comp[k].pc = "copied" => /\ spare[comp[k].tree] = comp[k].new
                                    /\ writer[comp[k].tree].inode = comp[k].new

OpenedAgree ==
    \A w \in Writers : \A t \in Opened(w) :
        /\ ready[t]
        /\ tx[w].handle[t] = [id |-> writer[t].file_id, inode |-> writer[t].inode]

ReadsAgree ==
    \A r \in Readers :
        /\ read[r].pc # "idle" => read[r].handle.id <= fileId[read[r].tree]
        /\ read[r].pc = "retry" => read[r].handle.id < fileId[read[r].tree]
        /\ read[r].pc = "opened" =>
             /\ ready[read[r].tree]
             /\ ~read[r].early /\ fileId[read[r].tree] = read[r].handle.id
                => read[r].handle.inode = reader[read[r].tree].inode

FilesInv ==
    TypeOK /\ LocksHeld /\ IdsAgree /\ FilesAgree /\ CompactionsAgree /\ OpenedAgree /\ ReadsAgree

(***************************************************************************)
(* Locks                                                                   *)
(***************************************************************************)
\* A transaction or a compaction that ends gives back no locks but its own.
LEMMA WriterReleases ==
    ASSUME TypeOK, LocksHeld, NEW w \in Writers, lock' = Unlocked(w), comp' = comp,
           tx' = [tx EXCEPT ![w] = Idle]
    PROVE  LocksHeld'
<1>1. tx'[w] = Idle /\ \A v \in Writers : v # w => tx'[v] = tx[v]
  BY DEF TypeOK, TxType
<1>2. Idle.left = {} /\ Idle.trees = {}
  BY DEF Idle
<1>3. \A t \in Trees : lock[t] # w => lock'[t] = lock[t]
  BY DEF Unlocked
<1>4. \A v \in Writers : tx'[v].left \subseteq tx'[v].trees /\ \A t \in tx'[v].trees : lock'[t] = v
  <2> TAKE v \in Writers
  <2>1. CASE v = w
    BY <1>1, <1>2, <2>1
  <2>2. CASE v # w
    <3>1. tx[v].left \subseteq tx[v].trees /\ \A t \in tx[v].trees : lock[t] = v /\ t \in Trees
      BY DEF LocksHeld, TypeOK, TxType, TxRecord
    <3> QED
      BY <1>1, <1>3, <2>2, <3>1
  <2> QED
    BY <2>1, <2>2
<1>5. \A k \in Compactors : comp[k].pc \in {"locked", "copied", "renamed"} => lock'[comp[k].tree] = k
  <2> SUFFICES ASSUME NEW k \in Compactors, comp[k].pc \in {"locked", "copied", "renamed"}
               PROVE  lock'[comp[k].tree] = k
    OBVIOUS
  <2>1. comp[k].tree \in Trees /\ lock[comp[k].tree] = k /\ k # w
    BY DatabaseAssumption DEF TypeOK, CompType, LocksHeld
  <2> QED
    BY <1>3, <2>1
<1> QED
  BY <1>4, <1>5 DEF LocksHeld

LEMMA CompactorReleases ==
    ASSUME TypeOK, LocksHeld, NEW k \in Compactors, lock' = Unlocked(k), tx' = tx,
           comp' = [comp EXCEPT ![k] = NotCompacting]
    PROVE  LocksHeld'
<1>1. comp'[k] = NotCompacting /\ \A l \in Compactors : l # k => comp'[l] = comp[l]
  BY DEF TypeOK, CompType
<1>2. NotCompacting.pc = "idle"
  BY DEF NotCompacting
<1>3. \A t \in Trees : lock[t] # k => lock'[t] = lock[t]
  BY DEF Unlocked
<1>4. \A w \in Writers : tx[w].left \subseteq tx[w].trees /\ \A t \in tx[w].trees : lock'[t] = w
  <2> TAKE w \in Writers
  <2>1. /\ tx[w].left \subseteq tx[w].trees
        /\ \A t \in tx[w].trees : lock[t] = w /\ t \in Trees /\ w # k
    BY DatabaseAssumption DEF LocksHeld, TypeOK, TxType, TxRecord
  <2> QED
    BY <1>3, <2>1
<1>5. \A l \in Compactors : comp'[l].pc \in {"locked", "copied", "renamed"} => lock'[comp'[l].tree] = l
  <2> SUFFICES ASSUME NEW l \in Compactors, comp'[l].pc \in {"locked", "copied", "renamed"}
               PROVE  lock'[comp'[l].tree] = l
    OBVIOUS
  <2>1. l # k /\ comp'[l] = comp[l]
    BY <1>1, <1>2
  <2>2. comp[l].tree \in Trees /\ lock[comp[l].tree] = l
    BY <2>1 DEF TypeOK, CompType, LocksHeld
  <2> QED
    BY <1>3, <2>1, <2>2
<1> QED
  BY <1>4, <1>5 DEF LocksHeld

\* An error ends a transaction and nothing else.
LEMMA FailedLocks ==
    ASSUME TypeOK, LocksHeld, NEW e \in pool, Failed(e) PROVE LocksHeld'
<1>1. e.client \in Writers
  BY DEF TypeOK, PoolType, PoolRecord
<1>2. CASE Awaited(e)
  BY <1>1, <1>2, WriterReleases DEF Failed
<1>3. CASE ~Awaited(e)
  BY <1>3 DEF Failed, LocksHeld
<1> QED
  BY <1>2, <1>3

\* A step of one transaction after which it has the same trees.
LEMMA LocksKept ==
    ASSUME TypeOK, LocksHeld, NEW w \in Writers, NEW x, tx' = [tx EXCEPT ![w] = x],
           x.trees = tx[w].trees, x.left \subseteq tx[w].trees, lock' = lock, comp' = comp
    PROVE  LocksHeld'
<1>1. tx'[w] = x /\ \A v \in Writers : v # w => tx'[v] = tx[v]
  BY DEF TypeOK, TxType
<1> QED
  BY <1>1 DEF LocksHeld

LEMMA FinishedLocks ==
    ASSUME TypeOK, LocksHeld, NEW e \in pool, Finished(e), lock' = lock, comp' = comp PROVE LocksHeld'
<1> DEFINE c == e.client
           x == [tx[c] EXCEPT !.left = tx[c].left \ {e.tree},
                              !.pc = IF tx[c].left = {e.tree} THEN "saved" ELSE "saving"]
<1>1. c \in Writers /\ tx[c] \in TxRecord
  BY DEF TypeOK, PoolType, PoolRecord, TxType
<1>2. tx' = tx \/ tx' = [tx EXCEPT ![c] = x]
  BY DEF Finished
<1>3. x.trees = tx[c].trees /\ x.left = tx[c].left \ {e.tree}
  BY <1>1 DEF TxRecord
<1>4. x.left \subseteq tx[c].trees
  BY <1>1, <1>3 DEF LocksHeld
<1> HIDE DEF x
<1>5. CASE tx' = tx
  BY <1>5 DEF LocksHeld
<1>6. CASE tx' = [tx EXCEPT ![c] = x]
  BY Zenon, <1>1, <1>3, <1>4, <1>6, LocksKept
<1> QED
  BY <1>2, <1>5, <1>6

LEMMA LocksStep ==
    ASSUME TypeOK, LocksHeld, [Next]_vars PROVE LocksHeld'
<1>1. ASSUME NEW w \in Writers, NEW trees \in SUBSET Trees, Begin(w, trees) PROVE LocksHeld'
  <2> DEFINE x == [pc |-> "opening", id |-> nextId, attempt |-> Len(attempt) + 1,
                   trees |-> trees, left |-> trees, handle |-> Idle.handle]
  <2>1. tx' = [tx EXCEPT ![w] = x] /\ x.trees = trees /\ x.left = trees
    BY <1>1 DEF Begin
  <2> HIDE DEF x
  <2>2. tx'[w] = x /\ \A v \in Writers : v # w => tx'[v] = tx[v]
    BY <2>1 DEF TypeOK, TxType
  <2>3. \A t \in Trees : lock'[t] = IF t \in trees THEN w ELSE lock[t]
    BY <1>1 DEF Begin
  <2>4. \A t \in trees : lock[t] = None
    BY <1>1 DEF Begin
  <2>5. \A v \in Writers : tx'[v].left \subseteq tx'[v].trees /\ \A t \in tx'[v].trees : lock'[t] = v
    <3> TAKE v \in Writers
    <3>1. CASE v = w
      BY <2>1, <2>2, <2>3, <3>1
    <3>2. CASE v # w
      <4>1. /\ tx[v].left \subseteq tx[v].trees
            /\ \A t \in tx[v].trees : lock[t] = v /\ t \in Trees /\ v # None
        BY DatabaseAssumption DEF LocksHeld, TypeOK, TxType, TxRecord
      <4> QED
        BY <2>2, <2>3, <2>4, <3>2, <4>1
    <3> QED
      BY <3>1, <3>2
  <2>6. comp' = comp
    BY <1>1 DEF Begin
  <2>7. \A k \in Compactors : comp[k].pc \in {"locked", "copied", "renamed"} => lock'[comp[k].tree] = k
    <3> SUFFICES ASSUME NEW k \in Compactors, comp[k].pc \in {"locked", "copied", "renamed"}
                 PROVE  lock'[comp[k].tree] = k
      OBVIOUS
    <3>1. comp[k].tree \in Trees /\ lock[comp[k].tree] = k /\ k # None
      BY DatabaseAssumption DEF TypeOK, CompType, LocksHeld
    <3> QED
      BY <2>3, <2>4, <3>1
  <2> QED
    BY <2>5, <2>6, <2>7 DEF LocksHeld
<1>2. ASSUME NEW w \in Writers, NEW t \in Trees, Open(w, t) PROVE LocksHeld'
  BY <1>2 DEF Open, InitializeState, managerVars, LocksHeld, TypeOK, TxType, TxRecord, CompType, CompRecord
<1>3. ASSUME NEW w \in Writers, NEW t \in Trees, OpenFails(w, t) PROVE LocksHeld'
  BY Zenon, <1>3, WriterReleases DEF OpenFails
<1>4. ASSUME NEW w \in Writers, NEW t \in Trees, Modify(w, t) PROVE LocksHeld'
  BY <1>4 DEF Modify, LocksHeld, TypeOK, TxType, TxRecord, CompType, CompRecord
<1>5. ASSUME NEW w \in Writers, Rollback(w) PROVE LocksHeld'
  BY Zenon, <1>5, WriterReleases DEF Rollback
<1>6. ASSUME NEW w \in Writers, CommitTrees(w) PROVE LocksHeld'
  BY <1>6 DEF CommitTrees, managerVars, treeVars, LocksHeld, TypeOK, TxType, TxRecord, CompType, CompRecord
<1>7. ASSUME NEW e \in pool, SaveTree(e) PROVE LocksHeld'
  <2>1. CASE tx' = tx
    BY <1>7, <2>1 DEF SaveTree, managerVars, LocksHeld
  <2>2. CASE Finished(e)
    BY <1>7, <2>2, FinishedLocks DEF SaveTree, managerVars
  <2> QED
    BY <1>7, <2>1, <2>2 DEF SaveTree
<1>8. ASSUME NEW e \in pool, SyncTree(e) PROVE LocksHeld'
  BY <1>8, FinishedLocks DEF SyncTree, managerVars
<1>9. ASSUME NEW e \in pool, FindCompacted(e) PROVE LocksHeld'
  BY <1>9, FailedLocks DEF FindCompacted
<1>10. ASSUME NEW e \in pool, NEW dirty \in BOOLEAN, SaveFails(e, dirty) PROVE LocksHeld'
  BY <1>10, FailedLocks DEF SaveFails
<1>11. ASSUME NEW w \in Writers, LogTransaction(w) PROVE LocksHeld'
  BY <1>11 DEF LogTransaction, treeVars, LocksHeld, TypeOK, TxType, TxRecord, CompType, CompRecord
<1>12. ASSUME NEW w \in Writers, NEW t \in Trees, Publish(w, t) PROVE LocksHeld'
  <2>1. CASE tx[w].left = {t}
    BY <1>12, <2>1, WriterReleases DEF Publish
  <2>2. CASE tx[w].left # {t}
    <3> DEFINE x == [tx[w] EXCEPT !.left = tx[w].left \ {t}]
    <3>1. tx' = [tx EXCEPT ![w] = x] /\ lock' = lock /\ comp' = comp
      BY <1>12, <2>2 DEF Publish
    <3>2. x.trees = tx[w].trees /\ x.left = tx[w].left \ {t}
      BY DEF TypeOK, TxType, TxRecord
    <3>3. x.left \subseteq tx[w].trees
      BY <3>2 DEF LocksHeld
    <3> HIDE DEF x
    <3> QED
      BY Zenon, <3>1, <3>2, <3>3, LocksKept
  <2> QED
    BY <2>1, <2>2
<1>13. ASSUME NEW k \in Compactors, NEW t \in Trees, OpenCompaction(k, t) PROVE LocksHeld'
  <2>1. comp[k].pc = "idle" /\ lock' = lock /\ tx' = tx
    BY <1>13 DEF OpenCompaction, managerVars
  <2>2. comp'[k].pc = "opened" /\ \A l \in Compactors : l # k => comp'[l] = comp[l]
    BY <1>13 DEF OpenCompaction, TypeOK, CompType
  <2> QED
    BY <2>1, <2>2 DEF LocksHeld
<1>14. ASSUME NEW k \in Compactors, LockCompaction(k) PROVE LocksHeld'
  <2> DEFINE s == comp[k].tree
             x == [comp[k] EXCEPT !.pc = "locked", !.id = nextId]
  <2>1. comp' = [comp EXCEPT ![k] = x] /\ tx' = tx /\ lock' = [lock EXCEPT ![s] = k] /\ lock[s] = None
    BY <1>14 DEF LockCompaction
  <2>2. s \in Trees /\ x.tree = s
    BY <1>14 DEF LockCompaction, TypeOK, CompType, CompRecord
  <2> HIDE DEF x
  <2>3. comp'[k] = x /\ \A l \in Compactors : l # k => comp'[l] = comp[l]
    BY <2>1 DEF TypeOK, CompType
  <2>4. lock'[s] = k /\ \A t \in Trees : t # s => lock'[t] = lock[t]
    BY <2>1, <2>2 DEF TypeOK, LockType
  <2>5. \A w \in Writers : tx[w].left \subseteq tx[w].trees /\ \A t \in tx[w].trees : lock'[t] = w
    <3> TAKE w \in Writers
    <3>1. /\ tx[w].left \subseteq tx[w].trees
          /\ \A t \in tx[w].trees : lock[t] = w /\ t \in Trees /\ w # None
      BY DatabaseAssumption DEF LocksHeld, TypeOK, TxType, TxRecord
    <3> QED
      BY <2>1, <2>4, <3>1
  <2>6. \A l \in Compactors : comp'[l].pc \in {"locked", "copied", "renamed"} => lock'[comp'[l].tree] = l
    <3> SUFFICES ASSUME NEW l \in Compactors, comp'[l].pc \in {"locked", "copied", "renamed"}
                 PROVE  lock'[comp'[l].tree] = l
      OBVIOUS
    <3>1. CASE l = k
      BY <2>2, <2>3, <2>4, <3>1
    <3>2. CASE l # k
      <4>1. comp[l].tree \in Trees /\ lock[comp[l].tree] = l /\ l # None
        BY <2>3, <3>2, DatabaseAssumption DEF TypeOK, CompType, LocksHeld
      <4> QED
        BY <2>1, <2>3, <2>4, <3>2, <4>1
    <3> QED
      BY <3>1, <3>2
  <2> QED
    BY <2>1, <2>5, <2>6 DEF LocksHeld
<1>15. ASSUME NEW k \in Compactors, Copy(k) PROVE LocksHeld'
  BY <1>15 DEF Copy, managerVars, LocksHeld, TypeOK, TxType, TxRecord, CompType, CompRecord
<1>16. ASSUME NEW k \in Compactors, Rename(k) PROVE LocksHeld'
  <2>1. CASE spare[comp[k].tree] = comp[k].new
    BY <1>16, <2>1 DEF Rename, LocksHeld, TypeOK, CompType, CompRecord
  <2>2. CASE spare[comp[k].tree] # comp[k].new
    BY <1>16, <2>2, CompactorReleases DEF Rename
  <2> QED
    BY <2>1, <2>2
<1>17. ASSUME NEW k \in Compactors, Finish(k) PROVE LocksHeld'
  BY Zenon, <1>17, CompactorReleases DEF Finish
<1>18. ASSUME NEW r \in Readers, NEW t \in Trees, FindFile(r, t) PROVE LocksHeld'
  BY <1>18 DEF FindFile, managerVars, LocksHeld, TypeOK, TxType, TxRecord, CompType, CompRecord
<1>19. ASSUME NEW r \in Readers, OpenFile(r) PROVE LocksHeld'
  BY <1>19 DEF OpenFile, InitializeState, managerVars, LocksHeld, TypeOK, TxType, TxRecord, CompType, CompRecord
<1>20. ASSUME NEW r \in Readers, OpenFileFails(r) PROVE LocksHeld'
  BY <1>20 DEF OpenFileFails, managerVars, treeVars, LocksHeld, TypeOK, TxType, TxRecord, CompType, CompRecord
<1>21. ASSUME NEW r \in Readers, ReadState(r) PROVE LocksHeld'
  BY <1>21 DEF ReadState, managerVars, treeVars, LocksHeld, TypeOK, TxType, TxRecord, CompType, CompRecord
<1>22. ASSUME NEW kept \in [Trees -> 0..(2 * MaxTransactions)], NEW torn \in SUBSET Trees, Crash(kept, torn) PROVE LocksHeld'
  BY Zenon, <1>22 DEF Crash, Idle, NotCompacting, NotReading, NoRoot, LocksHeld, TypeOK, TxType, TxRecord, CompType, CompRecord
<1>23. CASE UNCHANGED vars
  BY <1>23 DEF vars, LocksHeld, TypeOK, TxType, TxRecord, CompType, CompRecord
<1> QED
  BY <1>1, <1>2, <1>3, <1>4, <1>5, <1>6, <1>7, <1>8, <1>9, <1>10, <1>11, <1>12, <1>13, <1>14, <1>15, <1>16, <1>17, <1>18, <1>19, <1>20, <1>21, <1>22, <1>23 DEF Next, Progress

(***************************************************************************)
(* Steps that touch neither the files nor what the states say of them      *)
(***************************************************************************)
\* The file and the ids of every tree stay as they are.
FilesKept ==
    /\ fileId' = fileId /\ ready' = ready
    /\ \A t \in Trees : /\ file'[t].inode = file[t].inode
                        /\ writer'[t].file_id = writer[t].file_id /\ writer'[t].inode = writer[t].inode
                        /\ reader'[t].file_id = reader[t].file_id /\ reader'[t].inode = reader[t].inode

\* No transaction has opened another tree.
OpenedKept ==
    \A w \in Writers : \A t \in tx'[w].trees \ (IF tx'[w].pc = "opening" THEN tx'[w].left ELSE {}) :
        t \in Opened(w) /\ tx'[w].handle[t] = tx[w].handle[t]

Agree == IdsAgree /\ FilesAgree /\ CompactionsAgree /\ OpenedAgree /\ ReadsAgree

LEMMA OpenedIsTree ==
    ASSUME TypeOK, NEW w \in Writers, NEW t \in Opened(w) PROVE t \in Trees /\ t \in tx[w].trees
  BY DEF TypeOK, TxType, TxRecord, Opened

\* A tree that a transaction holds is in no compaction that holds it.
LEMMA NotCompacted ==
    ASSUME TypeOK, LocksHeld, NEW w \in Writers, NEW t \in tx[w].trees, NEW k \in Compactors,
           comp[k].tree = t
    PROVE  comp[k].pc \notin {"locked", "copied", "renamed"}
<1>1. lock[t] = w /\ w # k
  BY DatabaseAssumption DEF LocksHeld
<1> QED
  BY <1>1 DEF LocksHeld

LEMMA QuietIds ==
    ASSUME TypeOK, IdsAgree, FilesKept PROVE IdsAgree'
  BY DEF IdsAgree, FilesKept

LEMMA QuietFiles ==
    ASSUME TypeOK, FilesAgree, FilesKept, comp' = comp PROVE FilesAgree'
  BY DEF FilesAgree, FilesKept, CompactionAt

LEMMA QuietCompactions ==
    ASSUME TypeOK, CompactionsAgree, FilesKept, comp' = comp, spare' = spare PROVE CompactionsAgree'
<1> SUFFICES ASSUME NEW k \in Compactors, comp[k].pc # "idle"
             PROVE  /\ ready'[comp[k].tree]
                    /\ comp[k].pc \in {"opened", "locked", "copied"} =>
                          comp[k].inode = file'[comp[k].tree].inode
                    /\ comp[k].pc = "copied" => /\ spare[comp[k].tree] = comp[k].new
                                                /\ writer'[comp[k].tree].inode = comp[k].new
  BY DEF CompactionsAgree
<1>1. comp[k].tree \in Trees
  BY DEF TypeOK, CompType
<1>2. /\ ready' = ready /\ file'[comp[k].tree].inode = file[comp[k].tree].inode
      /\ writer'[comp[k].tree].inode = writer[comp[k].tree].inode
  BY <1>1 DEF FilesKept
<1> QED
  BY <1>2 DEF CompactionsAgree

LEMMA QuietOpened ==
    ASSUME TypeOK, OpenedAgree, FilesKept, OpenedKept PROVE OpenedAgree'
<1> SUFFICES ASSUME NEW w \in Writers, NEW t \in Opened(w)'
             PROVE  ready'[t] /\ tx'[w].handle[t] = [id |-> writer'[t].file_id, inode |-> writer'[t].inode]
  BY Zenon DEF OpenedAgree
<1>1. t \in Opened(w) /\ tx'[w].handle[t] = tx[w].handle[t]
  BY DEF OpenedKept, Opened
<1>2. t \in Trees
  BY <1>1, OpenedIsTree
<1> QED
  BY <1>1, <1>2 DEF OpenedAgree, FilesKept

LEMMA QuietReads ==
    ASSUME TypeOK, ReadsAgree, FilesKept, read' = read PROVE ReadsAgree'
<1> SUFFICES ASSUME NEW r \in Readers
             PROVE  /\ read[r].pc # "idle" => read[r].handle.id <= fileId[read[r].tree]
                    /\ read[r].pc = "retry" => read[r].handle.id < fileId[read[r].tree]
                    /\ read[r].pc = "opened" =>
                         /\ ready[read[r].tree]
                         /\ ~read[r].early /\ fileId[read[r].tree] = read[r].handle.id
                            => read[r].handle.inode = reader'[read[r].tree].inode
  BY DEF ReadsAgree, FilesKept
<1>1. CASE read[r].pc = "idle"
  BY <1>1
<1>2. CASE read[r].pc # "idle"
  <2>1. read[r].tree \in Trees
    BY <1>2 DEF TypeOK, ReadType
  <2> QED
    BY <2>1 DEF ReadsAgree, FilesKept
<1> QED
  BY <1>1, <1>2

LEMMA QuietStep ==
    ASSUME FilesInv, FilesKept, OpenedKept, comp' = comp, spare' = spare, read' = read PROVE Agree'
  BY QuietIds, QuietFiles, QuietCompactions, QuietOpened, QuietReads DEF FilesInv, Agree

LEMMA OpenedAfterEnd ==
    ASSUME TypeOK, NEW w \in Writers, tx' = [tx EXCEPT ![w] = Idle] PROVE OpenedKept
<1>1. tx'[w] = Idle /\ \A v \in Writers : v # w => tx'[v] = tx[v]
  BY DEF TypeOK, TxType
<1>2. Idle.trees = {}
  BY DEF Idle
<1> QED
  BY <1>1, <1>2 DEF OpenedKept, Opened

LEMMA OpenedAfterStep ==
    ASSUME TypeOK, NEW w \in Writers, NEW x, tx' = [tx EXCEPT ![w] = x], x.trees = tx[w].trees,
           x.handle = tx[w].handle, tx[w].pc # "opening"
    PROVE  OpenedKept
<1>1. tx'[w] = x /\ \A v \in Writers : v # w => tx'[v] = tx[v]
  BY DEF TypeOK, TxType
<1> QED
  BY <1>1 DEF OpenedKept, Opened

LEMMA OpenedAfterNothing ==
    ASSUME tx' = tx PROVE OpenedKept
  BY DEF OpenedKept, Opened

LEMMA OpenedAfterResult ==
    ASSUME TypeOK, NEW e \in pool, Finished(e) PROVE OpenedKept
<1> DEFINE c == e.client
           x == [tx[c] EXCEPT !.left = tx[c].left \ {e.tree},
                              !.pc = IF tx[c].left = {e.tree} THEN "saved" ELSE "saving"]
<1>1. c \in Writers /\ tx[c] \in TxRecord
  BY DEF TypeOK, PoolType, PoolRecord, TxType
<1>2. tx' = tx \/ (tx' = [tx EXCEPT ![c] = x] /\ tx[c].pc = "saving")
  BY DEF Finished, Awaited
<1>3. x.trees = tx[c].trees /\ x.handle = tx[c].handle
  BY <1>1 DEF TxRecord
<1> HIDE DEF x
<1> QED
  BY <1>1, <1>2, <1>3, OpenedAfterNothing, OpenedAfterStep

LEMMA OpenedAfterError ==
    ASSUME TypeOK, NEW e \in pool, Failed(e) PROVE OpenedKept
<1>1. e.client \in Writers
  BY DEF TypeOK, PoolType, PoolRecord
<1> QED
  BY <1>1, OpenedAfterNothing, OpenedAfterEnd DEF Failed

\* A write state in which only data changed.
LEMMA WriterKept ==
    ASSUME TypeOK, NEW t \in Trees, NEW x, writer' = [writer EXCEPT ![t] = x],
           x.file_id = writer[t].file_id, x.inode = writer[t].inode,
           UNCHANGED <<fileId, ready, reader>>, \A s \in Trees : file'[s].inode = file[s].inode
    PROVE  FilesKept
<1>1. writer'[t] = x /\ \A s \in Trees : s # t => writer'[s] = writer[s]
  BY DEF TypeOK, RootType
<1> QED
  BY <1>1 DEF FilesKept

LEMMA QuietTransactions ==
    ASSUME FilesInv, NEW w \in Writers,
           \/ \E trees \in SUBSET Trees : Begin(w, trees)
           \/ \E t \in Trees : OpenFails(w, t) \/ Modify(w, t)
           \/ CommitTrees(w) \/ LogTransaction(w)
    PROVE  Agree'
<1> USE DEF FilesInv
<1>1. ASSUME NEW trees \in SUBSET Trees, Begin(w, trees) PROVE Agree'
  <2> DEFINE x == [pc |-> "opening", id |-> nextId, attempt |-> Len(attempt) + 1,
                   trees |-> trees, left |-> trees, handle |-> Idle.handle]
  <2>1. tx' = [tx EXCEPT ![w] = x] /\ x.trees \ x.left = {} /\ x.pc = "opening"
    BY <1>1 DEF Begin
  <2> HIDE DEF x
  <2>2. tx'[w] = x /\ \A v \in Writers : v # w => tx'[v] = tx[v]
    BY <2>1 DEF TypeOK, TxType
  <2>3. OpenedKept
    BY <2>1, <2>2 DEF OpenedKept, Opened
  <2>4. FilesKept /\ comp' = comp /\ spare' = spare /\ read' = read
    BY <1>1 DEF Begin, treeVars, FilesKept
  <2> QED
    BY <2>3, <2>4, QuietStep
<1>2. ASSUME NEW t \in Trees, OpenFails(w, t) PROVE Agree'
  <2>1. FilesKept /\ comp' = comp /\ spare' = spare /\ read' = read
    BY Zenon, <1>2 DEF OpenFails, treeVars, FilesKept
  <2>2. OpenedKept
    BY Zenon, <1>2, OpenedAfterEnd DEF OpenFails
  <2> QED
    BY <2>1, <2>2, QuietStep
<1>3. ASSUME NEW t \in Trees, Modify(w, t) PROVE Agree'
  <2> DEFINE x == [writer[t] EXCEPT !.content = writer[t].content \cup {tx[w].attempt},
                                    !.id = tx[w].id, !.dirty = TRUE]
  <2>1. writer' = [writer EXCEPT ![t] = x] /\ UNCHANGED <<fileId, ready, reader>> /\ file' = file
        /\ comp' = comp /\ spare' = spare /\ read' = read
    BY Zenon, <1>3 DEF Modify
  <2>2. x.file_id = writer[t].file_id /\ x.inode = writer[t].inode
    BY DEF TypeOK, RootType, Root
  <2> HIDE DEF x
  <2>3. FilesKept
    BY Zenon, <2>1, <2>2, WriterKept
  <2>4. OpenedKept
    BY Zenon, <1>3, OpenedAfterNothing DEF Modify
  <2> QED
    BY <2>1, <2>3, <2>4, QuietStep
<1>4. ASSUME CommitTrees(w) PROVE Agree'
  <2> DEFINE x == [tx[w] EXCEPT !.pc = "saving", !.left = tx[w].trees]
  <2>1. tx' = [tx EXCEPT ![w] = x] /\ tx[w].pc # "opening"
    BY <1>4 DEF CommitTrees
  <2>2. x.trees = tx[w].trees /\ x.handle = tx[w].handle
    BY DEF TypeOK, TxType, TxRecord
  <2> HIDE DEF x
  <2>3. OpenedKept
    BY Zenon, <2>1, <2>2, OpenedAfterStep
  <2>4. FilesKept /\ comp' = comp /\ spare' = spare /\ read' = read
    BY <1>4 DEF CommitTrees, treeVars, FilesKept
  <2> QED
    BY <2>3, <2>4, QuietStep
<1>5. ASSUME LogTransaction(w) PROVE Agree'
  <2> DEFINE x == [tx[w] EXCEPT !.pc = "logged", !.left = tx[w].trees]
  <2>1. tx' = [tx EXCEPT ![w] = x] /\ tx[w].pc # "opening"
    BY <1>5 DEF LogTransaction
  <2>2. x.trees = tx[w].trees /\ x.handle = tx[w].handle
    BY DEF TypeOK, TxType, TxRecord
  <2> HIDE DEF x
  <2>3. OpenedKept
    BY Zenon, <2>1, <2>2, OpenedAfterStep
  <2>4. FilesKept /\ comp' = comp /\ spare' = spare /\ read' = read
    BY <1>5 DEF LogTransaction, treeVars, FilesKept
  <2> QED
    BY <2>3, <2>4, QuietStep
<1> QED
  BY <1>1, <1>2, <1>3, <1>4, <1>5

LEMMA QuietCommits ==
    ASSUME FilesInv, NEW e \in pool,
           \/ SaveTree(e) \/ SyncTree(e) \/ FindCompacted(e)
           \/ \E dirty \in BOOLEAN : SaveFails(e, dirty)
    PROVE  Agree'
<1> USE DEF FilesInv
<1>1. e.tree \in Trees
  BY DEF TypeOK, PoolType, PoolRecord
<1>2. ASSUME NEW dirty \in BOOLEAN, writer' = [writer EXCEPT ![e.tree].dirty = dirty],
             UNCHANGED <<fileId, ready, reader>>, \A s \in Trees : file'[s].inode = file[s].inode
      PROVE  FilesKept
  <2> DEFINE x == [writer[e.tree] EXCEPT !.dirty = dirty]
  <2>1. writer' = [writer EXCEPT ![e.tree] = x]
    BY <1>2
  <2>2. x.file_id = writer[e.tree].file_id /\ x.inode = writer[e.tree].inode
    BY <1>1 DEF TypeOK, RootType, Root
  <2> HIDE DEF x
  <2> QED
    BY Zenon, <1>1, <1>2, <2>1, <2>2, WriterKept
<1>3. ASSUME \/ file' = [file EXCEPT ![e.tree].headers = Append(@, Header(e.tree, file[e.tree].inode))]
             \/ file' = [file EXCEPT ![e.tree].synced = Len(file[e.tree].headers)]
      PROVE  \A s \in Trees : file'[s].inode = file[s].inode
  <2> DEFINE h == Append(file[e.tree].headers, Header(e.tree, file[e.tree].inode))
             n == Len(file[e.tree].headers)
  <2>1. \/ file' = [file EXCEPT ![e.tree] = [file[e.tree] EXCEPT !.headers = h]]
        \/ file' = [file EXCEPT ![e.tree] = [file[e.tree] EXCEPT !.synced = n]]
    BY <1>3
  <2> HIDE DEF h, n
  <2>2. /\ [file[e.tree] EXCEPT !.headers = h].inode = file[e.tree].inode
        /\ [file[e.tree] EXCEPT !.synced = n].inode = file[e.tree].inode
    BY <1>1 DEF TypeOK, FileType, FileRecord
  <2> QED
    BY Zenon, <1>1, <2>1, <2>2 DEF TypeOK, FileType
<1>4. CASE SaveTree(e)
  <2>1. comp' = comp /\ spare' = spare /\ read' = read /\ UNCHANGED <<fileId, ready, reader>>
    BY <1>4 DEF SaveTree
  <2>2. CASE writer[e.tree].dirty
    <3>1. /\ file' = [file EXCEPT ![e.tree].headers = Append(@, Header(e.tree, file[e.tree].inode))]
          /\ writer' = [writer EXCEPT ![e.tree].dirty = FALSE]
          /\ tx' = tx
      BY <1>4, <2>2 DEF SaveTree
    <3>2. FilesKept
      BY Zenon, <1>2, <1>3, <2>1, <3>1
    <3> QED
      BY <2>1, <3>1, <3>2, OpenedAfterNothing, QuietStep
  <2>3. CASE ~writer[e.tree].dirty
    <3>1. Finished(e) /\ UNCHANGED <<file, writer>>
      BY <1>4, <2>3 DEF SaveTree
    <3>2. FilesKept
      BY <2>1, <3>1 DEF FilesKept
    <3> QED
      BY <2>1, <3>1, <3>2, OpenedAfterResult, QuietStep
  <2> QED
    BY <2>2, <2>3
<1>5. CASE SyncTree(e)
  <2>1. comp' = comp /\ spare' = spare /\ read' = read /\ UNCHANGED <<fileId, ready, reader, writer>>
    BY <1>5 DEF SyncTree, treeVars
  <2>2. \A s \in Trees : file'[s].inode = file[s].inode
    BY <1>3, <1>5 DEF SyncTree
  <2>3. FilesKept
    BY <2>1, <2>2 DEF FilesKept
  <2>4. OpenedKept
    BY <1>5, OpenedAfterResult DEF SyncTree
  <2> QED
    BY <2>1, <2>3, <2>4, QuietStep
<1>6. CASE FindCompacted(e)
  <2>1. FilesKept /\ comp' = comp /\ spare' = spare /\ read' = read
    BY <1>6 DEF FindCompacted, Failed, FilesKept
  <2>2. OpenedKept
    BY <1>6, OpenedAfterError DEF FindCompacted
  <2> QED
    BY <2>1, <2>2, QuietStep
<1>7. ASSUME NEW dirty \in BOOLEAN, SaveFails(e, dirty) PROVE Agree'
  <2>1. /\ comp' = comp /\ spare' = spare /\ read' = read /\ UNCHANGED <<fileId, ready, reader, file>>
        /\ writer' = [writer EXCEPT ![e.tree].dirty = dirty]
    BY <1>7 DEF SaveFails, Failed
  <2>2. FilesKept
    BY Zenon, <1>2, <2>1
  <2>3. OpenedKept
    BY <1>7, OpenedAfterError DEF SaveFails
  <2> QED
    BY <2>1, <2>2, <2>3, QuietStep
<1> QED
  BY <1>4, <1>5, <1>6, <1>7

(***************************************************************************)
(* initialize_state                                                        *)
(***************************************************************************)
LEMMA InitializeFacts ==
    ASSUME TypeOK, IdsAgree, NEW t \in Trees, InitializeState(t)
    PROVE  /\ ready'[t] /\ fileId'[t] = PathId(t) /\ PathId(t) \in Nat /\ PathId(t) > 0
           /\ \A s \in Trees : s # t => /\ ready'[s] = ready[s] /\ fileId'[s] = fileId[s]
                                        /\ writer'[s] = writer[s] /\ reader'[s] = reader[s]
           /\ ready[t] => fileId'[t] = fileId[t] /\ writer'[t] = writer[t] /\ reader'[t] = reader[t]
           /\ ~ready[t] => /\ writer'[t].file_id = PathId(t) /\ reader'[t].file_id = PathId(t)
                           /\ writer'[t].inode = file[t].inode /\ reader'[t].inode = file[t].inode
<1> DEFINE root == Recovered(file[t].headers, file[t].inode, PathId(t))
<1>1. root.file_id = PathId(t) /\ root.inode = file[t].inode
  BY DEF Recovered
<1>2. PathId(t) \in Nat /\ PathId(t) > 0
  BY DEF PathId, TypeOK, IdType
<1>3. ready[t] => PathId(t) = fileId[t]
  BY DEF IdsAgree, PathId, TypeOK, IdType
<1>4. /\ fileId' = [fileId EXCEPT ![t] = PathId(t)]
      /\ ready' = [ready EXCEPT ![t] = TRUE]
      /\ writer' = [writer EXCEPT ![t] = IF ready[t] THEN writer[t] ELSE root]
      /\ reader' = [reader EXCEPT ![t] = IF ready[t] THEN reader[t] ELSE root]
  BY DEF InitializeState
<1> HIDE DEF root
<1>5. /\ fileId'[t] = PathId(t) /\ ready'[t]
      /\ writer'[t] = IF ready[t] THEN writer[t] ELSE root
      /\ reader'[t] = IF ready[t] THEN reader[t] ELSE root
  BY <1>4 DEF TypeOK, IdType, RootType
<1>6. \A s \in Trees : s # t => /\ ready'[s] = ready[s] /\ fileId'[s] = fileId[s]
                                /\ writer'[s] = writer[s] /\ reader'[s] = reader[s]
  BY <1>4 DEF TypeOK, IdType, RootType
<1> QED
  BY <1>1, <1>2, <1>3, <1>5, <1>6

LEMMA InitializeIds ==
    ASSUME TypeOK, IdsAgree, NEW t \in Trees, InitializeState(t) PROVE IdsAgree'
<1>1. ready'[t] /\ fileId'[t] = PathId(t) /\ PathId(t) > 0
  BY InitializeFacts
<1>2. \A s \in Trees : s # t => /\ ready'[s] = ready[s] /\ fileId'[s] = fileId[s]
                                /\ writer'[s] = writer[s] /\ reader'[s] = reader[s]
  BY InitializeFacts
<1>3. writer'[t].file_id = fileId'[t] /\ reader'[t].file_id = fileId'[t]
  <2>1. CASE ready[t]
    BY <1>1, <2>1, InitializeFacts DEF IdsAgree
  <2>2. CASE ~ready[t]
    BY <1>1, <2>2, InitializeFacts
  <2> QED
    BY <2>1, <2>2
<1> QED
  BY <1>1, <1>2, <1>3 DEF IdsAgree

\* A state that is initialized only now was in no compaction.
LEMMA InitializeFiles ==
    ASSUME FilesInv, NEW t \in Trees, InitializeState(t), file' = file,
           \A s \in Trees : /\ CompactionAt({"renamed"}, s)' <=> CompactionAt({"renamed"}, s)
                            /\ CompactionAt({"copied"}, s)' <=> CompactionAt({"copied"}, s)
    PROVE  FilesAgree'
<1> SUFFICES ASSUME NEW s \in Trees, ready'[s]
             PROVE  /\ ~CompactionAt({"renamed"}, s)' => reader'[s].inode = file[s].inode
                    /\ ~CompactionAt({"copied"}, s)' => writer'[s].inode = file[s].inode
  BY DEF FilesAgree
<1>1. CASE s = t /\ ~ready[t]
  BY <1>1, InitializeFacts DEF FilesInv
<1>2. CASE ~(s = t /\ ~ready[t])
  <2>1. ready[s] /\ writer'[s] = writer[s] /\ reader'[s] = reader[s]
    BY <1>2, InitializeFacts DEF FilesInv
  <2> QED
    BY <2>1 DEF FilesInv, FilesAgree
<1> QED
  BY <1>1, <1>2

\* Nothing that was opened before is initialized again.
LEMMA InitializeOthers ==
    ASSUME FilesInv, NEW t \in Trees, InitializeState(t), NEW s \in Trees, ready[s]
    PROVE  ready'[s] /\ fileId'[s] = fileId[s] /\ writer'[s] = writer[s] /\ reader'[s] = reader[s]
  BY InitializeFacts DEF FilesInv

LEMMA InitializeOpened ==
    ASSUME FilesInv, NEW t \in Trees, InitializeState(t), NEW w \in Writers, NEW s \in Opened(w)
    PROVE  ready'[s] /\ tx[w].handle[s] = [id |-> writer'[s].file_id, inode |-> writer'[s].inode]
<1>1. s \in Trees
  BY OpenedIsTree DEF FilesInv
<1>2. ready[s] /\ tx[w].handle[s] = [id |-> writer[s].file_id, inode |-> writer[s].inode]
  BY DEF FilesInv, OpenedAgree
<1> QED
  BY <1>1, <1>2, InitializeOthers

LEMMA InitializeCompactions ==
    ASSUME FilesInv, NEW t \in Trees, InitializeState(t), NEW k \in Compactors, comp[k].pc # "idle",
           file' = file
    PROVE  /\ ready'[comp[k].tree]
           /\ comp[k].pc \in {"opened", "locked", "copied"} => comp[k].inode = file'[comp[k].tree].inode
           /\ comp[k].pc = "copied" => /\ spare[comp[k].tree] = comp[k].new
                                       /\ writer'[comp[k].tree].inode = comp[k].new
<1>1. comp[k].tree \in Trees /\ ready[comp[k].tree]
  BY DEF FilesInv, TypeOK, CompType, CompactionsAgree
<1>2. ready'[comp[k].tree] /\ writer'[comp[k].tree] = writer[comp[k].tree]
  BY <1>1, InitializeOthers
<1> QED
  BY <1>2 DEF FilesInv, CompactionsAgree

\* What ReadsAgree says of one read.
ReadAgrees(x) ==
    /\ x.pc # "idle" => x.handle.id <= fileId[x.tree]
    /\ x.pc = "retry" => x.handle.id < fileId[x.tree]
    /\ x.pc = "opened" => /\ ready[x.tree]
                          /\ ~x.early /\ fileId[x.tree] = x.handle.id
                             => x.handle.inode = reader[x.tree].inode

LEMMA ReadsAgreeEach == ReadsAgree <=> \A r \in Readers : ReadAgrees(read[r])
  BY DEF ReadsAgree, ReadAgrees

LEMMA InitializeReads ==
    ASSUME FilesInv, NEW t \in Trees, InitializeState(t), NEW r \in Readers, read'[r] = read[r]
    PROVE  ReadAgrees(read[r])'
<1>1. ReadAgrees(read[r])
  BY ReadsAgreeEach DEF FilesInv
<1>2. CASE read[r].pc = "idle"
  BY <1>2 DEF ReadAgrees
<1>3. CASE read[r].pc # "idle"
  <2>1. read[r].tree \in Trees /\ read[r].handle.id \in Nat
    BY <1>3 DEF FilesInv, TypeOK, ReadType, ReadRecord, Handle
  <2>2. fileId'[read[r].tree] \in Nat /\ fileId'[read[r].tree] >= fileId[read[r].tree]
        /\ fileId[read[r].tree] \in Nat
    <3>1. fileId[read[r].tree] \in Nat /\ TypeOK /\ IdsAgree
      BY <2>1 DEF FilesInv, TypeOK, IdType
    <3>2. CASE read[r].tree # t
      <4>1. fileId'[read[r].tree] = fileId[read[r].tree]
        BY <2>1, <3>1, <3>2, InitializeFacts
      <4> QED
        BY <3>1, <4>1
    <3>3. CASE read[r].tree = t
      <4>1. fileId'[t] = PathId(t)
        BY <3>1, InitializeFacts
      <4>2. PathId(t) = fileId[t] \/ (fileId[t] = 0 /\ PathId(t) = 1)
        BY DEF PathId
      <4> QED
        BY <3>1, <3>3, <4>1, <4>2
    <3> QED
      BY <3>1, <3>2, <3>3
  <2>3. ready[read[r].tree] => /\ ready'[read[r].tree] /\ fileId'[read[r].tree] = fileId[read[r].tree]
                               /\ reader'[read[r].tree] = reader[read[r].tree]
    BY <2>1, InitializeOthers
  <2> QED
    <3>1. \A i, m, n \in Nat : n >= m => (i <= m => i <= n) /\ (i < m => i < n)
      OBVIOUS
    <3>2. /\ read[r].handle.id <= fileId'[read[r].tree]
          /\ read[r].pc = "retry" => read[r].handle.id < fileId'[read[r].tree]
      BY <1>1, <1>3, <2>1, <2>2, <3>1 DEF ReadAgrees
    <3>3. read[r].pc = "opened" =>
            /\ ready'[read[r].tree]
            /\ ~read[r].early /\ fileId'[read[r].tree] = read[r].handle.id
               => read[r].handle.inode = reader'[read[r].tree].inode
      BY <1>1, <2>3 DEF ReadAgrees
    <3> QED
      BY <3>2, <3>3 DEF ReadAgrees
<1> QED
  BY <1>2, <1>3

(***************************************************************************)
(* The other steps                                                         *)
(***************************************************************************)
LEMMA OpenAgree ==
    ASSUME FilesInv, NEW w \in Writers, NEW t \in Trees, Open(w, t) PROVE Agree'
<1> DEFINE x == [tx[w] EXCEPT !.left = tx[w].left \ {t},
                              !.pc = IF tx[w].left = {t} THEN "open" ELSE "opening",
                              !.handle = [tx[w].handle EXCEPT ![t] = HandleNow(t)]]
<1>1. /\ InitializeState(t) /\ tx' = [tx EXCEPT ![w] = x] /\ tx[w].pc = "opening" /\ t \in tx[w].left
      /\ UNCHANGED <<file, spare, comp, read>>
  BY DEF Open
<1>2. IdsAgree'
  BY <1>1, InitializeIds DEF FilesInv
<1>3. FilesAgree'
  BY <1>1, InitializeFiles DEF CompactionAt
<1>4. CompactionsAgree'
  BY <1>1, InitializeCompactions DEF CompactionsAgree
<1>5. ReadsAgree'
  <2>1. \A r \in Readers : ReadAgrees(read[r])'
    BY <1>1, InitializeReads
  <2> QED
    BY <2>1 DEF ReadsAgree, ReadAgrees
<1>6. OpenedAgree'
  <2>1. t \in tx[w].trees /\ tx[w] \in TxRecord
    BY <1>1 DEF FilesInv, LocksHeld, TypeOK, TxType
  <2>2. /\ x.trees = tx[w].trees /\ x.left = tx[w].left \ {t} /\ x.handle[t] = HandleNow(t)
        /\ \A s \in Trees : s # t => x.handle[s] = tx[w].handle[s]
        /\ x.pc # "opening" => x.left = {}
    BY <2>1 DEF TxRecord
  <2> HIDE DEF x
  <2>3. tx'[w] = x /\ \A v \in Writers : v # w => tx'[v] = tx[v]
    BY <1>1 DEF FilesInv, TypeOK, TxType
  <2>4. ready'[t] /\ HandleNow(t) = [id |-> writer'[t].file_id, inode |-> writer'[t].inode]
    <3>1. ready'[t] /\ fileId'[t] = PathId(t) /\ writer'[t].file_id = fileId'[t]
      BY <1>1, <1>2, InitializeFacts DEF FilesInv, IdsAgree
    <3>2. ~CompactionAt({"copied"}, t)'
      <4>1. ~CompactionAt({"copied"}, t)
        BY <2>1, NotCompacted DEF FilesInv, CompactionAt
      <4> QED
        BY <1>1, <4>1 DEF CompactionAt
    <3>3. writer'[t].inode = file[t].inode
      BY Zenon, <1>1, <1>3, <3>1, <3>2 DEF FilesAgree
    <3> QED
      BY <3>1, <3>3 DEF HandleNow
  <2> SUFFICES ASSUME NEW v \in Writers, NEW s \in Opened(v)'
               PROVE  ready'[s] /\ tx'[v].handle[s] = [id |-> writer'[s].file_id, inode |-> writer'[s].inode]
    BY Zenon DEF OpenedAgree
  <2>5. CASE v # w
    <3>1. s \in Opened(v) /\ tx'[v] = tx[v]
      BY <2>3, <2>5 DEF Opened
    <3> QED
      BY <1>1, <3>1, InitializeOpened
  <2>6. CASE v = w /\ s = t
    BY <2>2, <2>3, <2>4, <2>6
  <2>7. CASE v = w /\ s # t
    <3>1. s \in tx[w].trees /\ s \notin tx[w].left
      BY <2>2, <2>3, <2>7 DEF Opened
    <3>2. s \in Opened(w)
      BY <3>1 DEF Opened
    <3>3. tx'[w].handle[s] = tx[w].handle[s]
      BY <2>1, <2>2, <2>3, <2>7, <3>1 DEF TxRecord
    <3> QED
      BY <1>1, <2>7, <3>2, <3>3, InitializeOpened
  <2> QED
    BY <2>5, <2>6, <2>7
<1> QED
  BY <1>2, <1>3, <1>4, <1>5, <1>6 DEF Agree

\* rollback takes the roots of the readers, which are for the same file.
LEMMA RollbackAgree ==
    ASSUME FilesInv, NEW w \in Writers, Rollback(w) PROVE Agree'
<1>1. /\ tx' = [tx EXCEPT ![w] = Idle] /\ UNCHANGED <<file, spare, comp, read, fileId, ready, reader>>
      /\ tx[w].pc = "open"
  BY DEF Rollback
<1>2. \A t \in Trees : writer'[t].file_id = writer[t].file_id /\ writer'[t].inode = writer[t].inode
  <2> TAKE t \in Trees
  <2>1. CASE t \notin tx[w].trees
    BY <2>1 DEF Rollback
  <2>2. CASE t \in tx[w].trees
    <3>1. writer'[t] = [reader[t] EXCEPT !.file_id = writer[t].file_id]
      BY <2>2 DEF Rollback
    <3>2. writer'[t].file_id = writer[t].file_id /\ writer'[t].inode = reader[t].inode
      BY <3>1 DEF FilesInv, TypeOK, RootType, Root
    <3>3. ~CompactionAt({"copied"}, t) /\ ~CompactionAt({"renamed"}, t)
      BY <2>2, NotCompacted DEF FilesInv, CompactionAt
    <3>4. ready[t]
      <4>1. t \in Opened(w)
        BY <1>1, <2>2 DEF Opened
      <4> QED
        BY Zenon, <4>1 DEF FilesInv, OpenedAgree
    <3>5. reader[t].inode = file[t].inode /\ writer[t].inode = file[t].inode
      BY <3>3, <3>4 DEF FilesInv, FilesAgree
    <3> QED
      BY <3>2, <3>5
  <2> QED
    BY <2>1, <2>2
<1>3. FilesKept
  BY <1>1, <1>2 DEF FilesKept
<1>4. OpenedKept
  BY Zenon, <1>1, OpenedAfterEnd DEF FilesInv
<1> QED
  BY <1>1, <1>3, <1>4, QuietStep

\* publish gives the readers the write state, which is for the same file.
LEMMA PublishAgree ==
    ASSUME FilesInv, NEW w \in Writers, NEW t \in Trees, Publish(w, t) PROVE Agree'
<1>1. /\ tx[w].pc = "logged" /\ t \in tx[w].left /\ reader' = [reader EXCEPT ![t] = writer[t]]
      /\ UNCHANGED <<file, spare, comp, read, fileId, ready, writer>>
  BY DEF Publish
<1>2. t \in tx[w].trees
  BY <1>1 DEF FilesInv, LocksHeld
<1>3. ~CompactionAt({"copied"}, t) /\ ~CompactionAt({"renamed"}, t)
  BY <1>2, NotCompacted DEF FilesInv, CompactionAt
<1>4. ready[t]
  <2>1. t \in Opened(w)
    BY <1>1, <1>2 DEF Opened
  <2> QED
    BY Zenon, <2>1 DEF FilesInv, OpenedAgree
<1>5. reader[t].inode = writer[t].inode /\ reader[t].file_id = writer[t].file_id
  BY <1>3, <1>4 DEF FilesInv, FilesAgree, IdsAgree
<1>6. reader'[t] = writer[t] /\ \A s \in Trees : s # t => reader'[s] = reader[s]
  BY <1>1 DEF FilesInv, TypeOK, RootType
<1>7. FilesKept
  BY <1>1, <1>5, <1>6 DEF FilesKept
<1>8. OpenedKept
  <2>1. CASE tx[w].left = {t}
    BY <2>1, OpenedAfterEnd DEF Publish, FilesInv
  <2>2. CASE tx[w].left # {t}
    <3> DEFINE x == [tx[w] EXCEPT !.left = tx[w].left \ {t}]
    <3>1. tx' = [tx EXCEPT ![w] = x]
      BY <2>2 DEF Publish
    <3>2. x.trees = tx[w].trees /\ x.handle = tx[w].handle
      BY DEF FilesInv, TypeOK, TxType, TxRecord
    <3> HIDE DEF x
    <3> QED
      BY Zenon, <1>1, <3>1, <3>2, OpenedAfterStep DEF FilesInv
  <2> QED
    BY <2>1, <2>2
<1> QED
  BY <1>1, <1>7, <1>8, QuietStep

LEMMA OpenCompactionAgree ==
    ASSUME FilesInv, OneCompactor, NEW k \in Compactors, NEW t \in Trees, OpenCompaction(k, t)
    PROVE  Agree'
<1> DEFINE x == [pc |-> "opened", tree |-> t, id |-> 0, inode |-> file[t].inode, new |-> used.inodes + 1]
<1>1. /\ InitializeState(t) /\ comp[k].pc = "idle" /\ comp' = [comp EXCEPT ![k] = x]
      /\ UNCHANGED <<file, tx, read>>
  BY DEF OpenCompaction
<1>2. x.pc = "opened" /\ x.tree = t /\ x.inode = file[t].inode
  OBVIOUS
<1> HIDE DEF x
<1>3. comp'[k] = x /\ \A l \in Compactors : l = k
  BY <1>1 DEF FilesInv, TypeOK, CompType, OneCompactor
<1>4. IdsAgree'
  BY <1>1, InitializeIds DEF FilesInv
<1>5. FilesAgree'
  <2>1. \A s \in Trees : /\ CompactionAt({"renamed"}, s)' <=> CompactionAt({"renamed"}, s)
                         /\ CompactionAt({"copied"}, s)' <=> CompactionAt({"copied"}, s)
    BY <1>1, <1>2, <1>3 DEF CompactionAt
  <2> QED
    BY <1>1, <2>1, InitializeFiles
<1>6. CompactionsAgree'
  <2>1. ready'[t]
    BY <1>1, InitializeFacts DEF FilesInv
  <2> QED
    BY <1>1, <1>2, <1>3, <2>1 DEF CompactionsAgree
<1>7. OpenedAgree'
  BY Zenon, <1>1, InitializeOpened DEF OpenedAgree, Opened
<1>8. ReadsAgree'
  <2>1. \A r \in Readers : ReadAgrees(read[r])'
    BY <1>1, InitializeReads
  <2> QED
    BY <2>1 DEF ReadsAgree, ReadAgrees
<1> QED
  BY <1>4, <1>5, <1>6, <1>7, <1>8 DEF Agree

LEMMA LockCompactionAgree ==
    ASSUME FilesInv, OneCompactor, NEW k \in Compactors, LockCompaction(k) PROVE Agree'
<1> DEFINE x == [comp[k] EXCEPT !.pc = "locked", !.id = nextId]
<1>1. /\ comp[k].pc = "opened" /\ comp' = [comp EXCEPT ![k] = x]
      /\ UNCHANGED <<file, tx, read, spare, fileId, ready, writer, reader>>
  BY DEF LockCompaction, treeVars
<1>2. x.pc = "locked" /\ x.tree = comp[k].tree /\ x.inode = comp[k].inode
  BY DEF FilesInv, TypeOK, CompType, CompRecord
<1> HIDE DEF x
<1>3. comp'[k] = x /\ \A l \in Compactors : l = k
  BY <1>1 DEF FilesInv, TypeOK, CompType, OneCompactor
<1>4. FilesKept
  BY <1>1 DEF FilesKept
<1>5. IdsAgree' /\ ReadsAgree'
  BY <1>1, <1>4, QuietIds, QuietReads DEF FilesInv
<1>6. OpenedAgree'
  BY <1>1, <1>4, QuietOpened, OpenedAfterNothing DEF FilesInv
<1>7. FilesAgree'
  <2>1. \A s \in Trees : /\ CompactionAt({"renamed"}, s)' <=> CompactionAt({"renamed"}, s)
                         /\ CompactionAt({"copied"}, s)' <=> CompactionAt({"copied"}, s)
    BY <1>1, <1>2, <1>3 DEF CompactionAt
  <2> QED
    BY Zenon, <1>1, <2>1 DEF FilesInv, FilesAgree
<1>8. CompactionsAgree'
  <2>1. ready[comp[k].tree] /\ comp[k].inode = file[comp[k].tree].inode
    BY <1>1 DEF FilesInv, CompactionsAgree
  <2>2. ready'[comp'[k].tree] /\ comp'[k].inode = file'[comp'[k].tree].inode /\ comp'[k].pc = "locked"
    BY <1>1, <1>2, <1>3, <2>1
  <2> QED
    BY Zenon, <1>3, <2>2 DEF CompactionsAgree
<1> QED
  BY <1>5, <1>6, <1>7, <1>8 DEF Agree

\* No transaction has opened the tree of a compaction that has its lock.
LEMMA NotOpened ==
    ASSUME FilesInv, NEW k \in Compactors, comp[k].pc \in {"locked", "copied", "renamed"},
           NEW w \in Writers, NEW t \in Opened(w)
    PROVE  t # comp[k].tree /\ t \in Trees
  BY NotCompacted, OpenedIsTree DEF FilesInv

LEMMA CopyAgree ==
    ASSUME FilesInv, OneCompactor, NEW k \in Compactors, Copy(k) PROVE Agree'
<1> DEFINE t == comp[k].tree
           root == [writer[t] EXCEPT !.dirty = FALSE,
                                     !.inode = IF comp[k].inode = writer[t].inode THEN comp[k].new ELSE 0]
           x == [comp[k] EXCEPT !.pc = "copied"]
<1>1. /\ comp[k].pc = "locked" /\ comp' = [comp EXCEPT ![k] = x]
      /\ writer' = [writer EXCEPT ![t] = root] /\ spare' = [spare EXCEPT ![t] = comp[k].new]
      /\ UNCHANGED <<file, tx, read, fileId, ready, reader>>
  BY DEF Copy
<1>2. t \in Trees /\ ready[t] /\ comp[k].inode = file[t].inode
  BY <1>1 DEF FilesInv, TypeOK, CompType, CompactionsAgree
<1>3. \A l \in Compactors : l = k
  BY DEF OneCompactor
<1>4. comp[k].inode = writer[t].inode
  BY <1>1, <1>2, <1>3 DEF FilesInv, FilesAgree, CompactionAt
<1>5. root.inode = comp[k].new /\ root.file_id = writer[t].file_id
  BY <1>2, <1>4 DEF FilesInv, TypeOK, RootType, Root
<1>6. x.pc = "copied" /\ x.tree = t /\ x.inode = comp[k].inode /\ x.new = comp[k].new
  BY DEF FilesInv, TypeOK, CompType, CompRecord
<1> HIDE DEF root, x
<1>7. /\ comp'[k] = x /\ spare'[t] = comp[k].new /\ writer'[t] = root
      /\ \A s \in Trees : s # t => writer'[s] = writer[s]
  BY <1>1, <1>2 DEF FilesInv, TypeOK, CompType, RootType, FileType
<1>8. IdsAgree'
  <2>1. \A s \in Trees : writer'[s].file_id = writer[s].file_id
    BY <1>5, <1>7
  <2>2. IdsAgree
    BY DEF FilesInv
  <2> QED
    BY Zenon, <1>1, <2>1, <2>2 DEF IdsAgree
<1>9. FilesAgree'
  <2>1. \A s \in Trees : CompactionAt({"renamed"}, s)' <=> CompactionAt({"renamed"}, s)
    BY <1>1, <1>3, <1>6, <1>7 DEF CompactionAt
  <2>2. \A s \in Trees : s # t => (CompactionAt({"copied"}, s)' <=> CompactionAt({"copied"}, s))
    BY <1>1, <1>3, <1>6, <1>7 DEF CompactionAt
  <2> SUFFICES ASSUME NEW s \in Trees, ready[s]
               PROVE  /\ ~CompactionAt({"renamed"}, s)' => reader[s].inode = file[s].inode
                      /\ ~CompactionAt({"copied"}, s)' => writer'[s].inode = file[s].inode
    BY Zenon, <1>1 DEF FilesAgree
  <2>4. ~CompactionAt({"renamed"}, s)' => reader[s].inode = file[s].inode
    BY <2>1 DEF FilesInv, FilesAgree
  <2>5. CASE s = t
    <3>1. CompactionAt({"copied"}, s)'
      BY <1>6, <1>7, <2>5 DEF CompactionAt
    <3> QED
      BY <2>4, <3>1
  <2>6. CASE s # t
    <3>1. ~CompactionAt({"copied"}, s)' => writer[s].inode = file[s].inode
      BY <2>2, <2>6 DEF FilesInv, FilesAgree
    <3> QED
      BY <1>7, <2>4, <2>6, <3>1
  <2> QED
    BY <2>5, <2>6
<1>10. CompactionsAgree'
  <2>1. /\ ready'[comp'[k].tree] /\ comp'[k].inode = file'[comp'[k].tree].inode
        /\ spare'[comp'[k].tree] = comp'[k].new /\ writer'[comp'[k].tree].inode = comp'[k].new
    <3>1. comp'[k].tree = t /\ comp'[k].inode = comp[k].inode /\ comp'[k].new = comp[k].new
      BY <1>6, <1>7
    <3>2. writer'[t].inode = comp[k].new /\ ready'[t] /\ file' = file
      BY <1>1, <1>2, <1>5, <1>7
    <3> QED
      BY Zenon, <1>2, <1>7, <3>1, <3>2
  <2> QED
    BY <1>3, <2>1 DEF CompactionsAgree
<1>11. OpenedAgree'
  <2> SUFFICES ASSUME NEW w \in Writers, NEW s \in Opened(w)
               PROVE  ready[s] /\ tx[w].handle[s] = [id |-> writer'[s].file_id, inode |-> writer'[s].inode]
    BY <1>1 DEF OpenedAgree, Opened
  <2>1. s # t /\ s \in Trees
    BY <1>1, NotOpened
  <2> QED
    BY <1>7, <2>1 DEF FilesInv, OpenedAgree
<1>12. ReadsAgree'
  BY <1>1 DEF FilesInv, ReadsAgree
<1> QED
  BY <1>8, <1>9, <1>10, <1>11, <1>12 DEF Agree

\* The new file takes the path, and the write state is for it already.
LEMMA RenameAgree ==
    ASSUME FilesInv, OneCompactor, NEW k \in Compactors, Rename(k) PROVE Agree'
<1> DEFINE t == comp[k].tree
           f == [inode |-> comp[k].new, torn |-> FALSE, synced |-> 1,
                 headers |-> <<Header(t, comp[k].new)>>]
           x == [comp[k] EXCEPT !.pc = "renamed"]
<1>1. comp[k].pc = "copied" /\ UNCHANGED <<tx, read, fileId, ready, writer, reader>>
  BY DEF Rename, treeVars
<1>2. t \in Trees /\ ready[t] /\ spare[t] = comp[k].new /\ writer[t].inode = comp[k].new
  BY Zenon, <1>1 DEF FilesInv, TypeOK, CompType, CompactionsAgree
<1>3. file' = [file EXCEPT ![t] = f] /\ comp' = [comp EXCEPT ![k] = x]
  BY <1>2 DEF Rename
<1>4. f.inode = comp[k].new
  OBVIOUS
<1>5. x.pc = "renamed" /\ x.tree = t
  BY DEF FilesInv, TypeOK, CompType, CompRecord
<1> HIDE DEF f, x
<1>6. comp'[k] = x /\ file'[t] = f /\ \A s \in Trees : s # t => file'[s] = file[s]
  BY <1>2, <1>3 DEF FilesInv, TypeOK, CompType, FileType
<1>7. \A l \in Compactors : l = k
  BY DEF OneCompactor
<1>8. IdsAgree' /\ ReadsAgree'
  BY <1>1 DEF FilesInv, IdsAgree, ReadsAgree
<1>9. FilesAgree'
  <2>1. \A s \in Trees : s # t => /\ CompactionAt({"renamed"}, s)' <=> CompactionAt({"renamed"}, s)
                                  /\ CompactionAt({"copied"}, s)' <=> CompactionAt({"copied"}, s)
    BY <1>1, <1>5, <1>6, <1>7 DEF CompactionAt
  <2> SUFFICES ASSUME NEW s \in Trees, ready[s]
               PROVE  /\ ~CompactionAt({"renamed"}, s)' => reader[s].inode = file'[s].inode
                      /\ ~CompactionAt({"copied"}, s)' => writer[s].inode = file'[s].inode
    BY <1>1 DEF FilesAgree
  <2>3. CASE s = t
    <3>1. CompactionAt({"renamed"}, s)'
      BY <1>5, <1>6, <2>3 DEF CompactionAt
    <3>2. writer[s].inode = file'[s].inode
      BY <1>2, <1>4, <1>6, <2>3
    <3> QED
      BY <3>1, <3>2
  <2>4. CASE s # t
    BY <1>6, <2>1, <2>4 DEF FilesInv, FilesAgree
  <2> QED
    BY <2>3, <2>4
<1>10. CompactionsAgree'
  BY <1>1, <1>2, <1>5, <1>6, <1>7 DEF CompactionsAgree
<1>11. OpenedAgree'
  BY <1>1 DEF FilesInv, OpenedAgree, Opened
<1> QED
  BY <1>8, <1>9, <1>10, <1>11 DEF Agree

\* close_handles: nothing opened before passes the check of the file id any more.
LEMMA FinishAgree ==
    ASSUME FilesInv, OneCompactor, NEW k \in Compactors, Finish(k) PROVE Agree'
<1> DEFINE t == comp[k].tree
           root == [writer[t] EXCEPT !.file_id = fileId[t] + 1]
<1>1. /\ comp[k].pc = "renamed" /\ UNCHANGED <<file, tx, read, ready>>
      /\ fileId' = [fileId EXCEPT ![t] = fileId[t] + 1] /\ comp' = [comp EXCEPT ![k] = NotCompacting]
  BY DEF Finish
<1>2. t \in Trees /\ ready[t] /\ fileId \in [Trees -> Nat]
  BY <1>1 DEF FilesInv, TypeOK, CompType, CompactionsAgree, IdType
<1>3. fileId'[t] = fileId[t] + 1 /\ \A s \in Trees : s # t => fileId'[s] = fileId[s]
  BY <1>1, <1>2
<1>4. writer' = [writer EXCEPT ![t] = root]
  BY Zenon, <1>3 DEF Finish
<1>5. root.file_id = fileId[t] + 1 /\ root.inode = writer[t].inode
  BY <1>2 DEF FilesInv, TypeOK, RootType, Root
<1> HIDE DEF root
<1>6. writer'[t] = root /\ \A s \in Trees : s # t => writer'[s] = writer[s]
  BY <1>2, <1>4 DEF FilesInv, TypeOK, RootType
<1>7. reader' = [reader EXCEPT ![t] = root]
  BY Zenon, <1>6 DEF Finish
<1>8. reader'[t] = root /\ \A s \in Trees : s # t => reader'[s] = reader[s]
  BY <1>2, <1>7 DEF FilesInv, TypeOK, RootType
<1>9. \A l \in Compactors : l = k
  BY DEF OneCompactor
<1>10. comp'[k].pc = "idle"
  BY <1>1 DEF FilesInv, TypeOK, CompType, NotCompacting
<1>11. IdsAgree'
  <2>1. fileId'[t] > 0 /\ writer'[t].file_id = fileId'[t] /\ reader'[t].file_id = fileId'[t]
    BY <1>2, <1>3, <1>5, <1>6, <1>8
  <2>2. \A s \in Trees : s # t =>
            fileId'[s] = fileId[s] /\ writer'[s] = writer[s] /\ reader'[s] = reader[s]
    BY <1>3, <1>6, <1>8
  <2>3. IdsAgree
    BY DEF FilesInv
  <2> SUFFICES ASSUME NEW s \in Trees
               PROVE  IF ready[s] THEN fileId'[s] > 0 /\ writer'[s].file_id = fileId'[s]
                                       /\ reader'[s].file_id = fileId'[s]
                      ELSE fileId'[s] \in {0, 1}
    BY <1>1 DEF IdsAgree
  <2>4. CASE s = t
    BY <1>2, <2>1, <2>4
  <2>5. CASE s # t
    BY <2>2, <2>3, <2>5 DEF IdsAgree
  <2> QED
    BY <2>4, <2>5
<1>12. FilesAgree'
  <2>1. \A s \in Trees : s # t => ~CompactionAt({"renamed"}, s) /\ ~CompactionAt({"copied"}, s)
    BY <1>9 DEF CompactionAt
  <2>2. ~CompactionAt({"copied"}, t)
    BY <1>1, <1>9 DEF CompactionAt
  <2>3. writer[t].inode = file[t].inode
    BY <1>2, <2>2 DEF FilesInv, FilesAgree
  <2> QED
    BY Zenon, <1>1, <1>5, <1>6, <1>8, <2>1, <2>3 DEF FilesInv, FilesAgree
<1>13. CompactionsAgree'
  BY <1>9, <1>10 DEF CompactionsAgree
<1>14. OpenedAgree'
  <2> SUFFICES ASSUME NEW w \in Writers, NEW s \in Opened(w)
               PROVE  ready[s] /\ tx[w].handle[s] = [id |-> writer'[s].file_id, inode |-> writer'[s].inode]
    BY Zenon, <1>1 DEF OpenedAgree, Opened
  <2>1. s # t /\ s \in Trees
    BY <1>1, NotOpened
  <2> QED
    BY <1>6, <2>1 DEF FilesInv, OpenedAgree
<1>15. ReadsAgree'
  <2> SUFFICES ASSUME NEW r \in Readers PROVE ReadAgrees(read[r])'
    BY DEF ReadsAgree, ReadAgrees
  <2>1. ReadAgrees(read[r])
    BY Zenon DEF FilesInv, ReadsAgree, ReadAgrees
  <2>2. CASE read[r].pc = "idle"
    BY <1>1, <2>2 DEF ReadAgrees
  <2>3. CASE read[r].pc # "idle"
    <3>1. read[r].tree \in Trees /\ read[r].handle.id \in Nat
      BY <2>3 DEF FilesInv, TypeOK, ReadType, ReadRecord, Handle
    <3>2. CASE read[r].tree = t
      <4>1. /\ read[r].handle.id <= fileId[read[r].tree] /\ fileId[read[r].tree] \in Nat
            /\ fileId'[read[r].tree] = fileId[read[r].tree] + 1
        BY Zenon, <1>2, <1>3, <2>1, <2>3, <3>2 DEF ReadAgrees
      <4>2. \A i, n \in Nat : i <= n => i < n + 1 /\ i # n + 1 /\ i <= n + 1
        OBVIOUS
      <4> DEFINE i == read[r].handle.id
                 n == fileId[read[r].tree]
      <4>3. i \in Nat /\ n \in Nat /\ i <= n
        BY Zenon, <3>1, <4>1
      <4>4. i < n + 1 /\ i # n + 1 /\ i <= n + 1
        BY Zenon, <4>2, <4>3
      <4>5. read[r].handle.id < fileId'[read[r].tree] /\ read[r].handle.id # fileId'[read[r].tree]
            /\ read[r].handle.id <= fileId'[read[r].tree]
        BY Zenon, <4>1, <4>4
      <4> QED
        BY <1>1, <1>2, <3>2, <4>5 DEF ReadAgrees
    <3>3. CASE read[r].tree # t
      BY Zenon, <1>1, <1>3, <1>8, <2>1, <2>3, <3>1, <3>3 DEF ReadAgrees
    <3> QED
      BY <3>2, <3>3
  <2> QED
    BY <2>2, <2>3
<1> QED
  BY <1>11, <1>12, <1>13, <1>14, <1>15 DEF Agree

LEMMA FindFileAgree ==
    ASSUME FilesInv, NEW r \in Readers, NEW t \in Trees, FindFile(r, t) PROVE Agree'
<1> DEFINE x == [pc |-> "found", tree |-> t, early |-> FALSE, handle |-> [id |-> PathId(t), inode |-> 0]]
<1>1. /\ fileId' = [fileId EXCEPT ![t] = PathId(t)] /\ read' = [read EXCEPT ![r] = x]
      /\ UNCHANGED <<file, spare, ready, writer, reader, tx, comp>>
  BY DEF FindFile
<1>2. x.pc = "found" /\ x.tree = t /\ x.handle.id = PathId(t)
  OBVIOUS
<1> HIDE DEF x
<1>3. /\ PathId(t) \in Nat /\ PathId(t) >= fileId[t] /\ (ready[t] => PathId(t) = fileId[t])
      /\ fileId \in [Trees -> Nat] /\ (~ready[t] => PathId(t) \in {0, 1})
  <2>1. PathId(t) = fileId[t] \/ (fileId[t] = 0 /\ PathId(t) = 1)
    BY DEF PathId
  <2>2. fileId \in [Trees -> Nat] /\ (ready[t] => fileId[t] # 0) /\ (~ready[t] => fileId[t] \in {0, 1})
    BY DEF FilesInv, TypeOK, IdType, IdsAgree
  <2> QED
    BY <2>1, <2>2
<1>4. fileId'[t] = PathId(t) /\ \A s \in Trees : s # t => fileId'[s] = fileId[s]
  BY <1>1, <1>3
<1>5. read'[r] = x /\ \A q \in Readers : q # r => read'[q] = read[q]
  BY <1>1 DEF FilesInv, TypeOK, ReadType
<1>6. IdsAgree'
  BY <1>1, <1>3, <1>4 DEF FilesInv, IdsAgree
<1>7. FilesAgree' /\ CompactionsAgree' /\ OpenedAgree'
  BY Zenon, <1>1 DEF FilesInv, FilesAgree, CompactionsAgree, OpenedAgree, CompactionAt, Opened
<1>8. ReadsAgree'
  <2> SUFFICES ASSUME NEW q \in Readers PROVE ReadAgrees(read[q])'
    BY Zenon DEF ReadsAgree, ReadAgrees
  <2>1. CASE q = r
    <3>1. read'[q].pc = "found" /\ read'[q].handle.id <= fileId'[read'[q].tree]
      BY <1>2, <1>3, <1>4, <1>5, <2>1
    <3> QED
      BY <3>1 DEF ReadAgrees
  <2>2. CASE q # r
    <3>1. ReadAgrees(read[q]) /\ read'[q] = read[q]
      BY <1>5, <2>2 DEF FilesInv, ReadsAgree, ReadAgrees
    <3>2. CASE read[q].pc = "idle"
      BY Zenon, <3>1, <3>2 DEF ReadAgrees
    <3>3. CASE read[q].pc # "idle"
      <4>1. read[q].tree \in Trees /\ read[q].handle.id \in Nat
        BY <3>3 DEF FilesInv, TypeOK, ReadType, ReadRecord, Handle
      <4>2. CASE read[q].tree = t
        <5>1. /\ read[q].handle.id <= fileId[t] /\ fileId[t] \in Nat
              /\ read[q].pc = "retry" => read[q].handle.id < fileId[t]
          BY Zenon, <1>3, <3>1, <3>3, <4>2 DEF ReadAgrees
        <5>2. /\ read[q].handle.id <= fileId'[t]
              /\ read[q].pc = "retry" => read[q].handle.id < fileId'[t]
          BY <1>3, <1>4, <4>1, <5>1
        <5>3. read[q].pc = "opened" => ready[t] /\ fileId'[t] = fileId[t]
          BY <1>3, <1>4, <3>1, <4>2 DEF ReadAgrees
        <5> QED
          BY Zenon, <1>1, <3>1, <4>2, <5>2, <5>3 DEF ReadAgrees
      <4>3. CASE read[q].tree # t
        BY Zenon, <1>1, <1>4, <3>1, <3>3, <4>1, <4>3 DEF ReadAgrees
      <4> QED
        BY <4>2, <4>3
    <3> QED
      BY <3>2, <3>3
  <2> QED
    BY <2>1, <2>2
<1> QED
  BY <1>6, <1>7, <1>8 DEF Agree

\* The file that is opened is the one of the read state, unless it is early.
LEMMA OpenFileAgree ==
    ASSUME FilesInv, NEW r \in Readers, OpenFile(r) PROVE Agree'
<1> DEFINE t == read[r].tree
           h == [id |-> read[r].handle.id, inode |-> file[t].inode]
           early == \E k \in Compactors : comp[k].tree = t /\ comp[k].pc = "renamed"
           x == [read[r] EXCEPT !.pc = "opened", !.handle = h, !.early = early]
<1>1. /\ InitializeState(t) /\ read[r].pc = "found" /\ read' = [read EXCEPT ![r] = x]
      /\ UNCHANGED <<file, spare, tx, comp>>
  BY DEF OpenFile
<1>2. t \in Trees /\ read[r] \in ReadRecord /\ read[r].handle.id \in Nat
  BY <1>1 DEF FilesInv, TypeOK, ReadType, ReadRecord, Handle
<1>3. /\ x.pc = "opened" /\ x.tree = t /\ x.early = early
      /\ x.handle.id = read[r].handle.id /\ x.handle.inode = file[t].inode
  BY <1>2 DEF ReadRecord
<1>4. early <=> CompactionAt({"renamed"}, t)
  BY DEF CompactionAt
<1> HIDE DEF x, early
<1>5. read'[r] = x /\ \A q \in Readers : q # r => read'[q] = read[q]
  BY <1>1 DEF FilesInv, TypeOK, ReadType
<1>6. IdsAgree'
  BY <1>1, <1>2, InitializeIds DEF FilesInv
<1>7. FilesAgree'
  BY <1>1, <1>2, InitializeFiles DEF CompactionAt
<1>8. CompactionsAgree'
  BY Zenon, <1>1, <1>2, InitializeCompactions DEF CompactionsAgree
<1>9. OpenedAgree'
  BY Zenon, <1>1, <1>2, InitializeOpened DEF OpenedAgree, Opened
<1>10. ReadsAgree'
  <2> SUFFICES ASSUME NEW q \in Readers PROVE ReadAgrees(read[q])'
    BY DEF ReadsAgree, ReadAgrees
  <2>1. CASE q = r
    <3>1. ready'[t] /\ fileId'[t] = PathId(t)
      BY Zenon, <1>1, <1>2, InitializeFacts DEF FilesInv
    <3>2. read[r].handle.id <= fileId'[t]
      <4>1. read[r].handle.id <= fileId[t] /\ fileId[t] \in Nat
        BY Zenon, <1>1, <1>2 DEF FilesInv, ReadsAgree, TypeOK, IdType
      <4> QED
        <5>1. PathId(t) = fileId[t] \/ (fileId[t] = 0 /\ PathId(t) = 1)
          BY DEF PathId
        <5> QED
          BY <1>2, <3>1, <4>1, <5>1
    <3>3. ~early => reader'[t].inode = file[t].inode
      <4>1. ASSUME NEW s \in Trees, s = t, ~early PROVE reader'[s].inode = file[s].inode
        <5>1. CompactionAt({"renamed"}, s)' <=> CompactionAt({"renamed"}, s)
          BY <1>1 DEF CompactionAt
        <5> QED
          BY <1>1, <1>4, <1>7, <3>1, <4>1, <5>1 DEF FilesAgree
      <4> QED
        BY <1>2, <4>1
    <3> QED
      BY <1>3, <1>5, <2>1, <3>1, <3>2, <3>3 DEF ReadAgrees
  <2>2. CASE q # r
    BY <1>1, <1>2, <1>5, <2>2, InitializeReads
  <2> QED
    BY <2>1, <2>2
<1> QED
  BY <1>6, <1>7, <1>8, <1>9, <1>10 DEF Agree

\* A read that ends, or has to try again because the id of the path is a later one.
LEMMA EndOfReadAgree ==
    ASSUME FilesInv, NEW r \in Readers, OpenFileFails(r) \/ ReadState(r) PROVE Agree'
<1> DEFINE x == [read[r] EXCEPT !.pc = "retry"]
<1>1. UNCHANGED <<file, spare, tx, comp, fileId, ready, writer, reader>>
  BY DEF OpenFileFails, ReadState, treeVars
<1>2. FilesKept
  BY Zenon, <1>1 DEF FilesKept
<1>3. \/ read' = [read EXCEPT ![r] = NotReading]
      \/ /\ read' = [read EXCEPT ![r] = x]
         /\ read[r].pc = "opened" /\ reader[read[r].tree].file_id # read[r].handle.id
  BY DEF OpenFileFails, ReadState
<1>4. x.pc = "retry" /\ x.tree = read[r].tree /\ x.handle = read[r].handle
  BY DEF FilesInv, TypeOK, ReadType, ReadRecord
<1> HIDE DEF x
<1>5. IdsAgree' /\ FilesAgree' /\ CompactionsAgree' /\ OpenedAgree'
  BY <1>1, <1>2, QuietIds, QuietFiles, QuietCompactions, QuietOpened, OpenedAfterNothing DEF FilesInv
<1>6. ReadsAgree'
  <2> SUFFICES ASSUME NEW q \in Readers PROVE ReadAgrees(read[q])'
    BY DEF ReadsAgree, ReadAgrees
  <2>1. ReadAgrees(read[q])
    BY DEF FilesInv, ReadsAgree, ReadAgrees
  <2>2. CASE read'[q] = read[q]
    BY Zenon, <1>1, <2>1, <2>2 DEF ReadAgrees
  <2>3. CASE read'[q] = NotReading
    <3>1. read'[q].pc = "idle"
      BY <2>3 DEF NotReading
    <3> QED
      BY Zenon, <3>1 DEF ReadAgrees
  <2>4. CASE /\ q = r /\ read'[q] = x
             /\ read[r].pc = "opened" /\ reader[read[r].tree].file_id # read[r].handle.id
    <3>1. /\ read[r].tree \in Trees /\ read[r].handle.id \in Nat
          /\ fileId[read[r].tree] \in Nat
      BY <2>4 DEF FilesInv, TypeOK, ReadType, ReadRecord, Handle, IdType
    <3>2. read[r].handle.id <= fileId[read[r].tree] /\ ready[read[r].tree]
      BY <2>1, <2>4 DEF ReadAgrees
    <3>3. reader[read[r].tree].file_id = fileId[read[r].tree]
      BY <3>1, <3>2 DEF FilesInv, IdsAgree
    <3>4. read[r].handle.id # fileId[read[r].tree]
      BY <2>4, <3>3
    <3>5. read[r].handle.id < fileId[read[r].tree]
      BY <3>1, <3>2, <3>4
    <3>6. /\ read'[q].pc = "retry" /\ read'[q].handle.id <= fileId'[read'[q].tree]
          /\ read'[q].handle.id < fileId'[read'[q].tree]
      BY <1>1, <1>4, <2>4, <3>2, <3>5
    <3> QED
      BY <3>6 DEF ReadAgrees
  <2>5. \/ read'[q] = read[q] \/ read'[q] = NotReading
        \/ /\ q = r /\ read'[q] = x
           /\ read[r].pc = "opened" /\ reader[read[r].tree].file_id # read[r].handle.id
    BY <1>3 DEF FilesInv, TypeOK, ReadType
  <2> QED
    BY <2>2, <2>3, <2>4, <2>5
<1> QED
  BY <1>5, <1>6 DEF Agree

\* After a crash, and at the start, nothing is open.
LEMMA NothingOpen ==
    ASSUME ready = [t \in Trees |-> FALSE], fileId = [t \in Trees |-> 0],
           tx = [w \in Writers |-> Idle], comp = [k \in Compactors |-> NotCompacting],
           read = [r \in Readers |-> NotReading]
    PROVE  Agree
<1>1. IdsAgree /\ FilesAgree
  BY DEF IdsAgree, FilesAgree
<1>2. CompactionsAgree /\ ReadsAgree
  BY Zenon DEF CompactionsAgree, ReadsAgree, NotCompacting, NotReading
<1>3. OpenedAgree
  BY DEF OpenedAgree, Opened, Idle
<1> QED
  BY <1>1, <1>2, <1>3 DEF Agree

(***************************************************************************)
(* The theorems                                                            *)
(***************************************************************************)
LEMMA FilesInit == Init => FilesInv
<1> SUFFICES ASSUME Init PROVE FilesInv
  OBVIOUS
<1>1. TypeOK
  BY InitType
<1>2. Agree
  BY NothingOpen DEF Init
<1>3. LocksHeld
  BY DEF Init, LocksHeld, Idle, NotCompacting
<1> QED
  BY <1>1, <1>2, <1>3 DEF FilesInv, Agree

LEMMA FilesStep ==
    ASSUME OneCompactor PROVE FilesInv /\ [Next]_vars => FilesInv'
<1> SUFFICES ASSUME FilesInv, [Next]_vars PROVE FilesInv'
  OBVIOUS
<1>0. TypeOK' /\ LocksHeld'
  BY NextType, LocksStep DEF FilesInv
<1> SUFFICES Agree'
  BY <1>0 DEF FilesInv, Agree
<1>1. CASE \E w \in Writers, t \in Trees : Open(w, t) \/ OpenFails(w, t) \/ Publish(w, t)
  BY <1>1, OpenAgree, QuietTransactions, PublishAgree
<1>2. CASE \E w \in Writers : Rollback(w) \/ CommitTrees(w) \/ LogTransaction(w)
  BY <1>2, RollbackAgree, QuietTransactions
<1>3. CASE \E e \in pool : SaveTree(e) \/ SyncTree(e) \/ FindCompacted(e)
  BY <1>3, QuietCommits
<1>4. CASE \E k \in Compactors : LockCompaction(k) \/ Copy(k) \/ Rename(k) \/ Finish(k)
  BY <1>4, LockCompactionAgree, CopyAgree, RenameAgree, FinishAgree
<1>5. CASE \E w \in Writers, trees \in SUBSET Trees \ {{}} : Begin(w, trees)
  BY <1>5, QuietTransactions
<1>6. CASE \E w \in Writers, t \in Trees : Modify(w, t)
  BY <1>6, QuietTransactions
<1>7. CASE \E e \in pool, dirty \in BOOLEAN : SaveFails(e, dirty)
  BY <1>7, QuietCommits
<1>8. CASE \E k \in Compactors, t \in Trees : OpenCompaction(k, t)
  BY <1>8, OpenCompactionAgree
<1>9. CASE \E r \in Readers, t \in Trees : FindFile(r, t)
  BY <1>9, FindFileAgree
<1>10. CASE \E r \in Readers : OpenFile(r) \/ OpenFileFails(r) \/ ReadState(r)
  BY <1>10, OpenFileAgree, EndOfReadAgree
<1>11. CASE \E kept \in [Trees -> 0..(2 * MaxTransactions)], torn \in SUBSET Trees : Crash(kept, torn)
  <2>1. /\ ready' = [t \in Trees |-> FALSE] /\ fileId' = [t \in Trees |-> 0]
        /\ tx' = [w \in Writers |-> Idle] /\ comp' = [k \in Compactors |-> NotCompacting]
        /\ read' = [r \in Readers |-> NotReading]
    BY Zenon, <1>11 DEF Crash
  <2>2. IdsAgree' /\ FilesAgree'
    BY <2>1 DEF IdsAgree, FilesAgree
  <2>3. CompactionsAgree' /\ ReadsAgree'
    BY Zenon, <2>1 DEF CompactionsAgree, ReadsAgree, NotCompacting, NotReading
  <2>4. OpenedAgree'
    BY <2>1 DEF OpenedAgree, Opened, Idle
  <2> QED
    BY <2>2, <2>3, <2>4 DEF Agree
<1>12. CASE UNCHANGED vars
  <2>1. FilesKept /\ comp' = comp /\ spare' = spare /\ read' = read /\ tx' = tx
    BY Zenon, <1>12 DEF vars, FilesKept
  <2> QED
    BY <2>1, OpenedAfterNothing, QuietStep
<1> QED
  BY Zenon, <1>1, <1>2, <1>3, <1>4, <1>5, <1>6, <1>7, <1>8, <1>9, <1>10, <1>11, <1>12 DEF Next, Progress

\* Locks are exclusive and handles, states and files agree, in every reachable state,
\* for any number of trees, writers and readers, if compactions do not overlap.
THEOREM FilesInvariant ==
    ASSUME OneCompactor PROVE Spec => []FilesInv
  BY FilesInit, FilesStep, PTL DEF Spec

\* A transaction is never interrupted by a compaction: TreeModifier and TreeWriter
\* find the file they opened.
THEOREM TransactionsKeepTheirFileAlways ==
    ASSUME OneCompactor PROVE Spec => []TransactionsKeepTheirFile
<1>1. FilesInv => TransactionsKeepTheirFile
  BY Zenon DEF FilesInv, OpenedAgree, Opened, TransactionsKeepTheirFile
<1> QED
  BY <1>1, FilesInvariant, PTL

\* A read that passes the check of the file id has that file open.
THEOREM ReadsUseTheirFileAlways ==
    ASSUME OneCompactor PROVE Spec => []ReadsUseTheirFile
<1>1. FilesInv => ReadsUseTheirFile
  <2> SUFFICES ASSUME FilesInv, NEW r \in Readers, read[r].pc = "opened", ~read[r].early,
                      reader[read[r].tree].file_id = read[r].handle.id
               PROVE  read[r].handle.inode = reader[read[r].tree].inode
    BY DEF ReadsUseTheirFile
  <2>1. read[r].tree \in Trees /\ ready[read[r].tree]
    BY DEF FilesInv, TypeOK, ReadType, ReadsAgree
  <2>2. fileId[read[r].tree] = read[r].handle.id
    BY <2>1 DEF FilesInv, IdsAgree
  <2> QED
    BY <2>2 DEF FilesInv, ReadsAgree
<1> QED
  BY <1>1, FilesInvariant, PTL

\* catch_compaction_and_retry finds a new file id whenever it has to try again.
THEOREM RetryFindsNewFileAlways ==
    ASSUME OneCompactor PROVE Spec => []RetryFindsNewFile
<1>1. FilesInv => RetryFindsNewFile
  <2> SUFFICES ASSUME FilesInv, NEW r \in Readers, read[r].pc = "retry"
               PROVE  fileId[read[r].tree] > read[r].handle.id
    BY DEF RetryFindsNewFile
  <2>1. read[r].tree \in Trees /\ read[r].handle.id \in Nat /\ fileId[read[r].tree] \in Nat
    BY DEF FilesInv, TypeOK, ReadType, ReadRecord, Handle, IdType
  <2>2. read[r].handle.id < fileId[read[r].tree]
    BY DEF FilesInv, ReadsAgree
  <2> QED
    BY <2>1, <2>2
<1> QED
  BY <1>1, FilesInvariant, PTL
=============================================================================
