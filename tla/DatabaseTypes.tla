---------------------------- MODULE DatabaseTypes ----------------------------
(***************************************************************************)
(* The types of the variables of Database, and that every step keeps them. *)
(***************************************************************************)
EXTENDS Database, WellFoundedInduction, TLAPS

Handle == [id : Nat, inode : Nat]
Root == [file_id : Nat, inode : Nat, id : Nat, content : SUBSET Nat, dirty : BOOLEAN]
HeaderType == [id : Nat, content : SUBSET Nat]

FileRecord == [inode : Nat, headers : Seq(HeaderType), synced : Nat, torn : BOOLEAN]
TxRecord == [pc : {"idle", "opening", "open", "saving", "saved", "logged"}, id : Nat,
             attempt : Nat, trees : SUBSET Trees, left : SUBSET Trees, handle : [Trees -> Handle]]
PoolRecord == [client : Writers, attempt : Nat, tree : Trees, id : Nat, saved : BOOLEAN]
CompRecord == [pc : {"idle", "opened", "locked", "copied", "renamed"}, tree : Trees \cup {None},
               id : Nat, inode : Nat, new : Nat]
ReadRecord == [pc : {"idle", "found", "opened", "retry"}, tree : Trees \cup {None},
               handle : Handle, early : BOOLEAN]

LogType == log \in Seq([id : Nat, attempt : Nat]) /\ nextId \in Nat
AttemptType == attempt \in Seq([id : Nat, trees : SUBSET Trees])
LockType == lock \in [Trees -> Writers \cup Compactors \cup {None}]
FileType == file \in [Trees -> FileRecord] /\ spare \in [Trees -> Nat]
IdType == fileId \in [Trees -> Nat] /\ ready \in [Trees -> BOOLEAN]
RootType == writer \in [Trees -> Root] /\ reader \in [Trees -> Root]
TxType == tx \in [Writers -> TxRecord]
PoolType == pool \subseteq PoolRecord
CompType == /\ comp \in [Compactors -> CompRecord]
            /\ \A k \in Compactors : comp[k].pc # "idle" => comp[k].tree \in Trees
ReadType == /\ read \in [Readers -> ReadRecord]
            /\ \A r \in Readers : read[r].pc # "idle" => read[r].tree \in Trees
UsedType == used \in [inodes : Nat, faults : Nat]

TypeOK == LogType /\ AttemptType /\ LockType /\ FileType /\ IdType /\ RootType /\ TxType /\ PoolType
          /\ CompType /\ ReadType /\ UsedType

\* What update expressions build: records of the right type.
LEMMA RootUpdate ==
    ASSUME NEW x \in Root, NEW c \in SUBSET Nat, NEW i \in Nat, NEW d \in BOOLEAN
    PROVE  /\ [x EXCEPT !.content = c, !.id = i, !.dirty = d] \in Root
           /\ [x EXCEPT !.dirty = d, !.inode = i] \in Root
           /\ [x EXCEPT !.dirty = d] \in Root
           /\ [x EXCEPT !.file_id = i] \in Root
  BY DEF Root

LEMMA IdleTypes ==
    /\ Idle \in TxRecord /\ NotCompacting \in CompRecord /\ NotReading \in ReadRecord
    /\ NoRoot \in Root /\ EmptyFile \in FileRecord
<1>1. Idle \in TxRecord
  BY DEF Idle, NoHandle, TxRecord, Handle
<1>2. NotCompacting \in CompRecord
  BY DEF NotCompacting, CompRecord
<1>3. NotReading \in ReadRecord
  BY DEF NotReading, NoHandle, Handle, ReadRecord
<1>4. NoRoot \in Root
  BY DEF NoRoot, Root
<1>5. EmptyFile \in FileRecord
  BY DEF EmptyFile, FileRecord
<1> QED
  BY <1>1, <1>2, <1>3, <1>4, <1>5

LEMMA UnlockedType ==
    ASSUME LockType, NEW c PROVE Unlocked(c) \in [Trees -> Writers \cup Compactors \cup {None}]
  BY DEF LockType, Unlocked

\* The greatest element of a set of places.
LEMMA LastPlace ==
    ASSUME NEW n \in Nat, NEW S, S \subseteq 1..n, S # {}
    PROVE  \E i \in S : \A j \in S : j <= i
<1> DEFINE Less == OpToRel(<, Nat)
           Back == {n - i : i \in S}
<1>1. IsWellFoundedOn(Less, Nat)
  BY NatLessThanWellFounded
<1>2. Back \subseteq Nat /\ Back # {}
  <2>1. \A i \in S : i \in 1..n
    OBVIOUS
  <2>2. \A i \in S : n - i \in Nat
    BY <2>1
  <2> QED
    BY <2>2
<1> HIDE DEF Less, Back
<1>3. PICK m \in Back : \A k \in Back : ~ (<<k, m>> \in Less)
  BY <1>1, <1>2, WFMin
<1>4. \A k \in Back : ~ (k < m)
  BY <1>2, <1>3 DEF Less, OpToRel
<1>5. PICK i \in S : m = n - i
  BY <1>3 DEF Back
<1>6. \A j \in S : ~ (n - j < n - i)
  BY <1>4, <1>5 DEF Back
<1> QED
  BY <1>6

\* What initialize_state finds: the last trusted header, if there is one.
LEMMA LastTrustedFact ==
    ASSUME NEW headers \in Seq(HeaderType)
    PROVE  \/ /\ LastTrusted(headers) = 0
              /\ \A i \in 1..Len(headers) : ~Trusted(headers[i])
           \/ /\ LastTrusted(headers) \in 1..Len(headers)
              /\ Trusted(headers[LastTrusted(headers)])
              /\ \A i \in 1..Len(headers) : Trusted(headers[i]) => i <= LastTrusted(headers)
<1> DEFINE places == {i \in 1..Len(headers) : Trusted(headers[i])}
<1>1. CASE places = {}
  BY <1>1 DEF LastTrusted
<1>2. CASE places # {}
  <2>1. \E i \in places : \A j \in places : j <= i
    BY <1>2, LastPlace, Len(headers) \in Nat, places \subseteq 1..Len(headers)
  <2>2. LastTrusted(headers) \in places /\ \A j \in places : j <= LastTrusted(headers)
    BY <1>2, <2>1 DEF LastTrusted
  <2> QED
    BY <2>2
<1> QED
  BY <1>1, <1>2

LEMMA RecoveredType ==
    ASSUME NEW headers \in Seq(HeaderType), NEW inode \in Nat, NEW id \in Nat
    PROVE  Recovered(headers, inode, id) \in Root
<1>1. CASE LastTrusted(headers) = 0
  BY <1>1 DEF Recovered, Root
<1>2. CASE LastTrusted(headers) \in 1..Len(headers)
  <2>1. headers[LastTrusted(headers)] \in HeaderType
    BY <1>2
  <2>2. headers[LastTrusted(headers)].id \in Nat /\ headers[LastTrusted(headers)].content \in SUBSET Nat
    BY <2>1 DEF HeaderType
  <2> QED
    BY <1>2, <2>2 DEF Recovered, Root
<1> QED
  BY <1>1, <1>2, LastTrustedFact

LEMMA PathIdType ==
    ASSUME TypeOK, NEW t \in Trees PROVE PathId(t) \in Nat /\ HandleNow(t) \in Handle
  BY DEF TypeOK, IdType, FileType, FileRecord, PathId, HandleNow, Handle

\* initialize_state keeps the types.
LEMMA InitializeType ==
    ASSUME TypeOK, NEW t \in Trees, InitializeState(t) PROVE IdType' /\ RootType'
<1> DEFINE root == Recovered(file[t].headers, file[t].inode, PathId(t))
<1>1. PathId(t) \in Nat
  BY PathIdType
<1>2. file[t].headers \in Seq(HeaderType) /\ file[t].inode \in Nat
  BY DEF TypeOK, FileType, FileRecord
<1>3. root \in Root
  BY <1>1, <1>2, RecoveredType
<1>4. IdType'
  BY <1>1 DEF InitializeState, TypeOK, IdType
<1> HIDE DEF root
<1>5. /\ writer' = [writer EXCEPT ![t] = IF ready[t] THEN writer[t] ELSE root]
      /\ reader' = [reader EXCEPT ![t] = IF ready[t] THEN reader[t] ELSE root]
  BY DEF InitializeState, root
<1>6. RootType'
  BY <1>3, <1>5 DEF TypeOK, RootType
<1> QED
  BY <1>4, <1>6

LEMMA SequenceElement ==
    ASSUME NEW S, NEW s \in Seq(S), NEW n \in 1..Len(s) PROVE s[n] \in S
  OBVIOUS

LEMMA SequenceUpdate ==
    ASSUME NEW S, NEW s \in Seq(S), NEW a, NEW v, a \in 1..Len(s) => v \in S
    PROVE  [s EXCEPT ![a] = v] \in Seq(S)
<1>1. CASE a \in 1..Len(s)
  BY <1>1
<1>2. CASE a \notin 1..Len(s)
  <2>1. [s EXCEPT ![a] = v] = s
    BY <1>2
  <2> QED
    BY <2>1
<1> QED
  BY <1>1, <1>2

\* The result of a commit of a tree leaves the types of the transactions and the pool.
LEMMA FinishedType ==
    ASSUME TypeOK, NEW e \in pool, Finished(e) PROVE TxType' /\ PoolType'
<1>1. e.client \in Writers /\ tx[e.client] \in TxRecord
  BY DEF TypeOK, PoolType, PoolRecord, TxType
<1>2. PoolType'
  BY DEF Finished, TypeOK, PoolType
<1> DEFINE l == tx[e.client].left \ {e.tree}
           p == IF tx[e.client].left = {e.tree} THEN "saved" ELSE "saving"
           new == [tx[e.client] EXCEPT !.left = l, !.pc = p]
<1>3. l \in SUBSET Trees /\ p \in {"saved", "saving"}
  BY <1>1 DEF TxRecord
<1>4. tx' = tx \/ tx' = [tx EXCEPT ![e.client] = new]
  BY DEF Finished
<1> HIDE DEF l, p
<1>5. new \in TxRecord
  BY <1>1, <1>3 DEF TxRecord
<1> HIDE DEF new
<1>6. TxType'
  BY <1>1, <1>4, <1>5 DEF TypeOK, TxType
<1> QED
  BY <1>2, <1>6

LEMMA FailedType ==
    ASSUME TypeOK, NEW e \in pool, Failed(e) PROVE TxType' /\ PoolType' /\ LockType'
<1>1. TxType'
  BY IdleTypes DEF Failed, TypeOK, TxType
<1>2. PoolType'
  BY DEF Failed, TypeOK, PoolType
<1>3. LockType
  BY DEF TypeOK
<1>4. LockType'
  BY <1>3, UnlockedType DEF Failed, LockType
<1> QED
  BY <1>1, <1>2, <1>4

LEMMA HeaderIsHeader ==
    ASSUME RootType, NEW t \in Trees, NEW inode PROVE Header(t, inode) \in HeaderType
<1>1. writer[t].id \in Nat /\ writer[t].content \in SUBSET Nat
  BY DEF RootType, Root
<1> QED
  BY <1>1 DEF Header, HeaderType

LEMMA SaveFileType ==
    ASSUME TypeOK, NEW t \in Trees,
           \/ file' = [file EXCEPT ![t].headers = Append(@, Header(t, file[t].inode))]
           \/ file' = [file EXCEPT ![t].synced = Len(file[t].headers)],
           spare' = spare
    PROVE  FileType'
<1>1. Header(t, file[t].inode) \in HeaderType
  BY HeaderIsHeader DEF TypeOK
<1>2. file[t] \in FileRecord /\ file[t].headers \in Seq(HeaderType)
  BY DEF TypeOK, FileType, FileRecord
<1>3. Append(file[t].headers, Header(t, file[t].inode)) \in Seq(HeaderType)
  BY <1>1, <1>2
<1> DEFINE h == Append(file[t].headers, Header(t, file[t].inode))
           n == Len(file[t].headers)
<1>4. n \in Nat
  BY <1>2
<1> HIDE DEF h, n
<1>5. [file[t] EXCEPT !.headers = h] \in FileRecord /\ [file[t] EXCEPT !.synced = n] \in FileRecord
  BY <1>2, <1>3, <1>4 DEF FileRecord, h
<1>6. \/ file' = [file EXCEPT ![t] = [file[t] EXCEPT !.headers = h]]
      \/ file' = [file EXCEPT ![t] = [file[t] EXCEPT !.synced = n]]
  BY DEF h, n
<1> QED
  BY <1>5, <1>6 DEF TypeOK, FileType

LEMMA BeginType ==
    ASSUME TypeOK, NEW w \in Writers, NEW trees \in SUBSET Trees, Begin(w, trees) PROVE TypeOK'
<1> USE DEF TypeOK
<1>1. LogType'
  BY DEF Begin, LogType
<1>2. AttemptType'
  BY DEF Begin, AttemptType, LogType
<1>3. LockType'
  BY DEF Begin, LockType
<1> DEFINE new == [pc |-> "opening", id |-> nextId, attempt |-> Len(attempt) + 1,
                   trees |-> trees, left |-> trees, handle |-> Idle.handle]
<1>4. Idle.handle \in [Trees -> Handle]
  BY DEF Idle, NoHandle, Handle
<1>5. new \in TxRecord
  BY <1>4 DEF TxRecord, LogType, AttemptType
<1>6. tx' = [tx EXCEPT ![w] = new]
  BY DEF Begin
<1> HIDE DEF new
<1>7. TxType'
  BY <1>5, <1>6 DEF TxType
<1>8. FileType' /\ IdType' /\ RootType' /\ PoolType' /\ CompType' /\ ReadType' /\ UsedType'
  BY DEF Begin, treeVars, FileType, IdType, RootType, PoolType, CompType, ReadType, UsedType
<1> QED
  BY <1>1, <1>2, <1>3, <1>7, <1>8

LEMMA OpenType ==
    ASSUME TypeOK, NEW w \in Writers, NEW t \in Trees, Open(w, t) PROVE TypeOK'
<1>1. IdType' /\ RootType'
  BY InitializeType DEF Open
<1> USE DEF TypeOK
<1> DEFINE l == tx[w].left \ {t}
           p == IF tx[w].left = {t} THEN "open" ELSE "opening"
           h == [tx[w].handle EXCEPT ![t] = HandleNow(t)]
           new == [tx[w] EXCEPT !.left = l, !.pc = p, !.handle = h]
<1>2. tx[w] \in TxRecord
  BY DEF TxType
<1>3. HandleNow(t) \in Handle
  BY PathIdType
<1>4. l \in SUBSET Trees /\ h \in [Trees -> Handle]
  BY <1>2, <1>3 DEF TxRecord
<1>5. tx' = [tx EXCEPT ![w] = new]
  BY DEF Open
<1>6. p \in {"idle", "opening", "open", "saving", "saved", "logged"}
  OBVIOUS
<1> HIDE DEF l, p, h
<1>7. new \in TxRecord
  BY <1>2, <1>4, <1>6 DEF TxRecord
<1> HIDE DEF new
<1>8. TxType'
  BY <1>5, <1>7 DEF TxType
<1>9. LogType' /\ AttemptType' /\ LockType' /\ FileType' /\ PoolType' /\ CompType' /\ ReadType' /\ UsedType'
  BY DEF Open, managerVars, LogType, AttemptType, LockType, FileType, PoolType, CompType, ReadType, UsedType
<1> QED
  BY <1>1, <1>8, <1>9

LEMMA OpenFailsType ==
    ASSUME TypeOK, NEW w \in Writers, NEW t \in Trees, OpenFails(w, t) PROVE TypeOK'
<1> USE DEF TypeOK
<1>1. TxType'
  BY IdleTypes DEF OpenFails, TxType
<1>2. LockType'
  BY UnlockedType DEF OpenFails, LockType
<1>3. LogType' /\ AttemptType' /\ FileType' /\ IdType' /\ RootType' /\ PoolType' /\ CompType'
      /\ ReadType' /\ UsedType'
  BY DEF OpenFails, treeVars, LogType, AttemptType, FileType, IdType, RootType, PoolType, CompType,
         ReadType, UsedType
<1> QED
  BY <1>1, <1>2, <1>3

LEMMA ModifyType ==
    ASSUME TypeOK, NEW w \in Writers, NEW t \in Trees, Modify(w, t) PROVE TypeOK'
<1> USE DEF TypeOK
<1> DEFINE a == tx[w].attempt
           c == writer[t].content \cup {a}
           new == [writer[t] EXCEPT !.content = c, !.id = tx[w].id, !.dirty = TRUE]
<1>1. a \in Nat /\ tx[w].id \in Nat
  BY DEF TxType, TxRecord
<1>2. writer[t] \in Root /\ c \in SUBSET Nat
  BY <1>1 DEF RootType, Root
<1>3. writer' = [writer EXCEPT ![t] = new] /\ reader' = reader
  BY DEF Modify
<1> HIDE DEF c
<1>4. new \in Root
  BY <1>1, <1>2, RootUpdate
<1> HIDE DEF new
<1>5. RootType'
  BY <1>3, <1>4 DEF RootType
<1> DEFINE change == [attempt[a] EXCEPT !.trees = attempt[a].trees \cup {t}]
<1>6. a \in 1..Len(attempt) => change \in [id : Nat, trees : SUBSET Trees]
  <2> HAVE a \in 1..Len(attempt)
  <2>1. attempt[a] \in [id : Nat, trees : SUBSET Trees]
    BY SequenceElement DEF AttemptType
  <2> QED
    BY <2>1
<1>7. attempt' = [attempt EXCEPT ![a] = change]
  BY DEF Modify
<1> HIDE DEF change, a
<1>8. AttemptType'
  BY <1>6, <1>7, SequenceUpdate DEF AttemptType
<1>9. LogType' /\ LockType' /\ FileType' /\ IdType' /\ TxType' /\ PoolType' /\ CompType'
      /\ ReadType' /\ UsedType'
  BY DEF Modify, LogType, LockType, FileType, IdType, TxType, PoolType, CompType, ReadType, UsedType
<1> QED
  BY <1>5, <1>8, <1>9

LEMMA RollbackType ==
    ASSUME TypeOK, NEW w \in Writers, Rollback(w) PROVE TypeOK'
<1> USE DEF TypeOK
<1>1. \A t \in Trees : [reader[t] EXCEPT !.file_id = writer[t].file_id] \in Root
  <2> TAKE t \in Trees
  <2>1. reader[t] \in Root /\ writer[t].file_id \in Nat
    BY DEF RootType, Root
  <2> QED
    BY <2>1, RootUpdate
<1>2. RootType'
  BY <1>1 DEF Rollback, RootType
<1>3. TxType'
  BY IdleTypes DEF Rollback, TxType
<1>4. LockType'
  BY UnlockedType DEF Rollback, LockType
<1>5. LogType' /\ AttemptType' /\ FileType' /\ IdType' /\ PoolType' /\ CompType' /\ ReadType' /\ UsedType'
  BY DEF Rollback, LogType, AttemptType, FileType, IdType, PoolType, CompType, ReadType, UsedType
<1> QED
  BY <1>2, <1>3, <1>4, <1>5

LEMMA CommitTreesType ==
    ASSUME TypeOK, NEW w \in Writers, CommitTrees(w) PROVE TypeOK'
<1> USE DEF TypeOK
<1> DEFINE new == [tx[w] EXCEPT !.pc = "saving", !.left = tx[w].trees]
<1>1. tx[w] \in TxRecord /\ tx[w].trees \in SUBSET Trees /\ tx[w].attempt \in Nat
      /\ tx[w].handle \in [Trees -> Handle]
  BY DEF TxType, TxRecord
<1>2. new \in TxRecord
  BY <1>1 DEF TxRecord
<1>3. tx' = [tx EXCEPT ![w] = new]
  BY DEF CommitTrees
<1> HIDE DEF new
<1>4. TxType'
  BY <1>2, <1>3 DEF TxType
<1>5. \A t \in tx[w].trees : tx[w].handle[t].id \in Nat
  BY <1>1 DEF Handle
<1>6. \A t \in tx[w].trees : [client |-> w, attempt |-> tx[w].attempt, tree |-> t,
                              id |-> tx[w].handle[t].id, saved |-> FALSE] \in PoolRecord
  BY <1>1, <1>5 DEF PoolRecord
<1>7. PoolType'
  BY <1>6 DEF CommitTrees, PoolType
<1>8. LogType' /\ AttemptType' /\ LockType' /\ FileType' /\ IdType' /\ RootType' /\ CompType'
      /\ ReadType' /\ UsedType'
  BY DEF CommitTrees, managerVars, treeVars, LogType, AttemptType, LockType, FileType, IdType,
         RootType, CompType, ReadType, UsedType
<1> QED
  BY <1>4, <1>7, <1>8

LEMMA SaveTreeType ==
    ASSUME TypeOK, NEW e \in pool, SaveTree(e) PROVE TypeOK'
<1>1. e \in PoolRecord /\ e.tree \in Trees
  BY DEF TypeOK, PoolType, PoolRecord
<1>2. CASE writer[e.tree].dirty
  <2>1. /\ file' = [file EXCEPT ![e.tree].headers = Append(@, Header(e.tree, file[e.tree].inode))]
        /\ writer' = [writer EXCEPT ![e.tree] = [writer[e.tree] EXCEPT !.dirty = FALSE]]
        /\ pool' = (pool \ {e}) \cup {[e EXCEPT !.saved = TRUE]}
        /\ tx' = tx /\ spare' = spare /\ reader' = reader
    BY <1>2 DEF SaveTree
  <2>2. FileType'
    BY <1>1, <2>1, SaveFileType
  <2>3. [writer[e.tree] EXCEPT !.dirty = FALSE] \in Root
    <3>1. writer[e.tree] \in Root
      BY <1>1 DEF TypeOK, RootType
    <3> QED
      BY <3>1 DEF Root
  <2>4. RootType'
    BY <2>1, <2>3 DEF TypeOK, RootType
  <2>5. [e EXCEPT !.saved = TRUE] \in PoolRecord
    BY <1>1 DEF PoolRecord
  <2>6. PoolType'
    BY <2>1, <2>5 DEF TypeOK, PoolType
  <2>7. TxType'
    BY <2>1 DEF TypeOK, TxType
  <2> QED
    BY <2>2, <2>4, <2>6, <2>7
       DEF SaveTree, managerVars, TypeOK, LogType, AttemptType, LockType, IdType, CompType, ReadType,
           UsedType
<1>3. CASE ~writer[e.tree].dirty
  <2>1. Finished(e) /\ UNCHANGED <<file, spare, writer, reader>>
    BY <1>3 DEF SaveTree
  <2>2. TxType' /\ PoolType'
    BY <2>1, FinishedType
  <2>3. FileType' /\ RootType'
    BY <2>1 DEF TypeOK, FileType, RootType
  <2> QED
    BY <2>2, <2>3
       DEF SaveTree, managerVars, TypeOK, LogType, AttemptType, LockType, IdType, CompType, ReadType,
           UsedType
<1> QED
  BY <1>2, <1>3

LEMMA SyncTreeType ==
    ASSUME TypeOK, NEW e \in pool, SyncTree(e) PROVE TypeOK'
<1>1. e.tree \in Trees
  BY DEF TypeOK, PoolType, PoolRecord
<1>2. FileType'
  BY <1>1, SaveFileType DEF SyncTree
<1>3. TxType' /\ PoolType'
  BY FinishedType DEF SyncTree
<1> QED
  BY <1>2, <1>3
     DEF SyncTree, managerVars, treeVars, TypeOK, LogType, AttemptType, LockType, IdType, RootType,
         CompType, ReadType, UsedType

LEMMA FindCompactedType ==
    ASSUME TypeOK, NEW e \in pool, FindCompacted(e) PROVE TypeOK'
<1>1. TxType' /\ PoolType' /\ LockType'
  BY FailedType DEF FindCompacted
<1> QED
  BY <1>1 DEF FindCompacted, Failed, TypeOK, LogType, AttemptType, FileType, IdType, RootType,
              CompType, ReadType, UsedType

LEMMA FaultType ==
    ASSUME UsedType, NEW kind, Fault(kind) PROVE UsedType'
  BY DEF UsedType, Fault

LEMMA SaveFailsType ==
    ASSUME TypeOK, NEW e \in pool, NEW dirty \in BOOLEAN, SaveFails(e, dirty) PROVE TypeOK'
<1>1. TxType' /\ PoolType' /\ LockType'
  BY FailedType DEF SaveFails
<1>2. e.tree \in Trees /\ writer[e.tree] \in Root
  BY DEF TypeOK, PoolType, PoolRecord, RootType
<1> DEFINE new == [writer[e.tree] EXCEPT !.dirty = dirty]
<1>3. new \in Root
  BY <1>2, RootUpdate
<1>4. writer' = [writer EXCEPT ![e.tree] = new] /\ reader' = reader
  BY DEF SaveFails, Failed
<1> HIDE DEF new
<1>5. RootType'
  BY <1>3, <1>4 DEF TypeOK, RootType
<1>6. UsedType'
  BY FaultType DEF SaveFails, TypeOK
<1> QED
  BY <1>1, <1>5, <1>6
     DEF SaveFails, Failed, TypeOK, LogType, AttemptType, FileType, IdType, CompType, ReadType

LEMMA LogTransactionType ==
    ASSUME TypeOK, NEW w \in Writers, LogTransaction(w) PROVE TypeOK'
<1> DEFINE new == [tx[w] EXCEPT !.pc = "logged", !.left = tx[w].trees]
<1>1. tx[w] \in TxRecord /\ tx[w].trees \in SUBSET Trees /\ tx[w].attempt \in Nat /\ tx[w].id \in Nat
  BY DEF TypeOK, TxType, TxRecord
<1>2. new \in TxRecord
  BY <1>1 DEF TxRecord
<1>3. tx' = [tx EXCEPT ![w] = new]
  BY DEF LogTransaction
<1> HIDE DEF new
<1>4. TxType'
  BY <1>2, <1>3 DEF TypeOK, TxType
<1>5. [id |-> tx[w].id, attempt |-> tx[w].attempt] \in [id : Nat, attempt : Nat]
  BY <1>1
<1>6. LogType'
  BY <1>5 DEF LogTransaction, TypeOK, LogType
<1> QED
  BY <1>4, <1>6
     DEF LogTransaction, treeVars, TypeOK, AttemptType, LockType, FileType, IdType, RootType,
         PoolType, CompType, ReadType, UsedType

LEMMA PublishType ==
    ASSUME TypeOK, NEW w \in Writers, NEW t \in Trees, Publish(w, t) PROVE TypeOK'
<1>1. RootType'
  BY DEF Publish, TypeOK, RootType
<1>2. LockType'
  BY UnlockedType DEF Publish, TypeOK, LockType
<1> DEFINE l == tx[w].left \ {t}
           new == [tx[w] EXCEPT !.left = l]
<1>3. tx[w] \in TxRecord /\ l \in SUBSET Trees
  BY DEF TypeOK, TxType, TxRecord
<1>4. tx' = [tx EXCEPT ![w] = Idle] \/ tx' = [tx EXCEPT ![w] = new]
  BY DEF Publish
<1> HIDE DEF l
<1>5. new \in TxRecord
  BY <1>3 DEF TxRecord
<1> HIDE DEF new
<1>6. TxType'
  BY <1>4, <1>5, IdleTypes DEF TypeOK, TxType
<1> QED
  BY <1>1, <1>2, <1>6
     DEF Publish, TypeOK, LogType, AttemptType, FileType, IdType, PoolType, CompType, ReadType,
         UsedType

LEMMA OpenCompactionType ==
    ASSUME TypeOK, NEW k \in Compactors, NEW t \in Trees, OpenCompaction(k, t) PROVE TypeOK'
<1>1. IdType' /\ RootType'
  BY InitializeType DEF OpenCompaction
<1> USE DEF TypeOK
<1> DEFINE new == [pc |-> "opened", tree |-> t, id |-> 0, inode |-> file[t].inode,
                   new |-> used.inodes + 1]
<1>2. file[t].inode \in Nat /\ used.inodes + 1 \in Nat
  BY DEF FileType, FileRecord, UsedType
<1>3. new \in CompRecord /\ new.tree \in Trees
  BY <1>2 DEF CompRecord
<1>4. comp' = [comp EXCEPT ![k] = new]
  BY DEF OpenCompaction
<1> HIDE DEF new
<1>5. CompType'
  BY <1>3, <1>4 DEF CompType
<1>6. FileType'
  BY DEF OpenCompaction, FileType
<1>7. UsedType'
  BY DEF OpenCompaction, UsedType
<1> QED
  BY <1>1, <1>5, <1>6, <1>7
     DEF OpenCompaction, managerVars, LogType, AttemptType, LockType, TxType, PoolType, ReadType

LEMMA LockCompactionType ==
    ASSUME TypeOK, NEW k \in Compactors, LockCompaction(k) PROVE TypeOK'
<1> USE DEF TypeOK
<1>1. comp[k] \in CompRecord /\ comp[k].tree \in Trees
  BY DEF LockCompaction, CompType
<1> DEFINE new == [comp[k] EXCEPT !.pc = "locked", !.id = nextId]
<1>2. new \in CompRecord /\ new.tree \in Trees
  BY <1>1 DEF CompRecord, LogType
<1>3. comp' = [comp EXCEPT ![k] = new]
  BY DEF LockCompaction
<1> HIDE DEF new
<1>4. CompType'
  BY <1>2, <1>3 DEF CompType
<1>5. LockType'
  BY <1>1 DEF LockCompaction, LockType
<1>6. LogType'
  BY DEF LockCompaction, LogType
<1> QED
  BY <1>4, <1>5, <1>6
     DEF LockCompaction, treeVars, AttemptType, FileType, IdType, RootType, TxType, PoolType, ReadType,
         UsedType

LEMMA CopyType ==
    ASSUME TypeOK, NEW k \in Compactors, Copy(k) PROVE TypeOK'
<1> USE DEF TypeOK
<1> DEFINE t == comp[k].tree
           i == IF comp[k].inode = writer[t].inode THEN comp[k].new ELSE 0
           root == [writer[t] EXCEPT !.dirty = FALSE, !.inode = i]
           new == [comp[k] EXCEPT !.pc = "copied"]
<1>1. comp[k] \in CompRecord /\ t \in Trees
  BY DEF Copy, CompType
<1>2. comp[k].new \in Nat /\ writer[t] \in Root
  BY <1>1 DEF CompRecord, RootType
<1>3. i \in Nat
  BY <1>2
<1>4. /\ writer' = [writer EXCEPT ![t] = root] /\ reader' = reader
      /\ comp' = [comp EXCEPT ![k] = new]
  BY DEF Copy
<1>5. new \in CompRecord /\ new.tree \in Trees
  BY <1>1 DEF CompRecord
<1>6. FileType'
  BY <1>2 DEF Copy, FileType
<1> HIDE DEF i
<1>7. root \in Root
  BY <1>2, <1>3, RootUpdate
<1> HIDE DEF root, new
<1>8. RootType'
  BY <1>4, <1>7 DEF RootType
<1>9. CompType'
  BY <1>4, <1>5 DEF CompType
<1> QED
  BY <1>6, <1>8, <1>9
     DEF Copy, managerVars, LogType, AttemptType, LockType, IdType, TxType, PoolType, ReadType, UsedType

LEMMA RenameType ==
    ASSUME TypeOK, NEW k \in Compactors, Rename(k) PROVE TypeOK'
<1> USE DEF TypeOK
<1> DEFINE t == comp[k].tree
           h == Header(t, comp[k].new)
           f == [inode |-> comp[k].new, torn |-> FALSE, synced |-> 1, headers |-> <<h>>]
           new == [comp[k] EXCEPT !.pc = "renamed"]
<1>1. comp[k] \in CompRecord /\ t \in Trees
  BY DEF Rename, CompType
<1>2. comp[k].new \in Nat /\ h \in HeaderType
  BY <1>1, HeaderIsHeader DEF CompRecord
<1>3. new \in CompRecord /\ new.tree \in Trees
  BY <1>1 DEF CompRecord
<1>4. \/ /\ file' = [file EXCEPT ![t] = f] /\ spare' = [spare EXCEPT ![t] = 0]
         /\ comp' = [comp EXCEPT ![k] = new] /\ lock' = lock
      \/ /\ comp' = [comp EXCEPT ![k] = NotCompacting] /\ lock' = Unlocked(k)
         /\ UNCHANGED <<file, spare>>
  BY DEF Rename
<1> HIDE DEF h
<1>5. f \in FileRecord
  BY <1>2 DEF FileRecord
<1> HIDE DEF f, new
<1>6. FileType'
  BY <1>4, <1>5 DEF FileType
<1>7. CompType'
  BY <1>3, <1>4, IdleTypes DEF CompType, NotCompacting
<1>8. LockType'
  BY <1>4, UnlockedType DEF LockType
<1> QED
  BY <1>6, <1>7, <1>8
     DEF Rename, treeVars, LogType, AttemptType, IdType, RootType, TxType, PoolType, ReadType, UsedType

LEMMA FinishType ==
    ASSUME TypeOK, NEW k \in Compactors, Finish(k) PROVE TypeOK'
<1> USE DEF TypeOK
<1> DEFINE t == comp[k].tree
           root == [writer[t] EXCEPT !.file_id = fileId[t] + 1]
<1>1. t \in Trees
  BY DEF Finish, CompType
<1>2. fileId[t] + 1 \in Nat /\ writer[t] \in Root
  BY <1>1 DEF IdType, RootType
<1>3. root \in Root
  BY <1>2, RootUpdate
<1>4. fileId' = [fileId EXCEPT ![t] = fileId[t] + 1] /\ ready' = ready
  BY DEF Finish
<1>5. fileId'[t] = fileId[t] + 1
  BY <1>1, <1>4 DEF IdType
<1>6. writer' = [writer EXCEPT ![t] = root]
  BY <1>5 DEF Finish
<1> HIDE DEF root
<1>7. reader' = [reader EXCEPT ![t] = root]
  BY <1>1, <1>6 DEF Finish, RootType
<1>8. RootType'
  BY <1>3, <1>6, <1>7 DEF RootType
<1>9. IdType'
  BY <1>2, <1>4 DEF IdType
<1>10. CompType'
  BY IdleTypes DEF Finish, CompType, NotCompacting
<1>11. LockType'
  BY UnlockedType DEF Finish, LockType
<1> QED
  BY <1>8, <1>9, <1>10, <1>11
     DEF Finish, LogType, AttemptType, FileType, TxType, PoolType, ReadType, UsedType

LEMMA FindFileType ==
    ASSUME TypeOK, NEW r \in Readers, NEW t \in Trees, FindFile(r, t) PROVE TypeOK'
<1>1. PathId(t) \in Nat
  BY PathIdType
<1> USE DEF TypeOK
<1>2. IdType'
  BY <1>1 DEF FindFile, IdType
<1> DEFINE new == [pc |-> "found", tree |-> t, early |-> FALSE, handle |-> [id |-> PathId(t), inode |-> 0]]
<1>3. new \in ReadRecord
  BY <1>1 DEF ReadRecord, Handle
<1>4. read' = [read EXCEPT ![r] = new] /\ new.tree \in Trees
  BY DEF FindFile
<1> HIDE DEF new
<1>5. ReadType'
  BY <1>3, <1>4 DEF ReadType
<1> QED
  BY <1>2, <1>5
     DEF FindFile, managerVars, LogType, AttemptType, LockType, FileType, RootType, TxType, PoolType,
         CompType, UsedType

LEMMA OpenFileType ==
    ASSUME TypeOK, NEW r \in Readers, OpenFile(r) PROVE TypeOK'
<1> DEFINE t == read[r].tree
           h == [id |-> read[r].handle.id, inode |-> file[t].inode]
           early == \E k \in Compactors : comp[k].tree = t /\ comp[k].pc = "renamed"
           new == [read[r] EXCEPT !.pc = "opened", !.handle = h, !.early = early]
<1>1. read[r] \in ReadRecord /\ t \in Trees
  BY DEF OpenFile, TypeOK, ReadType
<1>2. IdType' /\ RootType'
  BY <1>1, InitializeType DEF OpenFile
<1> USE DEF TypeOK
<1>3. h \in Handle
  BY <1>1 DEF ReadRecord, Handle, FileType, FileRecord
<1>4. read' = [read EXCEPT ![r] = new]
  BY DEF OpenFile
<1>5. early \in BOOLEAN
  OBVIOUS
<1> HIDE DEF h, early
<1>6. new \in ReadRecord /\ new.tree \in Trees
  BY <1>1, <1>3, <1>5 DEF ReadRecord
<1> HIDE DEF new
<1>7. ReadType'
  BY <1>4, <1>6 DEF ReadType
<1> QED
  BY <1>2, <1>7
     DEF OpenFile, managerVars, LogType, AttemptType, LockType, FileType, TxType, PoolType, CompType,
         UsedType

LEMMA OpenFileFailsType ==
    ASSUME TypeOK, NEW r \in Readers, OpenFileFails(r) PROVE TypeOK'
<1>1. ReadType'
  BY IdleTypes DEF OpenFileFails, TypeOK, ReadType, NotReading
<1> QED
  BY <1>1
     DEF OpenFileFails, managerVars, treeVars, TypeOK, LogType, AttemptType, LockType, FileType, IdType,
         RootType, TxType, PoolType, CompType, UsedType

LEMMA ReadStateType ==
    ASSUME TypeOK, NEW r \in Readers, ReadState(r) PROVE TypeOK'
<1> DEFINE new == [read[r] EXCEPT !.pc = "retry"]
<1>1. read[r] \in ReadRecord /\ read[r].tree \in Trees
  BY DEF ReadState, TypeOK, ReadType
<1>2. new \in ReadRecord /\ new.tree \in Trees
  BY <1>1 DEF ReadRecord
<1>3. read' = [read EXCEPT ![r] = NotReading] \/ read' = [read EXCEPT ![r] = new]
  BY DEF ReadState
<1> HIDE DEF new
<1>4. NotReading \in ReadRecord /\ NotReading.pc = "idle"
  BY IdleTypes DEF NotReading
<1>5. ReadType'
  BY <1>2, <1>3, <1>4 DEF TypeOK, ReadType
<1> QED
  BY <1>5
     DEF ReadState, managerVars, treeVars, TypeOK, LogType, AttemptType, LockType, FileType, IdType,
         RootType, TxType, PoolType, CompType, UsedType

LEMMA CrashType ==
    ASSUME TypeOK, NEW kept \in [Trees -> 0..(2 * MaxTransactions)], NEW torn \in SUBSET Trees,
           Crash(kept, torn)
    PROVE  TypeOK'
<1> USE DEF TypeOK
<1>1. \A t \in Trees :
        [file[t] EXCEPT !.headers = SubSeq(file[t].headers, 1, kept[t]), !.synced = kept[t],
                        !.torn = file[t].torn \/ t \in torn] \in FileRecord
  <2> TAKE t \in Trees
  <2>1. file[t] \in FileRecord /\ file[t].headers \in Seq(HeaderType) /\ file[t].torn \in BOOLEAN
    BY DEF FileType, FileRecord
  <2>2. kept[t] \in Nat /\ kept[t] <= Len(file[t].headers)
    <3>1. kept[t] \in 0..(2 * MaxTransactions)
      OBVIOUS
    <3>2. MaxTransactions \in Nat
      BY DatabaseAssumption
    <3>3. kept[t] \in Nat
      BY <3>1, <3>2
    <3>4. kept[t] <= Len(file[t].headers)
      BY Zenon DEF Crash
    <3> QED
      BY <3>3, <3>4
  <2>3. SubSeq(file[t].headers, 1, kept[t]) \in Seq(HeaderType)
    BY <2>1, <2>2
  <2> DEFINE h == SubSeq(file[t].headers, 1, kept[t])
             b == file[t].torn \/ t \in torn
             n == kept[t]
  <2>4. b \in BOOLEAN
    BY <2>1
  <2> HIDE DEF h, b, n
  <2>5. [file[t] EXCEPT !.headers = h, !.synced = n, !.torn = b] \in FileRecord
    BY <2>1, <2>2, <2>3, <2>4 DEF FileRecord, h, n
  <2> QED
    BY <2>5 DEF h, b, n
<1>2. FileType'
  BY <1>1 DEF Crash, FileType
<1>3. LogType'
  <2>1. CASE log = <<>>
    BY <2>1 DEF Crash, LogType
  <2>2. CASE log # <<>>
    <3> DEFINE S == [id : Nat, attempt : Nat]
    <3>a. log \in Seq(S)
      BY DEF LogType
    <3> HIDE DEF S
    <3>b. Len(log) \in 1..Len(log)
      BY <2>2, <3>a
    <3>1. log[Len(log)] \in S
      BY <3>a, <3>b, SequenceElement
    <3>2. log[Len(log)].id + 1 \in Nat
      BY <3>1 DEF S
    <3> QED
      BY <2>2, <3>2 DEF Crash, LogType
  <2> QED
    BY <2>1, <2>2
<1>4. TxType' /\ PoolType' /\ LockType'
  BY IdleTypes DEF Crash, TxType, PoolType, LockType
<1>5. IdType' /\ RootType'
  BY IdleTypes DEF Crash, IdType, RootType
<1>6. CompType' /\ ReadType'
  BY IdleTypes DEF Crash, CompType, ReadType, NotCompacting, NotReading
<1>7. UsedType'
  BY FaultType DEF Crash
<1> QED
  BY <1>2, <1>3, <1>4, <1>5, <1>6, <1>7 DEF Crash, AttemptType

LEMMA InitType == Init => TypeOK
<1> SUFFICES ASSUME Init PROVE TypeOK
  OBVIOUS
<1> USE DEF Init
<1>1. LogType /\ AttemptType /\ LockType /\ PoolType /\ UsedType
  BY DEF LogType, AttemptType, LockType, PoolType, UsedType
<1>2. FileType /\ IdType /\ RootType /\ TxType
  BY IdleTypes DEF FileType, IdType, RootType, TxType
<1>3. CompType /\ ReadType
  BY IdleTypes DEF CompType, ReadType, NotCompacting, NotReading
<1> QED
  BY <1>1, <1>2, <1>3 DEF TypeOK

LEMMA NextType == TypeOK /\ [Next]_vars => TypeOK'
<1> SUFFICES ASSUME TypeOK, [Next]_vars PROVE TypeOK'
  OBVIOUS
<1>1. CASE \E w \in Writers, t \in Trees : Open(w, t) \/ OpenFails(w, t) \/ Publish(w, t)
  BY <1>1, OpenType, OpenFailsType, PublishType
<1>2. CASE \E w \in Writers : Rollback(w) \/ CommitTrees(w) \/ LogTransaction(w)
  BY <1>2, RollbackType, CommitTreesType, LogTransactionType
<1>3. CASE \E e \in pool : SaveTree(e) \/ SyncTree(e) \/ FindCompacted(e)
  BY <1>3, SaveTreeType, SyncTreeType, FindCompactedType
<1>4. CASE \E k \in Compactors : LockCompaction(k) \/ Copy(k) \/ Rename(k) \/ Finish(k)
  BY <1>4, LockCompactionType, CopyType, RenameType, FinishType
<1>5. CASE \E w \in Writers, trees \in SUBSET Trees \ {{}} : Begin(w, trees)
  BY <1>5, BeginType
<1>6. CASE \E w \in Writers, t \in Trees : Modify(w, t)
  BY <1>6, ModifyType
<1>7. CASE \E e \in pool, dirty \in BOOLEAN : SaveFails(e, dirty)
  BY <1>7, SaveFailsType
<1>8. CASE \E k \in Compactors, t \in Trees : OpenCompaction(k, t)
  BY <1>8, OpenCompactionType
<1>9. CASE \E r \in Readers, t \in Trees : FindFile(r, t)
  BY <1>9, FindFileType
<1>10. CASE \E r \in Readers : OpenFile(r) \/ OpenFileFails(r) \/ ReadState(r)
  BY <1>10, OpenFileType, OpenFileFailsType, ReadStateType
<1>11. CASE \E kept \in [Trees -> 0..(2 * MaxTransactions)], torn \in SUBSET Trees : Crash(kept, torn)
  BY <1>11, CrashType
<1>12. CASE UNCHANGED vars
  BY <1>12 DEF vars, TypeOK, LogType, AttemptType, LockType, FileType, IdType, RootType, TxType,
               PoolType, CompType, ReadType, UsedType
<1> QED
  BY <1>1, <1>2, <1>3, <1>4, <1>5, <1>6, <1>7, <1>8, <1>9, <1>10, <1>11, <1>12 DEF Next, Progress

\* The variables keep their types.
THEOREM TypeCorrect == Spec => []TypeOK
  BY InitType, NextType, PTL DEF Spec
=============================================================================
