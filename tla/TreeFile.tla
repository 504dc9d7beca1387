------------------------------ MODULE TreeFile ------------------------------
(***************************************************************************)
(* One tree file and its state (tree/mod.rs, tree/state.rs) under every    *)
(* short sequence of calls: modifications inside and outside of a          *)
(* transaction, commit, rollback, compaction, and opening the file again.  *)
(* Beside the B-trees the module keeps the plain map and the plain history *)
(* they stand for.                                                         *)
(*                                                                         *)
(* Simplifications.  The calls do not overlap here (Database is about      *)
(* that).  After a modification that returned an error the caller rolls    *)
(* back or opens the file again.                                           *)
(***************************************************************************)
EXTENDS TreeRoot

CONSTANTS
    Kinds,          \* of tree roots: "versioned", "unversioned"
    MaxOrders,      \* the values of max_order tried
    MaxKeyUsed,     \* keys are 1..MaxKeyUsed
    Prefills,       \* key lists: a tree starts with one of them saved
    Requests,       \* the modifications tried: [keys, op]
    Values,         \* values, positive numbers
    Ranges,         \* the ranges scanned and reduced
    MaxCalls        \* bound on the number of calls

ASSUME TreeFileAssumption ==
    /\ Kinds \subseteq {"versioned", "unversioned"}
    /\ MaxOrders \subseteq Nat \ {0, 1}
    /\ MaxKeyUsed \in Nat /\ MaxCalls \in Nat
    /\ Values \subseteq Nat \ {0}
    /\ \A r \in Requests : \A i \in DOMAIN r.keys : r.keys[i] \in 1..MaxKeyUsed

VARIABLES
    maxOrder,       \* ActiveState::max_order
    file,           \* the chunks of the file
    writer,         \* ActiveState::root of State::writer
    reader,         \* ActiveState::root of State::reader
    ref,            \* what writer and reader stand for: [map, history] of each
    failed,         \* the last modification returned an error
    compacted,      \* the file has been compacted
    calls           \* how many calls have been made

vars == <<maxOrder, file, writer, reader, ref, failed, compacted, calls>>

Keys == 1..MaxKeyUsed
Stored == Values \cup {None}

(***************************************************************************)
(* The operations a caller can ask for (TreeFile::set, modify,             *)
(* compare_and_swap, remove, replace).                                     *)
(***************************************************************************)
KeyOp(v) == IF v = None THEN RemoveIt ELSE SetTo(v)

CompareAndSwap(old, new) == CompareSwap([c \in Stored |-> IF c = old THEN KeyOp(new) ELSE Skip])
RemoveKey == CompareSwap([c \in Stored |-> RemoveIt])
Replace(v) == CompareSwap([c \in Stored |-> SetTo(v)])

(***************************************************************************)
(* The reference: a map from keys to values, and the list of changes.      *)
(***************************************************************************)
EmptyRef == [map |-> [k \in Keys |-> None], history |-> <<>>]

LastChange(history, k) ==
    LET at == {i \in DOMAIN history : history[i].key = k}
    IN  IF at = {} THEN None ELSE Max(at) + 1

\* What the operation does with the i-th key, and whether it is a change.
Effect(r, keys, op, i) ==
    LET k == keys[i]
    IN  CASE op.kind = "Set" -> SetTo(op.value)
          [] op.kind = "SetEach" -> SetTo(op.values[i])
          [] op.kind = "Remove" -> IF LastChange(r.history, k) = None THEN Skip ELSE RemoveIt
          [] op.kind = "CompareSwap" -> op.callback[r.map[k]]

\* Keys are in order, hence distinct: each is treated by itself.
Applied(r, keys, op) ==
    LET changed == SelectSeq([i \in DOMAIN keys |-> i],
                             LAMBDA i : Effect(r, keys, op, i).op # "Skip")
        Change(i) == [key |-> keys[i], value |-> Effect(r, keys, op, i).value,
                      last |-> LastChange(r.history, keys[i])]
        changes == [j \in DOMAIN changed |-> Change(changed[j])]
        New(k) == {changes[j].value : j \in {j \in DOMAIN changes : changes[j].key = k}}
    IN  [map |-> [k \in Keys |-> IF New(k) = {} THEN r.map[k] ELSE CHOOSE v \in New(k) : TRUE],
         history |-> r.history \o changes]

(***************************************************************************)
(* The calls                                                               *)
(***************************************************************************)
Init ==
    \E kind \in Kinds, order \in MaxOrders, keys \in Prefills :
        LET r == ModifyTree(NewRoot(kind), keys, Set(CHOOSE v \in Values : TRUE), 0, <<>>, order)
            s == SaveTree(r.root, r.file)
            new == Applied(EmptyRef, keys, Set(CHOOSE v \in Values : TRUE))
        IN  /\ maxOrder = order
            /\ IF keys = <<>>
               THEN writer = NewRoot(kind) /\ reader = NewRoot(kind) /\ file = <<>>
               ELSE writer = s.root /\ reader = s.root /\ file = s.file
            /\ ref = [writer |-> new, reader |-> new]
            /\ failed = FALSE /\ compacted = FALSE /\ calls = 0

Call == calls < MaxCalls /\ calls' = calls + 1 /\ UNCHANGED maxOrder

\* TreeModifier for a transaction: values are written, the tree is not saved.
ModifyInTransaction(keys, op) ==
    LET r == ModifyTree(writer, keys, op, calls + 1, file, maxOrder)
    IN  /\ Call /\ ~failed
        /\ writer' = r.root
        /\ file' = r.file
        /\ failed' = r.error
        /\ ref' = IF r.error THEN ref ELSE [ref EXCEPT !.writer = Applied(@, keys, op)]
        /\ UNCHANGED <<reader, compacted>>

\* TreeModifier outside of a transaction: the tree is saved and published.
ModifyAndSave(keys, op) ==
    LET r == ModifyTree(writer, keys, op, 0, file, maxOrder)
        s == SaveTree(r.root, r.file)
        new == Applied(ref.writer, keys, op)
    IN  /\ Call /\ ~failed
        /\ IF r.error
           THEN /\ writer' = r.root /\ failed' = TRUE
                /\ UNCHANGED <<file, reader, ref>>
           ELSE /\ writer' = s.root /\ reader' = s.root /\ file' = s.file
                /\ ref' = [writer |-> new, reader |-> new]
                /\ failed' = FALSE
        /\ UNCHANGED compacted

\* TreeWriter, then the publication by ExecutingTransaction::commit.
Commit ==
    LET s == IF Dirty(writer) THEN SaveTree(writer, file) ELSE [root |-> writer, file |-> file]
    IN  /\ Call /\ ~failed
        /\ writer' = s.root /\ reader' = s.root /\ file' = s.file
        /\ ref' = [ref EXCEPT !.reader = ref.writer]
        /\ UNCHANGED <<failed, compacted>>

\* Mutant: a rollback keeps the by-sequence tree.
RollbackByIdOnly ==
    /\ Call
    /\ writer' = [reader EXCEPT !.by_sequence_root = writer.by_sequence_root]
    /\ ref' = [ref EXCEPT !.writer = ref.reader]
    /\ failed' = FALSE
    /\ UNCHANGED <<reader, file, compacted>>

\* ActiveState::rollback: what was written to the file stays there, unused.
Rollback ==
    /\ Call
    /\ writer' = reader
    /\ ref' = [ref EXCEPT !.writer = ref.reader]
    /\ failed' = FALSE
    /\ UNCHANGED <<reader, file, compacted>>

\* The place of the last header in the file (0: none).
LastHeader == Max({0} \cup {i \in DOMAIN file : file[i].kind = "header"})

\* The process ends, and initialize_state reads the last header.
Reopen ==
    LET root == IF LastHeader = 0 THEN NewRoot(writer.kind) ELSE file[LastHeader].root
    IN  /\ Call
        /\ writer' = root /\ reader' = root
        /\ ref' = [ref EXCEPT !.writer = ref.reader]
        /\ failed' = FALSE
        /\ UNCHANGED <<file, compacted>>

\* TreeFile::compact without a transaction: the write state is saved as it is, and
\* published.
Compact ==
    LET s == CompactTree(reader, writer, file)
    IN  /\ Call /\ ~failed
        /\ writer' = s.root /\ reader' = s.root /\ file' = s.file
        /\ ref' = [ref EXCEPT !.reader = ref.writer]
        /\ compacted' = TRUE
        /\ UNCHANGED failed

Next ==
    \/ \E r \in Requests : ModifyInTransaction(r.keys, r.op)
    \/ \E r \in Requests : ModifyAndSave(r.keys, r.op)
    \/ Commit
    \/ Rollback
    \/ Reopen
    \/ Compact

Spec == Init /\ [][Next]_vars

(***************************************************************************)
(* Reading                                                                 *)
(***************************************************************************)
Unbounded == [kind |-> "Unbounded", key |-> 0]
Everything == [start |-> Unbounded, end |-> Unbounded]

Alive(kid) == kid.index.position > 0

KeysAndValues(kids) ==
    [i \in DOMAIN kids |-> <<kids[i].key, ReadValue(kids[i].index, file)>>]

\* TreeGetter: the entries of those of the keys that are there, removed ones of a
\* versioned tree included.  root: the write state in a transaction, else the readers'.
TreeGetter(root, keys) == Get(root.by_id_root, keys, file).found

\* get_multiple and its variants: those of the entries that have a value.
GetMultiple(root, keys) == KeysAndValues(SelectSeq(TreeGetter(root, keys), Alive))

\* TreeFile::get and get_with_index: the value of one key.
GetValue(root, key) ==
    LET FirstValue(found) == IF found = <<>> THEN None ELSE found[1][2]
    IN  FirstValue(GetMultiple(root, <<key>>))

\* TreeScanner: the entries of a range, in the order asked for.
TreeScanner(root, range, forwards) == Scan(root.by_id_root, range, forwards, file)

\* get_range and its variants: the keys and values of a range.
ScanRange(root, range, forwards) ==
    KeysAndValues(SelectSeq(TreeScanner(root, range, forwards), Alive))

\* first_key and last_key stop at the first key the scan shows.
EndKey(root, forwards) ==
    LET FirstKey(seen) == IF seen = <<>> THEN None ELSE seen[1].key
    IN  FirstKey(TreeScanner(root, Everything, forwards))

\* The node evaluator of TreeFile::reduce: whether the statistics of a child are
\* taken as they are.  lowest_key is never set, so that a start bound is above it.
FullyIncluded(range, key) ==
    /\ range.start.kind = "Unbounded"
    /\ CASE range.end.kind = "Included" -> range.end.key <= key
         [] range.end.kind = "Excluded" -> range.end.key < key
         [] OTHER -> TRUE

RECURSIVE ReduceNode(_, _)

ReduceChild(kids, i, range) ==
    IF ~Visited(kids, i, range, TRUE) THEN NoStats
    ELSE IF FullyIncluded(range, kids[i].key) THEN kids[i].stats
    ELSE ReduceNode(Load(kids[i].position, file), range)

\* TreeFile::reduce.  The statistics are sums, so that the grouping by depth in
\* ReduceState does not matter.
ReduceNode(e, range) ==
    IF e.leaf THEN Reduce(KidIndexes(SelectSeq(e.kids, LAMBDA kid : InBounds(range, kid.key))))
    ELSE Rereduce([i \in DOMAIN e.kids |-> ReduceChild(e.kids, i, range)])

\* TreeSequenceGetter: the entries of those of the sequences that are there.
TreeSequenceGetter(root, sequences) == Get(root.by_sequence_root, sequences, file).found

\* TreeSequenceScanner: the entries of a range of sequences.
TreeSequenceScanner(root, range, forwards) == Scan(root.by_sequence_root, range, forwards, file)

\* The changes that entries stand for, with their values: None for a removal.
KeySequences(entries) ==
    [i \in DOMAIN entries |->
        [key |-> entries[i].index.key, value |-> ReadValue(entries[i].index, file),
         last |-> entries[i].index.last]]

\* get_multiple_by_sequence and its variants.
GetBySequence(root, sequences) == KeySequences(TreeSequenceGetter(root, sequences))

ScanSequences(root, range, forwards) == KeySequences(TreeSequenceScanner(root, range, forwards))

(***************************************************************************)
(* Properties                                                              *)
(***************************************************************************)
RefEntries(r, range, forwards) ==
    LET keys == SelectSeq([k \in Keys |-> k], LAMBDA k : r.map[k] # None /\ InBounds(range, k))
        ordered == IF forwards THEN keys ELSE Reverse(keys)
    IN  [i \in DOMAIN ordered |-> <<ordered[i], r.map[ordered[i]]>>]

IsTheMap(root, r) ==
    /\ \A k \in Keys : GetValue(root, k) = r.map[k]
    /\ GetMultiple(root, [k \in Keys |-> k]) = RefEntries(r, Everything, TRUE)


\* The keys an index is kept for: a versioned tree keeps those that were removed.
Indexed(kind, r) ==
    {k \in Keys : IF kind = "versioned" THEN LastChange(r.history, k) # None ELSE r.map[k] # None}

\* A scan of a range, forwards and backwards, shows each key of the range once and
\* in order, though it leaves out the children that end before the start or begin
\* after the end.  first_key and last_key are the ends of the keys that have an
\* index: in a versioned tree a removed key can be one of them.
ScansAreComplete ==
    /\ \A range \in Ranges, forwards \in BOOLEAN :
            ScanRange(reader, range, forwards) = RefEntries(ref.reader, range, forwards)
    /\ EndKey(reader, TRUE) = Min(Indexed(reader.kind, ref.reader) \cup
                                  {IF Indexed(reader.kind, ref.reader) = {} THEN None ELSE MaxKeyUsed})
    /\ EndKey(reader, FALSE) = Max(Indexed(reader.kind, ref.reader) \cup {None})

\* Statistics over a range are those of its keys, except over a range with an end
\* and no start, where the comparison of TreeFile::reduce is the wrong way round.
ReduceIsExact ==
    \A range \in Ranges :
        range.start.kind # "Unbounded" \/ range.end.kind = "Unbounded" =>
            LET n == Len(RefEntries(ref.reader, range, TRUE))
                s == ReduceNode(reader.by_id_root, range)
            IN  s.alive = n /\ (reader.kind = "unversioned" => s.deleted = 0)

RECURSIVE Depth(_)
Depth(e) == IF e.leaf THEN 0 ELSE 1 + Depth(Load(e.kids[1].position, file))

RECURSIVE SmallestKey(_)
SmallestKey(e) == IF e.leaf THEN e.kids[1].key ELSE SmallestKey(Load(e.kids[1].position, file))

RECURSIVE IsSound(_, _)
IsSound(e, root) ==
    /\ root \/ e.kids # <<>>
    /\ \A i \in 1..(Len(e.kids) - 1) : e.kids[i].key < e.kids[i + 1].key
    /\ e.leaf => Len(e.kids) <= maxOrder
    /\ ~e.leaf => \A i \in DOMAIN e.kids :
            LET kid == e.kids[i]
                child == Load(kid.position, file)
            IN  /\ IsSound(child, FALSE)
                /\ Depth(child) = Depth(e) - 1
                /\ kid.key = MaxKey(child)
                /\ kid.stats = Stats(child)
                /\ i > 1 => e.kids[i - 1].key < SmallestKey(child)

\* Every tree keeps its shape through splits, steals and absorptions: keys
\* ascend, all leaves are equally deep, no node but a root is empty (max_key would
\* panic), no leaf has more than max_order keys, and the key and the statistics an
\* interior node keeps of a child are those of the child.
NodesAreSound ==
    /\ ~failed => IsSound(writer.by_id_root, TRUE)
    /\ IsSound(reader.by_id_root, TRUE)
    /\ ~failed /\ ~compacted => IsSound(writer.by_sequence_root, TRUE)

IsTheHistory(root, r) ==
    /\ root.sequence = Len(r.history) + 1
    /\ GetBySequence(root, [i \in DOMAIN r.history |-> i + 1]) = r.history
    /\ ScanSequences(root, Everything, TRUE) = r.history
    /\ ScanSequences(root, Everything, FALSE) = Reverse(r.history)

\* The by-sequence tree of a versioned root is the history of the changes: each
\* with its key, its value, and the sequence of the change of that key before it.
\* After a compaction it is not (CompactedSequences).
SequencesAreTheHistory ==
    reader.kind = "versioned" /\ ~compacted =>
        /\ ~failed => IsTheHistory(writer, ref.writer)
        /\ IsTheHistory(reader, ref.reader)

=============================================================================
