------------------------------ MODULE TreeRoot ------------------------------
(***************************************************************************)
(* The roots of a tree file (tree/versioned.rs, tree/unversioned.rs): the  *)
(* by-id tree, for a versioned root the by-sequence tree beside it, and    *)
(* what a modification, a save and a compaction do to both.                *)
(*                                                                         *)
(* A root is [kind, transaction_id, sequence, by_sequence_root,            *)
(* by_id_root].  An unversioned root leaves sequence and by_sequence_root  *)
(* as they are.                                                            *)
(***************************************************************************)
EXTENDS BTreeEntry

CONSTANTS
    OrderExponent,     \* the order grows with this root of the records (3 in the code)
    DefaultMaxOrder    \* DEFAULT_MAX_ORDER (1000 in the code)

ASSUME OrderAssumption == OrderExponent \in Nat \ {0} /\ DefaultMaxOrder \in Nat \ {0}

\* The largest number whose power is not above n.
IntegerRoot(n) == CHOOSE r \in 0..n : r^OrderExponent <= n /\ (r + 1)^OrderExponent > n

DynamicOrder(records, maxOrder) ==
    IF records > maxOrder^OrderExponent THEN maxOrder
    ELSE Min({maxOrder, Max({4, IntegerRoot(records)})})

\* Root::default_with and initialize_default: the first change of a versioned tree
\* has sequence 2.
NewRoot(kind) ==
    [kind |-> kind, transaction_id |-> 0, sequence |-> IF kind = "versioned" THEN 1 ELSE None,
     by_sequence_root |-> EmptyLeaf, by_id_root |-> EmptyLeaf]

Dirty(root) == root.by_id_root.dirty \/ (root.kind = "versioned" /\ root.by_sequence_root.dirty)

\* Modification::reverse refuses keys that are not strictly ascending.
KeysOrdered(keys) == \A i \in 1..(Len(keys) - 1) : keys[i] < keys[i + 1]

\* The ModificationContext: order and minimum depend on the records there will be.
Context(index, keys, op, records, order, sequence, file) ==
    [index |-> index, keys |-> keys, op |-> op, order |-> order,
     min |-> Min({(order \div 2) - 1, records}), file |-> file, sequence |-> sequence,
     changes |-> <<>>, error |-> FALSE]

SizedContext(index, keys, op, records, sequence, file, maxOrder) ==
    Context(index, keys, op, records, DynamicOrder(records, maxOrder), sequence, file)

ModificationContext(e, index, keys, op, sequence, file, maxOrder) ==
    SizedContext(index, keys, op, TotalKeys(Stats(e)) + Len(keys), sequence, file, maxOrder)

\* Mutant: a root that has to split is left as it is.
GrownRootUnsplit(result, e) ==
    CASE result = "Remove" -> EmptyLeaf
      [] OTHER             -> e

\* What the loops of modify_id_root and modify_sequence_root do about the result.
GrownRoot(result, e) ==
    CASE result = "Split"  -> SplitRoot(e)
      [] result = "Remove" -> EmptyLeaf
      [] OTHER             -> e

\* They go on until all keys are used up.
RECURSIVE ModifyRoot(_)
ModifyRoot(r) ==
    LET Grown(s) == [entry |-> GrownRoot(s.result, s.entry), m |-> s.m]
    IN  IF r.m.keys = <<>> \/ r.m.error THEN r ELSE ModifyRoot(Grown(Modify(r.entry, NoMaxKey, r.m)))

ModifyIdRoot(root, keys, op, file, maxOrder) ==
    ModifyRoot([entry |-> root.by_id_root,
                m |-> ModificationContext(root.by_id_root, root.kind, keys, op, root.sequence,
                                          file, maxOrder)])

\* The keys of the changes in the by-sequence tree: their sequence ids.
SequenceKeys(changes) == [i \in DOMAIN changes |-> changes[i].sequence]

\* One entry in the by-sequence tree for each change.
ModifySequenceRoot(root, changes, file, maxOrder) ==
    ModifyRoot([entry |-> root.by_sequence_root,
                m |-> ModificationContext(root.by_sequence_root, "sequence", SequenceKeys(changes),
                                          SetEach(changes), None, file, maxOrder)])

ModifiedTree(root, transaction, byId, sequenceRoot, file) ==
    [root |-> [root EXCEPT !.by_id_root = byId.entry, !.sequence = byId.m.sequence,
                           !.by_sequence_root = sequenceRoot,
                           !.transaction_id = IF transaction = 0 THEN @ ELSE transaction],
     file |-> file, error |-> FALSE]

SequencedTree(root, transaction, byId, bySequence) ==
    ModifiedTree(root, transaction, byId, bySequence.entry, bySequence.m.file)

\* An error in the by-id tree leaves that tree half modified and everything else as
\* it was.
AfterIds(root, transaction, byId, file, maxOrder) ==
    IF byId.m.error
    THEN [root |-> [root EXCEPT !.by_id_root = byId.entry], file |-> file, error |-> TRUE]
    ELSE IF root.kind = "versioned"
    THEN SequencedTree(root, transaction, byId,
                       ModifySequenceRoot(root, byId.m.changes, byId.m.file, maxOrder))
    ELSE ModifiedTree(root, transaction, byId, root.by_sequence_root, byId.m.file)

\* Root::modify.  transaction = 0: not transactional.
ModifyTree(root, keys, op, transaction, file, maxOrder) ==
    IF ~KeysOrdered(keys) THEN [root |-> root, file |-> file, error |-> TRUE]
    ELSE AfterIds(root, transaction, ModifyIdRoot(root, keys, op, file, maxOrder), file, maxOrder)

HeaderChunk(root) == [kind |-> "header", root |-> root]

WithHeader(root, file) == [root |-> root, file |-> Append(file, HeaderChunk(root))]

SaveIds(root, byId) == WithHeader([root EXCEPT !.by_id_root = byId.entry], byId.file)

SaveSequences(root, bySequence) ==
    SaveIds([root EXCEPT !.by_sequence_root = bySequence.entry],
            SerializeTo(root.by_id_root, bySequence.file))

\* save_tree with Root::serialize: the nodes of both trees, then the header.
SaveTree(root, file) ==
    SaveSequences(root, IF root.kind = "versioned" THEN SerializeTo(root.by_sequence_root, file)
                        ELSE [entry |-> root.by_sequence_root, file |-> file])

\* The by-sequence tree that copy_data_to of a versioned root makes: one entry for
\* each key, under the key itself, put in by one call of modify.  That call leaves
\* the rest of the keys behind once the leaf is too long.
RECURSIVE Entries(_, _)
Entries(e, file) ==
    IF e.leaf THEN e.kids
    ELSE FoldLeft(LAMBDA a, kid : a \o Entries(Load(kid.position, file), file), <<>>, e.kids)

CompactedSequences(entries, file) ==
    LET Change(entry) == [sequence |-> entry.key, key |-> entry.key, last |-> None,
                          position |-> entry.index.position, length |-> entry.index.length]
    IN  Modify(EmptyLeaf, NoMaxKey,
               ModificationContext(EmptyLeaf, "sequence", [i \in DOMAIN entries |-> entries[i].key],
                                   SetEach([i \in DOMAIN entries |-> Change(entries[i])]),
                                   None, file, DefaultMaxOrder)).entry

CopiedRoot(root, include, byId) ==
    [root |-> [root EXCEPT !.by_id_root = byId.entry,
                           !.by_sequence_root =
                                IF root.kind = "versioned" /\ include
                                THEN CompactedSequences(Entries(byId.entry, byId.c.to), byId.c.to)
                                ELSE @],
     c |-> byId.c]

\* Root::copy_data_to.
CopyRoot(root, include, c) == CopiedRoot(root, include, CopyDataTo(root.by_id_root, include, c))

SaveCopy(copy) == SaveTree(copy.root, copy.c.to)

\* TreeCompactor: the values the readers see are copied first, then those of the
\* write state and its nodes; the header follows.
CompactTree(reader, writer, file) ==
    SaveCopy(CopyRoot(writer, TRUE,
                      CopyRoot(reader, FALSE, [from |-> file, to |-> <<>>, copied |-> <<>>]).c))
=============================================================================
