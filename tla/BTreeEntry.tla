----------------------------- MODULE BTreeEntry -----------------------------
(***************************************************************************)
(* The nodes of a B-tree (tree/btree_entry.rs, interior.rs, key_entry.rs)  *)
(* as values, and the algorithms on them: modify with split, steal and     *)
(* absorb; get, scan and reduce; serialization; copying for compaction.    *)
(*                                                                         *)
(* An entry is [dirty, leaf, kids].  A kid of a leaf is [key, index]; a    *)
(* kid of an interior node is [key, stats, position], and its position is  *)
(* a Pointer: on disk, or loaded with the place it had before (0: none).   *)
(* A file is a sequence of chunks and a position an index into it, so      *)
(* position 0 is never a chunk, as in the code (a file starts with a page  *)
(* header).                                                                *)
(*                                                                         *)
(* Simplifications.  Keys are natural numbers, and so are sequence ids: a  *)
(* key is eight bytes, big endian, as the by-sequence keys are.  A value   *)
(* is a number and its length is that number.  Chunks are neither          *)
(* encrypted nor checksummed here.  A node that was loaded and not changed *)
(* is the same as its pointer.  Embedded indexes are left out.             *)
(***************************************************************************)
EXTENDS Integers, Sequences, SequencesExt, FiniteSetsExt

None == 0                     \* no value, no sequence, no position
NoMaxKey == 1000000           \* max_key: None

ValueChunk(v) == [kind |-> "value", value |-> v]
NodeChunk(e) == [kind |-> "node", node |-> e]

Leaf(kids) == [dirty |-> TRUE, leaf |-> TRUE, kids |-> kids]
EmptyLeaf == Leaf(<<>>)

OnDisk(at) == [at |-> at, loaded |-> FALSE, entry |-> EmptyLeaf]
Loaded(at, e) == [at |-> at, loaded |-> TRUE, entry |-> e]

\* Pointer::load and map_loaded_entry: the node pointed at.
Load(ptr, file) == IF ptr.loaded THEN ptr.entry ELSE file[ptr.at].node

(***************************************************************************)
(* Statistics and keys of a node                                           *)
(***************************************************************************)
NoStats == [alive |-> 0, deleted |-> 0, bytes |-> 0]

AddStats(a, b) ==
    [alive |-> a.alive + b.alive, deleted |-> a.deleted + b.deleted,
     bytes |-> a.bytes + b.bytes]

\* What one index adds to the statistics: position 0 is a deleted key.
IndexStats(index) ==
    IF index.position > 0
    THEN [alive |-> 1, deleted |-> 0, bytes |-> index.length]
    ELSE [alive |-> 0, deleted |-> 1, bytes |-> 0]

Reduce(indexes) == FoldLeft(LAMBDA a, i : AddStats(a, IndexStats(i)), NoStats, indexes)

Rereduce(stats) == FoldLeft(AddStats, NoStats, stats)

KidIndexes(kids) == [i \in DOMAIN kids |-> kids[i].index]

Stats(e) == IF e.leaf THEN Reduce(KidIndexes(e.kids))
            ELSE Rereduce([i \in DOMAIN e.kids |-> e.kids[i].stats])

\* total_keys.  BySequenceReducer counts all entries as total_sequences: the same sum.
TotalKeys(s) == s.alive + s.deleted

\* max_key unwraps the last child.  An empty node panics: key 0 marks it.
MaxKey(e) == IF e.kids = <<>> THEN 0 ELSE Last(e.kids).key

\* Interior::new: a node that has never been on disk.
NewInterior(e) == [key |-> MaxKey(e), stats |-> Stats(e), position |-> Loaded(0, e)]

\* Mutant: the statistics kept of a child are not computed again.
RefreshedStaleStats(kid, e) ==
    [key |-> MaxKey(e), stats |-> kid.stats, position |-> Loaded(kid.position.at, e)]

\* A kid whose loaded node became e: key and statistics are computed again.
Refreshed(kid, e) ==
    [key |-> MaxKey(e), stats |-> Stats(e), position |-> Loaded(kid.position.at, e)]

\* binary_search_by on kids[from..]: where the key is, or would go.
Search(kids, from, key) ==
    from + Cardinality({i \in from..Len(kids) : kids[i].key < key})

Found(kids, at, key) == at <= Len(kids) /\ kids[at].key = key

(***************************************************************************)
(* Modification.  m is what the code passes along: the keys left, the      *)
(* operation, the order and minimum of this modification, the file being   *)
(* written, the sequence and the changes collected, and whether an error   *)
(* was returned.  m.index says which indexer is used.                      *)
(***************************************************************************)
\* Operation: what a caller asks for all keys of a modification.
Set(v) == [kind |-> "Set", value |-> v]
SetEach(vs) == [kind |-> "SetEach", values |-> vs]
RemoveKeys == [kind |-> "Remove"]
CompareSwap(f) == [kind |-> "CompareSwap", callback |-> f]

\* KeyOperation: what is asked for one key.
Skip == [op |-> "Skip", value |-> None]
SetTo(v) == [op |-> "Set", value |-> v]
RemoveIt == [op |-> "Remove", value |-> None]

\* The indexer of modify_id_root in versioned.rs: every change gets the next
\* sequence, and a removed key stays with position 0.
VersionedIndexer(key, value, existing, m) ==
    LET index == [sequence |-> m.sequence + 1, length |-> value,
                  position |-> IF value = None THEN 0 ELSE Len(m.file) + 1]
        last == IF existing = <<>> THEN None ELSE existing[1].sequence
    IN  [op |-> "Set", index |-> index,
         m |-> [m EXCEPT !.file = IF value = None THEN @ ELSE Append(@, ValueChunk(value)),
                         !.sequence = @ + 1,
                         !.changes = Append(@, [key |-> key, last |-> last] @@ index)]]

\* The indexer of modify_id_root in unversioned.rs: a removed key is taken out.
UnversionedIndexer(value, m) ==
    IF value = None THEN [op |-> "Remove", index |-> <<>>, m |-> m]
    ELSE [op |-> "Set",
          index |-> [sequence |-> None, position |-> Len(m.file) + 1, length |-> value],
          m |-> [m EXCEPT !.file = Append(@, ValueChunk(value))]]

Indexer(key, value, existing, m) ==
    CASE m.index = "versioned"   -> VersionedIndexer(key, value, existing, m)
      [] m.index = "unversioned" -> UnversionedIndexer(value, m)
      [] m.index = "sequence"    -> [op |-> "Set", index |-> value, m |-> m]

\* The loader: the value an index stands for.
ReadValue(index, file) ==
    IF index.position > 0 THEN file[index.position].value ELSE None

\* What the operation asks for the key, given the index stored (<<>>: none).
\* Removing a key that is not there is nothing, except through CompareSwap.
Request(existing, m) ==
    CASE m.op.kind = "Set" -> SetTo(m.op.value)
      [] m.op.kind = "SetEach" ->
            IF m.op.values = <<>> THEN [op |-> "Error", value |-> None]
            ELSE SetTo(Head(m.op.values))
      [] m.op.kind = "Remove" -> IF existing = <<>> THEN Skip ELSE RemoveIt
      [] m.op.kind = "CompareSwap" ->
            m.op.callback[IF existing = <<>> THEN None ELSE ReadValue(existing[1], m.file)]

\* The key is popped, with its value if it has its own.
Popped(m) ==
    [m EXCEPT !.keys = Tail(@),
              !.op = IF @.kind = "SetEach" /\ @.values # <<>>
                     THEN [@ EXCEPT !.values = Tail(@)] ELSE @]

\* The new index of the key, or that there is none.
KeyOperation(request, existing, m) ==
    CASE request.op = "Skip" -> [op |-> "Skip", index |-> <<>>, m |-> Popped(m)]
      [] request.op = "Error" ->
            [op |-> "Skip", index |-> <<>>, m |-> [Popped(m) EXCEPT !.error = TRUE]]
      [] OTHER -> Indexer(Head(m.keys), request.value, existing, Popped(m))


\* The loop of modify_leaf.  Its state l is [kids, last, changed, maxLen, maxKey, m].
LeafIsDone(l) ==
    l.m.keys = <<>> \/ l.m.error \/ Len(l.kids) > l.maxLen \/ Head(l.m.keys) > l.maxKey

WithKey(kids, at, found, entry, op) ==
    CASE op = "Set" /\ found    -> [kids EXCEPT ![at] = entry]
      [] op = "Set" /\ ~found   -> InsertAt(kids, at, entry)
      [] op = "Remove" /\ found -> RemoveAt(kids, at)
      [] OTHER                  -> kids

AfterKey(l, at, found, r) ==
    [l EXCEPT !.kids = WithKey(@, at, found, [key |-> Head(l.m.keys), index |-> r.index], r.op),
              !.last = at,
              !.changed = @ \/ r.op = "Set" \/ (r.op = "Remove" /\ found),
              !.m = r.m]

ModifyKey(l, at, existing) ==
    AfterKey(l, at, existing # <<>>, KeyOperation(Request(existing, l.m), existing, l.m))

ModifyKeyAt(l, at) ==
    ModifyKey(l, at, IF Found(l.kids, at, Head(l.m.keys)) THEN <<l.kids[at].index>> ELSE <<>>)

RECURSIVE ModifyLeaf(_)
ModifyLeaf(l) == IF LeafIsDone(l) THEN l
                 ELSE ModifyLeaf(ModifyKeyAt(l, Search(l.kids, l.last, Head(l.m.keys))))

\* clean_up_leaf and clean_up_interior.
CleanUp(kids, m) ==
    CASE Len(kids) > m.order -> "Split"
      [] kids = <<>>         -> "Remove"
      [] Len(kids) < m.min   -> "Absorb"
      [] OTHER               -> "Changed"

(***************************************************************************)
(* Rebalancing.  Each of these takes the kids of an interior node, and     *)
(* gives the new kids and whether the caller must back up by one.          *)
(***************************************************************************)
\* How many kids a node that is too long gives to a neighbour with free room.
AmountToSteal(e, free, m) ==
    LET eligible == Max({0, Len(e.kids) - m.min})
    IN  IF e.leaf THEN Min({free, eligible}) ELSE Max({free, eligible})

WithKids(e, kids) == [e EXCEPT !.dirty = TRUE, !.kids = kids]

\* The node e at place at gives its first n kids to the one before it.
GiveToPrevious(at, kids, e, previous, n) ==
    [kids EXCEPT ![at - 1] = Refreshed(@, WithKids(previous,
                                                   previous.kids \o SubSeq(e.kids, 1, n))),
                 ![at] = Refreshed(@, WithKids(e, SubSeq(e.kids, n + 1, Len(e.kids))))]

OfferToPrevious(at, kids, e, previous, n, m) ==
    IF Len(previous.kids) >= m.order THEN [kids |-> kids, enough |-> FALSE, backup |-> FALSE]
    ELSE [kids |-> GiveToPrevious(at, kids, e, previous, n),
          enough |-> Len(e.kids) - n <= m.order, backup |-> TRUE]

StealFromStart(at, kids, e, previous, m) ==
    OfferToPrevious(at, kids, e, previous, AmountToSteal(e, m.order - Len(previous.kids), m), m)

StealChildrenFromStart(at, kids, m) ==
    StealFromStart(at, kids, Load(kids[at].position, m.file), Load(kids[at - 1].position, m.file), m)

\* The node e at place at keeps its first left kids and gives the rest to the one
\* after it.
GiveToNext(at, kids, e, next, left) ==
    [kids EXCEPT ![at + 1] = Refreshed(@, WithKids(next,
                                          SubSeq(e.kids, left + 1, Len(e.kids)) \o next.kids)),
                 ![at] = Refreshed(@, WithKids(e, SubSeq(e.kids, 1, left)))]

OfferToNext(at, kids, e, next, left, m) ==
    IF Len(next.kids) >= m.order THEN [kids |-> kids, enough |-> FALSE]
    ELSE [kids |-> GiveToNext(at, kids, e, next, left), enough |-> left <= m.order]

StealFromEnd(at, kids, e, next, m) ==
    OfferToNext(at, kids, e, next,
                Len(e.kids) - AmountToSteal(e, m.order - Len(next.kids), m), m)

StealChildrenFromEnd(at, kids, m) ==
    StealFromEnd(at, kids, Load(kids[at].position, m.file), Load(kids[at + 1].position, m.file), m)

Halves(e) ==
    LET half == (Len(e.kids) + 1) \div 2
    IN  <<WithKids(e, SubSeq(e.kids, 1, half)), WithKids(e, SubSeq(e.kids, half + 1, Len(e.kids)))>>

\* A new node is made of the second half.
Divide(at, kids, halves) ==
    InsertAt([kids EXCEPT ![at] = Refreshed(@, halves[1])], at + 1, NewInterior(halves[2]))

DivideUnlessEnough(at, end, backup, m) ==
    [kids |-> IF end.enough THEN end.kids
              ELSE Divide(at, end.kids, Halves(Load(end.kids[at].position, m.file))),
     backup |-> backup]

SplitAfterStart(at, start, m) ==
    IF start.enough THEN [kids |-> start.kids, backup |-> start.backup]
    ELSE DivideUnlessEnough(at, IF at < Len(start.kids) THEN StealChildrenFromEnd(at, start.kids, m)
                                ELSE [kids |-> start.kids, enough |-> FALSE], start.backup, m)

\* Neighbours take what they can before a new node is made.
ProcessInteriorSplit(at, kids, m) ==
    SplitAfterStart(at, IF at > 1 THEN StealChildrenFromStart(at, kids, m)
                        ELSE [kids |-> kids, enough |-> FALSE, backup |-> FALSE], m)

\* absorb: a neighbour takes all kids of a node that is too short.  Nodes of one
\* level are of one kind, so that leaves never meet an interior node here.
Absorb(sponge, kids, onTop) ==
    WithKids(sponge, IF onTop THEN sponge.kids \o kids ELSE kids \o sponge.kids)

RECURSIVE ProcessInteriorChangeResult(_, _, _, _)

CleanUpSponge(place, kids, sponge, m) ==
    ProcessInteriorChangeResult(CleanUp(sponge.kids, m), place,
                                [kids EXCEPT ![place].position = Loaded(@.at, sponge)], m).kids

\* The node before takes the kids, or the next one when there is none before.
ProcessAbsorb(at, kids, m) ==
    LET place == IF at > 1 THEN at - 1 ELSE at
        left == RemoveAt(kids, at)
    IN  [kids |-> CleanUpSponge(place, left,
                                Absorb(Load(left[place].position, m.file),
                                       Load(kids[at].position, m.file).kids, at > 1), m),
         backup |-> TRUE]

\* What a node does about a child that was modified.
ProcessInteriorChangeResult(result, at, kids, m) ==
    CASE result = "Unchanged" -> [kids |-> kids, backup |-> FALSE]
      [] result = "Split" -> ProcessInteriorSplit(at, kids, m)
      [] result = "Remove" -> [kids |-> RemoveAt(kids, at), backup |-> TRUE]
      [] result = "Absorb" /\ Len(kids) > 1 -> ProcessAbsorb(at, kids, m)
      [] OTHER -> [kids |-> [kids EXCEPT ![at] = Refreshed(@, Load(@.position, m.file))],
                   backup |-> result = "Absorb"]

RECURSIVE Modify(_, _, _)

\* The loop of modify_interior.  Its state l is [kids, last, changed, maxKey, m].
\* An error leaves the children as they are now, with the keys and statistics of
\* before.
InteriorIsDone(l) ==
    l.m.keys = <<>> \/ l.m.error \/ l.last > Len(l.kids) \/ Head(l.m.keys) > l.maxKey

WithChild(kids, at, r) ==
    IF r.result = "Unchanged" THEN kids ELSE [kids EXCEPT ![at].position = Loaded(@.at, r.entry)]

AfterChange(l, at, r, c) ==
    [l EXCEPT !.kids = c.kids, !.last = IF c.backup /\ at > 1 THEN at - 1 ELSE at,
              !.changed = @ \/ r.result # "Unchanged", !.m = r.m]

AfterChild(l, at, r) ==
    IF r.m.error THEN [l EXCEPT !.kids = WithChild(@, at, r), !.m = r.m]
    ELSE AfterChange(l, at, r,
                     ProcessInteriorChangeResult(r.result, at, WithChild(l.kids, at, r), r.m))

ModifyChild(l, at, maxKey) ==
    AfterChild(l, at, Modify(Load(l.kids[at].position, l.m.file), maxKey, l.m))

\* A key beyond the last one pushes the end: the last child may take it, alone.
ModifyChildAt(l, at) ==
    ModifyChild(l, Min({at, Len(l.kids)}),
                IF at > Len(l.kids) THEN Head(l.m.keys) ELSE Min({l.kids[at].key, l.maxKey}))

RECURSIVE ModifyInterior(_)
ModifyInterior(l) == IF InteriorIsDone(l) THEN l
                     ELSE ModifyInterior(ModifyChildAt(l, Search(l.kids, l.last, Head(l.m.keys))))


Modified(e, l) ==
    [entry |-> [e EXCEPT !.kids = l.kids, !.dirty = @ \/ (l.changed /\ ~l.m.error)],
     m |-> l.m,
     result |-> IF l.m.error THEN "Error"
                ELSE IF l.changed THEN CleanUp(l.kids, l.m) ELSE "Unchanged"]

\* BTreeEntry::modify.
Modify(e, maxKey, m) ==
    Modified(e, IF e.leaf
                THEN ModifyLeaf([kids |-> e.kids, last |-> 1, changed |-> FALSE, maxKey |-> maxKey,
                                 maxLen |-> Max({Len(e.kids), m.order}), m |-> m])
                ELSE ModifyInterior([kids |-> e.kids, last |-> 1, changed |-> FALSE,
                                     maxKey |-> maxKey, m |-> m]))

\* split_root: the root becomes an interior node over its two halves.
SplitRoot(e) ==
    [dirty |-> TRUE, leaf |-> FALSE, kids |-> [i \in 1..2 |-> NewInterior(Halves(e)[i])]]

(***************************************************************************)
(* Reading                                                                 *)
(***************************************************************************)
\* The state g of both loops is [kids, last, keys, tookOne, found].
TakeKey(g, at) ==
    [g EXCEPT !.last = at, !.keys = Tail(@), !.tookOne = TRUE,
              !.found = IF Found(g.kids, at, Head(g.keys)) THEN Append(@, g.kids[at]) ELSE @]

\* A key past the end ends the loop, unless it is the first.
RECURSIVE GetFromLeaf(_)
GetFromLeaf(g) ==
    IF g.keys = <<>> \/ (g.tookOne /\ Search(g.kids, g.last, Head(g.keys)) > Len(g.kids))
    THEN g ELSE GetFromLeaf(TakeKey(g, Search(g.kids, g.last, Head(g.keys))))

RECURSIVE Get(_, _, _)

TakeFrom(g, at, r) == [g EXCEPT !.last = at + 1, !.keys = r.keys, !.found = @ \o r.found]

GetFromChild(g, at, file) == TakeFrom(g, at, Get(Load(g.kids[at].position, file), g.keys, file))

\* A child consumes every key it could hold, and is passed over afterwards.
RECURSIVE GetFromInterior(_, _)
GetFromInterior(g, file) ==
    IF g.keys = <<>> \/ Search(g.kids, g.last, Head(g.keys)) > Len(g.kids) THEN g
    ELSE GetFromInterior(GetFromChild(g, Search(g.kids, g.last, Head(g.keys)), file), file)

\* BTreeEntry::get: the entries of those of the sorted keys that are there.
Get(e, keys, file) ==
    LET g == [kids |-> e.kids, last |-> 1, keys |-> keys, tookOne |-> FALSE, found |-> <<>>]
    IN  IF e.leaf THEN GetFromLeaf(g) ELSE GetFromInterior(g, file)

\* A range is [start, end] of bounds [kind, key].
InBounds(range, key) ==
    /\ CASE range.start.kind = "Included" -> key >= range.start.key
         [] range.start.kind = "Excluded" -> key > range.start.key
         [] OTHER -> TRUE
    /\ CASE range.end.kind = "Included" -> key <= range.end.key
         [] range.end.kind = "Excluded" -> key < range.end.key
         [] OTHER -> TRUE

\* A forward scan breaks at a child when the keys before it reach the end.
PastEnd(range, key) ==
    CASE range.end.kind = "Included" -> key > range.end.key
      [] range.end.kind = "Excluded" -> key >= range.end.key
      [] OTHER -> FALSE

\* Mutant: a child whose last key is the start is passed over.
BeforeStartInclusive(range, key) ==
    range.start.kind # "Unbounded" /\ key <= range.start.key

\* A child whose last key is before the start is passed over.
BeforeStart(range, key) ==
    CASE range.start.kind = "Included" -> key < range.start.key
      [] range.start.kind = "Excluded" -> key <= range.start.key
      [] OTHER -> FALSE

RECURSIVE Scan(_, _, _, _)

Visited(kids, i, range, forwards) ==
    /\ ~BeforeStart(range, kids[i].key)
    /\ forwards => \A j \in 1..(i - 1) : ~PastEnd(range, kids[j].key)

ScanChild(kids, i, range, forwards, file) ==
    IF Visited(kids, i, range, forwards)
    THEN Scan(Load(kids[i].position, file), range, forwards, file) ELSE <<>>

InOrder(seq, forwards) == IF forwards THEN seq ELSE Reverse(seq)

\* BTreeEntry::scan: the entries the key evaluator sees, in order.
Scan(e, range, forwards, file) ==
    IF e.leaf THEN InOrder(SelectSeq(e.kids, LAMBDA kid : InBounds(range, kid.key)), forwards)
    ELSE FlattenSeq(InOrder([i \in DOMAIN e.kids |-> ScanChild(e.kids, i, range, forwards, file)],
                            forwards))

(***************************************************************************)
(* Saving and copying                                                      *)
(***************************************************************************)
\* serialize_to: a loaded node is written when it is dirty or was never on disk.
RECURSIVE SerializeTo(_, _)

PlacedAt(acc, kid, place, file) ==
    [kids |-> Append(acc.kids, [kid EXCEPT !.position = OnDisk(place)]), file |-> file]

Written(acc, kid, s) == PlacedAt(acc, kid, Len(s.file) + 1, Append(s.file, NodeChunk(s.entry)))

WriteKid(acc, kid) ==
    IF kid.position.loaded /\ (kid.position.entry.dirty \/ kid.position.at = 0)
    THEN Written(acc, kid, SerializeTo(kid.position.entry, acc.file))
    ELSE PlacedAt(acc, kid, kid.position.at, acc.file)

Saved(e, acc) == [entry |-> [e EXCEPT !.dirty = FALSE, !.kids = acc.kids], file |-> acc.file]

SerializeTo(e, file) ==
    Saved(e, IF e.leaf THEN [kids |-> e.kids, file |-> file]
             ELSE FoldLeft(WriteKid, [kids |-> <<>>, file |-> file], e.kids))

\* copy_chunk: a chunk is copied once; position 0 stays 0.
CopyChunk(at, c) ==
    IF at = 0 \/ at \in DOMAIN c.copied THEN c
    ELSE [c EXCEPT !.to = Append(@, c.from[at]),
                   !.copied = [p \in DOMAIN @ \cup {at} |-> IF p = at THEN Len(c.to) + 1 ELSE @[p]]]

NewPosition(at, c) == IF at = 0 THEN 0 ELSE c.copied[at]

\* copy_data_to: values are copied and their indexes updated, then, when nodes are
\* included, each node below the root is written.  c is the copy under way.
RECURSIVE CopyDataTo(_, _, _)

CopiedIndex(acc, kid, c) ==
    [kids |-> Append(acc.kids, [kid EXCEPT !.index.position = NewPosition(@, c)]), c |-> c]

WithNode(acc, kid, c, s) ==
    [kids |-> Append(acc.kids, [kid EXCEPT !.position = OnDisk(Len(s.file) + 1)]),
     c |-> [c EXCEPT !.to = Append(s.file, NodeChunk(s.entry))]]

CopiedNode(acc, kid, r, include) ==
    IF include THEN WithNode(acc, kid, r.c, SerializeTo(r.entry, r.c.to))
    ELSE [kids |-> Append(acc.kids, kid), c |-> r.c]

Copied(e, acc) == [entry |-> WithKids(e, acc.kids), c |-> acc.c]

CopyDataTo(e, include, c) ==
    LET CopyKid(acc, kid) ==
            IF e.leaf THEN CopiedIndex(acc, kid, CopyChunk(kid.index.position, acc.c))
            ELSE CopiedNode(acc, kid, CopyDataTo(Load(kid.position, acc.c.from), include, acc.c),
                            include)
    IN  Copied(e, FoldLeft(CopyKid, [kids |-> <<>>, c |-> c], e.kids))

=============================================================================
