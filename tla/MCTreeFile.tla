----------------------------- MODULE MCTreeFile -----------------------------
(***************************************************************************)
(* TreeFile for TLC.  The key lists are long enough for trees of three     *)
(* levels, and hit them at the ends, in the middle and all over.           *)
(***************************************************************************)
EXTENDS TreeFile

\* first, first + step, ... up to last
Stepped(first, last, step) == [i \in 1..((last - first) \div step + 1) |-> first + (i - 1) * step]

Bound(kind, key) == [kind |-> kind, key |-> key]
KeyRange(start, end) == [start |-> start, end |-> end]

MCKinds == {"versioned", "unversioned"}
MCPrefills == {<<>>, Stepped(2, MaxKeyUsed, 2)}

MCRequests ==
    {[keys |-> Stepped(1, MaxKeyUsed, 2), op |-> Set(1)],
     [keys |-> Stepped(1, MaxKeyUsed \div 2, 1), op |-> Replace(2)],
     [keys |-> Stepped(3, MaxKeyUsed, 3), op |-> RemoveKey],
     [keys |-> Stepped(3, MaxKeyUsed \div 2, 1), op |-> RemoveKeys],
     [keys |-> Stepped(MaxKeyUsed \div 2, MaxKeyUsed, 1), op |-> RemoveKeys],
     [keys |-> <<1, 2, 8, 9, MaxKeyUsed>>, op |-> CompareAndSwap(1, None)],
     [keys |-> <<1, 4, 9>>, op |-> SetEach(<<2, 1, 2>>)],
     [keys |-> <<1, 4, 9>>, op |-> SetEach(<<2, 1>>)],
     [keys |-> <<4, 1>>, op |-> Set(2)]}

MCRanges ==
    {KeyRange(Unbounded, Unbounded), KeyRange(Bound("Included", 4), Bound("Included", 9)),
     KeyRange(Bound("Excluded", 4), Bound("Excluded", 9)), KeyRange(Bound("Included", 7), Unbounded),
     KeyRange(Unbounded, Bound("Excluded", 8)), KeyRange(Bound("Excluded", 8), Bound("Included", 9))}
=============================================================================
