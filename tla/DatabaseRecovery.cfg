SPECIFICATION Spec
CONSTANTS
    Trees = {t1, t2}
    Writers = {w1}
    Compactors = {k1}
    Readers = {r1}
    None = None
    MaxTransactions = 2
    MaxCompactions = 0
    Faults = {"crash"}
    MaxFaults = 1
SYMMETRY MCSymmetry
INVARIANTS
    OnlyCommittedIsSeen
CHECK_DEADLOCK FALSE
