SPECIFICATION Spec
CONSTANTS
    Trees = {t1, t2}
    Writers = {w1, w2}
    Compactors = {k1}
    Readers = {r1}
    None = None
    MaxTransactions = 2
    MaxCompactions = 1
    Faults = {"failure", "crash"}
    MaxFaults = 1
SYMMETRY MCSymmetry
INVARIANTS
    SeenIsCommitted
    
    TransactionsKeepTheirFile
    ReadsUseTheirFile
    RetryFindsNewFile
    SomeoneGoesOn
CHECK_DEADLOCK FALSE
