CONSTANTS
    OrderExponent = 1
    DefaultMaxOrder = 6
    Kinds <- MCKinds
    MaxOrders = {4, 6}
    MaxKeyUsed = 18
    Prefills <- MCPrefills
    Requests <- MCRequests
    Values = {1, 2}
    Ranges <- MCRanges
    MaxCalls = 3
SPECIFICATION Spec
CHECK_DEADLOCK FALSE
INVARIANTS
    
    ScansAreComplete
    ReduceIsExact
    NodesAreSound
    SequencesAreTheHistory
    
