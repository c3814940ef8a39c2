SPECIFICATION Spec
CONSTANTS
    Workers = {w1, w2}
    MaxSeq = 2
    MaxFaults = 2
    MaxCrashes = 0
SYMMETRY WorkerSymmetry
INVARIANTS
    TypeOK
    SwapExclusive
    TaskFollowsRequest
PROPERTIES
    ClosedNeverSwaps
    RequestNeverOverFact
    ImplementsLife
