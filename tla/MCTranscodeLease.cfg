SPECIFICATION Spec
CONSTANTS
    Workers = {w1, w2}
    TTL = 18
    Renew = 4
    FenceAfter = 12
    Call = 1
    Setup = 2
    Encode = 3
    Swap = 3
SYMMETRY WorkerSymmetry
INVARIANTS
    TypeOK
    SwapExclusive
    FencedInTime
