SPECIFICATION Spec
CONSTANTS
    Workers = {w1, w2}
    MaxSeq = 2
    MaxRev = 5
    CASAttempts = 2
SYMMETRY WorkerSymmetry
INVARIANTS
    TypeOK
    FirstClaimUnique
PROPERTIES
    SeqNeverDecreases
    FirstAnswerStands
    FactStays
    ClosedNeverStarts
    ImplementsLife
