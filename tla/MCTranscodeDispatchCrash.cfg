SPECIFICATION Spec
CONSTANTS
    Workers = {w1, w2}
    MaxSeq = 2
    MaxFaults = 0
    MaxCrashes = 1
SYMMETRY WorkerSymmetry
PROPERTIES
    ClosedNeverSwaps
