SPECIFICATION Spec
CONSTANTS
    Workers = {w1, w2}
    MaxSeq = 2
    MaxFaults = 1
    MaxCrashes = 0
SYMMETRY WorkerSymmetry
PROPERTIES
    FactIncorporatedOnce
