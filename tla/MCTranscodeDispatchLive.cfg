SPECIFICATION FairSpec
CONSTANTS
    Workers = {w1}
    MaxSeq = 2
    MaxFaults = 1
    MaxCrashes = 1
PROPERTIES
    DispatchCloses
