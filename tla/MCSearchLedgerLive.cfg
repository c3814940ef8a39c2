SPECIFICATION FairSpec
CONSTANTS
    Keys = {k1}
    MaxAckPending = 1
    MaxSeq = 3
    MaxFaults = 2
    MaxReigns = 1
    Failing = {k1}
    Deletable = {k1}
PROPERTIES
    SlotReleased
CHECK_DEADLOCK FALSE
