SPECIFICATION Spec
CONSTANTS
    Keys = {k1, k2, k3}
    MaxAckPending = 1
    MaxSeq = 3
    MaxFaults = 1
    MaxReigns = 1
    Failing = {k1, k2, k3}
    Deletable = {}
SYMMETRY KeySymmetry
CONSTRAINT OneTrouble
INVARIANTS
    TypeOK
    WithinBudget
PROPERTIES
    SlotOutlivesDispatch
    RedownloadKeepsItsSlot
CHECK_DEADLOCK FALSE
