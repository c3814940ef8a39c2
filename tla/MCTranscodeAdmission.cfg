SPECIFICATION Spec
CONSTANTS
    Files = {f1, f2}
    Slots = 1
    Window = 0
    MaxSeq = 1
    MaxFaults = 1
    MaxReigns = 1
    Deletable = {f1}
    Swapped = {f2}
    Lagging = {f1}
INVARIANTS
    TypeOK
    WithinSlots
PROPERTIES
    SlotKept
CONSTRAINT OneTrouble
