SPECIFICATION Spec
CONSTANTS
    Holders = {a, b}
    Limit = 2
    Share = 2
    Crossing = {a}
    MaxFaults = 0
    MaxCrashes = 0
INVARIANTS
    WithinLimit
