SPECIFICATION FairSpec
CONSTANTS
    Holders = {a, b}
    Limit = 2
    Share = 2
    Crossing = {a}
    MaxFaults = 1
    MaxCrashes = 1
CONSTRAINT OneTrouble
INVARIANTS
    TypeOK
    EntryWithinLimit
    OrderlyWithinLimit
PROPERTIES
    UnbackedNoticed
    ConnectionsReturn
