SPECIFICATION FairSpec
CONSTANTS
    Messages = {m1, m2}
    Scopes = {"A", "B", "off"}
    FirstScope = "A"
    Off = "off"
    Oversized = {m2}
    MaxHistory = 2
    MaxFaults = 1
    MaxEdits = 1
INVARIANTS
    TypeOK
    NothingMissed
    NothingStale
PROPERTIES
    OnlyUnselectedArchived
    Converges
