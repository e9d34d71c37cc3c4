SPECIFICATION Spec
CONSTANTS
    Calls = {c1, c2}
    Ops = {"complete", "reparse"}
    Attempts = 2
    MaxPolls = 2
    Sweeping = FALSE
    Faults = {"crash", "enqueue", "reparse", "provider", "billing"}
    MaxFaults = 2
CHECK_DEADLOCK FALSE
SYMMETRY Symmetry
INVARIANTS
    TypeOK
    SearchableIsCurrent
PROPERTIES
    OldJobChangesNothing
