SPECIFICATION SystemSpec
CONSTANTS
    Occurrences = {o1, o2}
    Runs = {r1, r2, r3}
    NoRun = NoRun
    NoOccurrence = NoOccurrence
    RunAttempts = 1
    DispatchAttempts = 2
    Workers = {w1, w2}
    Nobody = Nobody
    JobAttempts = 1
    Faults = {"scheduler", "worker", "queue", "evict", "stall"}
    MaxFaults = 1
    MaxOther = 1
    MaxEdits = 1
    MaxSpent = 1
SYMMETRY Symmetry
INVARIANTS
    SystemTypeOK
    OneSyncAtATime
    SuccessIsARunsSuccess
    OneQueuedScheduledRun
    GivenUpRunIsOver
