SPECIFICATION FairSystemSpec
CONSTANTS
    Occurrences = {o1}
    Runs = {r1, r2, r3}
    NoRun = NoRun
    NoOccurrence = NoOccurrence
    RunAttempts = 1
    DispatchAttempts = 2
    Workers = {w1}
    Nobody = Nobody
    JobAttempts = 1
    Faults = {"scheduler", "worker", "queue", "caller"}
    MaxFaults = 1
    MaxOther = 1
    MaxEdits = 0
    MaxSpent = 2
PROPERTIES
    OccurrenceSettlesOrConnectorBlocked
