SPECIFICATION FairSpec
CONSTANTS
    Calls = {c1, c2}
    Ops = {"complete", "reparse", "index", "edit"}
    Attempts = 2
    MaxPolls = 1
    Sweeping = TRUE
    Faults = {"enqueue", "provider", "billing"}
    MaxFaults = 1
CHECK_DEADLOCK FALSE
PROPERTIES
    SourceSettles
