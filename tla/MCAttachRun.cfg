SPECIFICATION AttachSpec
CONSTANTS
    ORPHANED_QUEUED_RUN_GRACE = 0
    SNAPSHOT_TERMINAL_RECOVERY_GRACE = 1
    STALE_ACTIVE_RUN_TIMEOUT = 1
    Runs = {r1}
    t1 = t1
    Threads = {t1}
    Confs = {c1}
    OpKeys = {k1}
    Workers = {w1}
    Callers = {a1}
    Sweepers = {}
    Readers = {v1}
    NoRun = NoRun
    ThreadOf <- OneThread
    PublishingRuns = {r1}
    TurnErrors = {"MODEL_UPSTREAM"}
    MaxEvents = 1
    MaxDeliveries = 1
    MaxFaults = 1
CHECK_DEADLOCK FALSE
INVARIANTS
    ClientLearnsCommittedOutcome
PROPERTIES
    TableSpec
