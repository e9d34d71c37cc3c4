SPECIFICATION SystemSpec
CONSTANTS
    ORPHANED_QUEUED_RUN_GRACE = 0
    SNAPSHOT_TERMINAL_RECOVERY_GRACE = 1
    STALE_ACTIVE_RUN_TIMEOUT = 1
    Runs = {r1}
    t1 = t1
    Threads = {t1}
    Confs = {c1}
    OpKeys = {}
    Workers = {w1, w2}
    Callers = {a1, a2}
    Sweepers = {}
    NoRun = NoRun
    ThreadOf <- OneThread
    PublishingRuns = {r1}
    TurnErrors = {"MODEL_UPSTREAM"}
    MaxEvents = 0
    MaxDeliveries = 2
    MaxFaults = 1
SYMMETRY Symmetry
CHECK_DEADLOCK FALSE
INVARIANTS
    SystemTypeOK
    OneExecutorPerRun
    TurnStartsFresh
    LeaseReleasedOnlyAfterFailure
    AnnouncedOutcomeIsCommitted
    ActiveRunHasOwner
PROPERTIES
    LiveRunIsNotFailedAsStale
