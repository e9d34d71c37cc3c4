SPECIFICATION SystemSpec
CONSTANTS
    ORPHANED_QUEUED_RUN_GRACE = 0
    SNAPSHOT_TERMINAL_RECOVERY_GRACE = 1
    STALE_ACTIVE_RUN_TIMEOUT = 1
    Runs = {r1}
    t1 = t1
    Threads = {t1}
    Confs = {}
    OpKeys = {}
    Workers = {w1}
    Callers = {a1}
    Sweepers = {s1}
    NoRun = NoRun
    ThreadOf <- OneThread
    PublishingRuns = {r1}
    TurnErrors = {"CHAT_RUN_FAILED", "MODEL_UPSTREAM"}
    MaxEvents = 2
    MaxDeliveries = 1
    MaxFaults = 0
SYMMETRY Symmetry
CHECK_DEADLOCK FALSE
PROPERTIES
    HeartbeatPreventsRecovery
