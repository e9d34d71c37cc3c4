SPECIFICATION Spec
CONSTANTS
    ORPHANED_QUEUED_RUN_GRACE = 0
    SNAPSHOT_TERMINAL_RECOVERY_GRACE = 0
    STALE_ACTIVE_RUN_TIMEOUT = 0
    Runs = {r1, r2}
    Threads = {t1}
    Confs = {c1}
    OpKeys = {k1}
SYMMETRY Symmetry
CHECK_DEADLOCK FALSE
INVARIANTS
    TypeOK
    OneActiveRunPerThread
    TerminalRunsAreSettled
    StopNeverCoversPublication
    ReportedAtMostOnce
PROPERTIES
    OutcomeIsFinal
    CommittedFactsSurvive
