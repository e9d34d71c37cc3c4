------------------------------ MODULE RunState ------------------------------
(***************************************************************************)
(* The vocabulary of a durable chat run: its statuses, its error codes and *)
(* the pure predicates of durable/run-state.ts that every component asks   *)
(* of a run row.  A row is a record; its time-valued columns are kept as   *)
(* the time that has passed since them, in abstract units:                 *)
(*                                                                         *)
(*   silence   time since heartbeatAt (runSilenceMs).  createdAt and the   *)
(*             first heartbeatAt are written by the same INSERT and nobody *)
(*             heartbeats a queued run that has no job, so on such a row   *)
(*             silence is also the time since createdAt.                   *)
(*   due       approvalExpiresAt has passed.                               *)
(***************************************************************************)
EXTENDS Integers

CONSTANTS
    ORPHANED_QUEUED_RUN_GRACE,        \* 10 s
    SNAPSHOT_TERMINAL_RECOVERY_GRACE, \* 30 s
    STALE_ACTIVE_RUN_TIMEOUT          \* 10 min

ASSUME GraceAssumption ==
    /\ ORPHANED_QUEUED_RUN_GRACE \in Nat
    /\ SNAPSHOT_TERMINAL_RECOVERY_GRACE \in Nat
    /\ STALE_ACTIVE_RUN_TIMEOUT \in Nat
    /\ ORPHANED_QUEUED_RUN_GRACE <= STALE_ACTIVE_RUN_TIMEOUT
    /\ SNAPSHOT_TERMINAL_RECOVERY_GRACE <= STALE_ACTIVE_RUN_TIMEOUT

-----------------------------------------------------------------------------
\* Statuses

ACTIVE_RUN_STATUSES ==
    {"queued", "running", "cancel_requested", "waiting_for_approval"}

RUNNER_PROGRESS_STATUSES == {"queued", "running"}

TerminalStatuses == {"completed", "failed", "cancelled"}

RunStatuses == ACTIVE_RUN_STATUSES \cup TerminalStatuses

isTerminalRunStatus(status) == status \in TerminalStatuses

isActiveChatRunStatus(status) == status \in ACTIVE_RUN_STATUSES

-----------------------------------------------------------------------------
\* Error codes.  "none" is a null errorCode.  CHAT_RUN_FAILED stands for every
\* failure that is not listed, MODEL_UPSTREAM for the model/provider failures
\* recognised by isModelUpstreamContentErrorCode.

ErrorCodes ==
    {"none", "CLIENT_CANCELLED", "TOOL_APPROVAL_EXPIRED", "CHAT_RUN_STALE",
     "CHAT_RUN_START_FAILED", "CHAT_RUN_WORKER_SHUTDOWN",
     "CHAT_RUN_OWNERSHIP_LOST", "CHAT_RUN_FAILED", "MODEL_UPSTREAM"}

\* What resolveTerminalStatusFromFinishedSnapshot reads from a snapshot: the
\* outcome its finish reason and error fields describe, "open" for none.  A turn
\* parked on the user has a finish reason that is not terminal: "open" as well.
SnapshotOutcomes == {"open"} \cup TerminalStatuses

\* Artifact publications of the run: none; a block attached by the publisher;
\* the block together with the completed tool call that produced it.
Publications == {"none", "attached", "paired"}

-----------------------------------------------------------------------------
\* Predicates on a row

\* Time since the heartbeat saturates once every comparison below is settled.
MaxSilence == STALE_ACTIVE_RUN_TIMEOUT + 1

hasLiveRunWorker(run) == run.silence < SNAPSHOT_TERMINAL_RECOVERY_GRACE

isStaleActiveRun(run) ==
    \/ /\ run.status = "queued" /\ ~run.jobId
       /\ run.silence > ORPHANED_QUEUED_RUN_GRACE
    \/ /\ run.status \in {"queued", "running", "cancel_requested"}
       /\ ~(run.status = "queued" /\ ~run.jobId)
       /\ run.silence > STALE_ACTIVE_RUN_TIMEOUT

isApprovalWaitingRunExpired(run) ==
    run.status = "waiting_for_approval" /\ run.due

shouldCompleteApprovalRunWithoutPendingConfirmations(run) ==
    run.status = "waiting_for_approval" /\ run.pending = {}

hasCommittedArtifactPublication(run) == run.publication = "paired"

\* The code toTerminalRunError reports for a failed or cancelled run.
toTerminalRunErrorCode(run) ==
    IF run.errorCode # "none" THEN run.errorCode
    ELSE IF run.status = "cancelled" THEN "CLIENT_CANCELLED" ELSE "CHAT_RUN_FAILED"

\* Why a claimed worker may not go on: "none" while its run is running.
toRunStopError(run) ==
    CASE run.status = "running"               -> "none"
      [] run.status = "cancel_requested"      -> "CLIENT_CANCELLED"
      [] run.status \in {"failed", "cancelled"} -> toTerminalRunErrorCode(run)
      [] OTHER                                -> "CHAT_RUN_OWNERSHIP_LOST"

\* Mutation: every finished run gives up its lease.
M_releaseAlways(status, errorCode) == TRUE

\* A cancelled run gives up its sandbox lease, a failed one too unless the
\* model failed and the sandbox is worth keeping.
shouldReleaseSandboxLeaseForFinishedRun(status, errorCode) ==
    \/ status = "cancelled"
    \/ status = "failed" /\ errorCode # "MODEL_UPSTREAM"
=============================================================================
