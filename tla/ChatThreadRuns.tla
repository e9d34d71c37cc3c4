--------------------------- MODULE ChatThreadRuns ---------------------------
(***************************************************************************)
(* The chat_thread_runs table and the transactions of                      *)
(* durable/repository.ts and durable/protected-agent-tool-state-repository *)
(* on it.  Each one locks the run row (or is one guarded UPDATE), so each  *)
(* is one atomic step; a transaction that finds its guard false returns    *)
(* null and leaves the row alone.                                          *)
(*                                                                         *)
(* Spec is the table under callers that may issue any transaction at any   *)
(* time.  DurableRun is the callers the code has.                          *)
(***************************************************************************)
EXTENDS RunState, FiniteSets

CONSTANTS
    Runs,     \* run ids; a run's idempotency key names it, so the key is its id
    Threads,
    Confs,    \* tool confirmation ids
    OpKeys    \* semantic keys of protected tool operations

VARIABLES
    runs,        \* the rows
    finishedLog  \* chat_run.finished lines written per run

tableVars == <<runs, finishedLog>>

OpStatuses == {"none", "in_progress", "completed", "unknown"}

Row == [status      : RunStatuses \cup {"absent"},
        thread      : Threads,
        jobId       : BOOLEAN,
        silence     : 0 .. MaxSilence,
        errorCode   : ErrorCodes,
        snapshot    : SnapshotOutcomes,
        publication : Publications,
        pending     : SUBSET Confs,
        due         : BOOLEAN,
        ops         : [OpKeys -> OpStatuses]]

TypeOK ==
    /\ runs \in [Runs -> Row]
    /\ finishedLog \in [Runs -> Nat]

Exists(r)   == runs[r].status # "absent"
Active(r)   == runs[r].status \in ACTIVE_RUN_STATUSES
Terminal(r) == runs[r].status \in TerminalStatuses
\* Some delivery has won the queued -> running compare-and-set.
Claimed(r)  == Exists(r) /\ runs[r].status # "queued"

ActiveOn(t) == {r \in Runs : Active(r) /\ runs[r].thread = t}

Init ==
    /\ \E t \in Threads :
          runs = [r \in Runs |->
                    [status |-> "absent", thread |-> t, jobId |-> FALSE,
                     silence |-> 0, errorCode |-> "none", snapshot |-> "open",
                     publication |-> "none", pending |-> {}, due |-> FALSE,
                     ops |-> [k \in OpKeys |-> "none"]]]
    /\ finishedLog = [r \in Runs |-> 0]

-----------------------------------------------------------------------------
\* Starting a run

\* Mutation: the partial unique index on active runs is missing.
M_noActiveIndex(r, t) == ~Exists(r)

\* The INSERT succeeds unless the idempotency key is taken (onConflictDoNothing)
\* or chat_thread_runs_thread_active_uq rejects a second active run.
CanCreate(r, t) == ~Exists(r) /\ ActiveOn(t) = {}

createChatThreadRun(r, t) ==
    /\ CanCreate(r, t)
    /\ runs' = [runs EXCEPT ![r].status = "queued", ![r].thread = t,
                            ![r].silence = 0]
    /\ UNCHANGED finishedLog

\* Mutation: storing the job id also writes the status back.
M_requeue(r) ==
    /\ Exists(r)
    /\ runs' = [runs EXCEPT ![r].jobId = TRUE, ![r].silence = 0,
                            ![r].status = "queued"]
    /\ UNCHANGED finishedLog

\* No status guard: the run may be terminal by the time its job id is stored.
markChatThreadRunQueued(r) ==
    /\ Exists(r)
    /\ runs' = [runs EXCEPT ![r].jobId = TRUE, ![r].silence = 0]
    /\ UNCHANGED finishedLog

\* Mutation: a redelivery may claim a run that is already running.
M_claimRunning(r) == runs[r].status \in RUNNER_PROGRESS_STATUSES

CanStart(r) == runs[r].status = "queued"

markChatThreadRunRunning(r) ==
    /\ CanStart(r)
    /\ runs' = [runs EXCEPT ![r].status = "running", ![r].silence = 0]
    /\ UNCHANGED finishedLog

-----------------------------------------------------------------------------
\* A turn in progress

\* touchChatThreadRunHeartbeat answers with the status it found, also for a run
\* that is no longer running.
touchChatThreadRunHeartbeat(r) ==
    /\ Active(r)
    /\ runs' = [runs EXCEPT ![r].silence = 0]
    /\ UNCHANGED finishedLog

CanProgress(r) == runs[r].status \in RUNNER_PROGRESS_STATUSES

\* Mutation: the runner's snapshot replaces the stored one.
M_overwrite(current, knowsCall) == IF knowsCall THEN current ELSE "none"

\* mergeChatRunSnapshot: the runner's fields win, but a publication fact that is
\* already committed survives a runner snapshot that does not know of it.
mergePublication(current, knowsCall) ==
    IF current = "attached" /\ knowsCall THEN "paired" ELSE current

\* snap: the outcome the runner's snapshot describes; knowsCall: it holds the
\* completed call of the publishing tool.
updateChatThreadRunProgress(r, snap, knowsCall) ==
    /\ CanProgress(r)
    /\ runs' = [runs EXCEPT
                  ![r].silence = 0,
                  ![r].snapshot = snap,
                  ![r].publication = mergePublication(@, knowsCall)]
    /\ UNCHANGED finishedLog

\* Mutation: a publisher does not look at the status.
M_attachAnytime(r) ==
    /\ Exists(r)
    /\ runs' = [runs EXCEPT ![r].publication =
                              IF @ = "none" THEN "attached" ELSE @]
    /\ UNCHANGED finishedLog

\* A publisher attaches its block as long as the run is active, in the cancel
\* window too; repeating it finds the block and changes nothing.
appendArtifactOutputToChatRun(r) ==
    /\ Active(r)
    /\ runs' = [runs EXCEPT ![r].publication =
                              IF @ = "none" THEN "attached" ELSE @]
    /\ UNCHANGED finishedLog

CanPause(r) == runs[r].status = "running"

\* The runner's final snapshot is merged here as in a progress write.
markChatThreadRunWaitingForApproval(r, confirmationIds, knowsCall) ==
    /\ CanPause(r)
    /\ runs' = [runs EXCEPT ![r].status = "waiting_for_approval",
                            ![r].pending = confirmationIds,
                            ![r].snapshot = "open",
                            ![r].publication = mergePublication(@, knowsCall),
                            ![r].due = FALSE]
    /\ UNCHANGED finishedLog

-----------------------------------------------------------------------------
\* Protected tool operations: claims kept in the run's snapshot

CanUseProtectedState(r) == runs[r].status = "running"

\* claimMany refuses the whole batch when one key is in progress or unknown,
\* reuses completed keys and claims the missing ones.
claimMany(r, keys) ==
    /\ CanUseProtectedState(r)
    /\ \A k \in keys : runs[r].ops[k] \in {"none", "completed"}
    /\ runs' = [runs EXCEPT ![r].ops =
                  [k \in OpKeys |-> IF k \in keys /\ @[k] = "none"
                                    THEN "in_progress" ELSE @[k]]]
    /\ UNCHANGED finishedLog

\* complete stores the observation, or "unknown" when it exceeds the capacity.
complete(r, k, fits) ==
    /\ CanUseProtectedState(r)
    /\ runs[r].ops[k] = "in_progress"
    /\ runs' = [runs EXCEPT ![r].ops[k] = IF fits THEN "completed" ELSE "unknown"]
    /\ UNCHANGED finishedLog

markUnknown(r, k) ==
    /\ CanUseProtectedState(r)
    /\ runs[r].ops[k] = "in_progress"
    /\ runs' = [runs EXCEPT ![r].ops[k] = "unknown"]
    /\ UNCHANGED finishedLog

\* Mutation: the fence writes a status the claim protocol does not know.
M_fenceAsFailed(ops) ==
    [k \in OpKeys |-> IF ops[k] = "in_progress" THEN "failed" ELSE ops[k]]

fenceProtectedOperationsForTerminal(ops) ==
    [k \in OpKeys |-> IF ops[k] = "in_progress" THEN "unknown" ELSE ops[k]]

-----------------------------------------------------------------------------
\* Leaving the active statuses

\* A terminal write fences the open operations.  Nothing asks an ended run for its
\* heartbeat or for the outcome its snapshot describes: both are reset here.
ended(row, status, code) ==
    [row EXCEPT !.status = status, !.errorCode = code,
                !.ops = fenceProtectedOperationsForTerminal(@),
                !.silence = 0, !.snapshot = "open"]

CanRequestCancel(r) ==
    runs[r].status \in {"queued", "running", "waiting_for_approval"}

\* Mutation: a stop does not look for a committed publication.
M_cancelPublished(r) ==
    /\ CanRequestCancel(r)
    /\ runs' = [runs EXCEPT ![r].status = "cancel_requested"]
    /\ UNCHANGED finishedLog

\* A run whose publication is committed is completed instead of cancelled; that
\* commit writes no chat_run.finished line.
requestChatThreadRunCancel(r) ==
    /\ CanRequestCancel(r)
    /\ runs' = IF hasCommittedArtifactPublication(runs[r])
               THEN [runs EXCEPT ![r] = ended(@, "completed", @.errorCode)]
               ELSE [runs EXCEPT ![r].status = "cancel_requested"]
    /\ UNCHANGED finishedLog

\* Nothing is replaced when the confirmation is not (or no longer) a proposed one
\* of the run: replaceConfirmationInToolCalls.
CanRecord(r, c) ==
    runs[r].status = "waiting_for_approval" /\ c \in runs[r].pending

\* Mutation: the completing answer forgets to fence open claims.
M_recordWithoutFence(r, c) ==
    /\ CanRecord(r, c)
    /\ runs' = IF runs[r].pending = {c}
               THEN [runs EXCEPT ![r].status = "completed", ![r].pending = {}]
               ELSE [runs EXCEPT ![r].pending = @ \ {c}]
    /\ UNCHANGED finishedLog

\* The answer to the last pending confirmation completes the run in place.
recordChatThreadRunConfirmationResponse(r, c) ==
    /\ CanRecord(r, c)
    /\ runs' = IF runs[r].pending = {c}
               THEN [runs EXCEPT ![r] = [ended(@, "completed", "none")
                                           EXCEPT !.pending = {}]]
               ELSE [runs EXCEPT ![r].pending = @ \ {c}]
    /\ UNCHANGED finishedLog

\* Mutation: a stopped run may still be completed.
M_completeStopped(status) == ACTIVE_RUN_STATUSES

\* Mutation: a failure is written over whatever the run has become.
M_finishTwice(status) ==
    IF status = "completed" THEN {"running", "waiting_for_approval"} ELSE RunStatuses

allowedSourceStatuses(status) ==
    IF status = "completed" THEN {"running", "waiting_for_approval"}
                            ELSE ACTIVE_RUN_STATUSES

\* ifStale: the caller passed staleAt, so liveness is rechecked under the lock.
CanFinish(r, status, ifStale) ==
    /\ runs[r].status \in allowedSourceStatuses(status)
    /\ ifStale => isStaleActiveRun(runs[r])

\* A publication is not judged again either: it is kept as the commit found it.
finishChatThreadRun(r, status, code, ifStale) ==
    /\ CanFinish(r, status, ifStale)
    /\ runs' = [runs EXCEPT ![r] = ended(@, status, code)]
    /\ finishedLog' = [finishedLog EXCEPT ![r] = @ + 1]

-----------------------------------------------------------------------------
\* Time

\* Every row's heartbeat grows older; the clock is unconstrained.
Tick ==
    /\ runs' = [r \in Runs |->
                  IF Active(r) /\ runs[r].silence < MaxSilence
                  THEN [runs[r] EXCEPT !.silence = @ + 1] ELSE runs[r]]
    /\ runs' # runs
    /\ UNCHANGED finishedLog

ApprovalDeadlinePasses(r) ==
    /\ runs[r].status = "waiting_for_approval" /\ ~runs[r].due
    /\ runs' = [runs EXCEPT ![r].due = TRUE]
    /\ UNCHANGED finishedLog

-----------------------------------------------------------------------------
\* The transactions only a run's own turn, its tools and its publishers issue.
TurnTransaction(r) ==
    \/ touchChatThreadRunHeartbeat(r)
    \/ \E snap \in SnapshotOutcomes, knowsCall \in BOOLEAN :
          updateChatThreadRunProgress(r, snap, knowsCall)
    \/ appendArtifactOutputToChatRun(r)
    \/ \E ids \in SUBSET Confs, knowsCall \in BOOLEAN :
          markChatThreadRunWaitingForApproval(r, ids, knowsCall)
    \/ \E keys \in SUBSET OpKeys : claimMany(r, keys)
    \/ \E k \in OpKeys, fits \in BOOLEAN : complete(r, k, fits)
    \/ \E k \in OpKeys : markUnknown(r, k)

\* The error code a finish writes: none exactly for a completed run.
FinishCodes(status) ==
    IF status = "completed" THEN {"none"} ELSE ErrorCodes \ {"none"}

Next ==
    \/ \E r \in Runs :
          \/ \E t \in Threads : createChatThreadRun(r, t)
          \/ markChatThreadRunQueued(r)
          \/ markChatThreadRunRunning(r)
          \/ Claimed(r) /\ TurnTransaction(r)
          \/ requestChatThreadRunCancel(r)
          \/ \E c \in Confs : recordChatThreadRunConfirmationResponse(r, c)
          \/ \E status \in TerminalStatuses, ifStale \in BOOLEAN :
                \E code \in FinishCodes(status) :
                   finishChatThreadRun(r, status, code, ifStale)
          \/ ApprovalDeadlinePasses(r)
    \/ Tick

Spec == Init /\ [][Next]_tableVars

-----------------------------------------------------------------------------
\* Properties

\* Two requests that both saw the thread idle never leave it with two active
\* runs: chat_thread_runs_thread_active_uq and the statuses every transaction
\* moves between keep one.
OneActiveRunPerThread ==
    \A r, s \in Runs :
        Active(r) /\ Active(s) /\ runs[r].thread = runs[s].thread => r = s

\* A run that ended has no protected operation left open, whichever transaction
\* ended it, and carries an error code exactly when it did not complete.
TerminalRunsAreSettled ==
    \A r \in Runs :
        /\ Terminal(r) => \A k \in OpKeys : runs[r].ops[k] # "in_progress"
        /\ (runs[r].errorCode # "none") <=> (runs[r].status \in {"failed", "cancelled"})

\* Stop and publish are ordered by the run row: an acknowledged stop never
\* covers a publication that was committed, tool call and all, before it.
StopNeverCoversPublication ==
    \A r \in Runs : runs[r].status = "cancel_requested"
                       => ~hasCommittedArtifactPublication(runs[r])

\* No run is reported finished twice, nor before it ended.
ReportedAtMostOnce ==
    \A r \in Runs : finishedLog[r] <= IF Terminal(r) THEN 1 ELSE 0

\* A late runner, publisher, recovery, stop or confirmation changes nothing of
\* the outcome of a run that ended.
OutcomeIsFinal ==
    [][\A r \in Runs : Terminal(r) =>
          /\ Terminal(r)' /\ runs'[r].status = runs[r].status
          /\ runs'[r].errorCode = runs[r].errorCode
          /\ runs'[r].ops = runs[r].ops
          /\ runs'[r].pending = runs[r].pending
          /\ runs'[r].publication = runs[r].publication]_tableVars

\* A committed publication is never lost to a runner snapshot that predates it,
\* and an operation whose effect may have happened is never offered again.
CommittedFactsSurvive ==
    [][\A r \in Runs :
          /\ runs[r].publication # "none" => runs'[r].publication # "none"
          /\ runs[r].publication = "paired" => runs'[r].publication = "paired"
          /\ \A k \in OpKeys :
                /\ runs[r].ops[k] # "none" => runs'[r].ops[k] # "none"
                /\ runs[r].ops[k] \in {"completed", "unknown"}
                      => runs'[r].ops[k] = runs[r].ops[k]]_tableVars

\* The table implements the life of a run that the component promises.
Lifecycle == INSTANCE RunLifecycle
                WITH status <- [r \in Runs |-> runs[r].status],
                     thread <- [r \in Runs |-> runs[r].thread]

LifecycleSpec == Lifecycle!Spec
=============================================================================
