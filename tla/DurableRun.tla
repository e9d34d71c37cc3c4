----------------------------- MODULE DurableRun -----------------------------
(***************************************************************************)
(* Durable chat runs end to end: the API handlers that create, stop and    *)
(* answer a run, the queue deliveries that execute it, and the recovery    *)
(* that readers and the scheduler run on it (durable/service.ts,           *)
(* run-recovery.ts, approval.ts, runner.ts, the worker's processor).       *)
(*                                                                         *)
(* A process is one invocation of a handler.  Between two of its awaits it *)
(* is at a program counter and holds only what it read before: every       *)
(* transaction of ChatThreadRuns, Redis push and lease release is a step   *)
(* of its own and any other process may run in between.                    *)
(***************************************************************************)
EXTENDS ChatThreadRuns, Sequences

CONSTANTS
    Workers,   \* slots for queue deliveries
    Callers,   \* slots for API requests
    Sweepers,  \* slots for scheduler ticks
    NoRun,
    ThreadOf,  \* the thread the request with a run's idempotency key is for
    PublishingRuns, \* runs with a tool that publishes an artifact
    TurnErrors,    \* codes of the errors a turn may end with by itself
    MaxEvents,     \* bound: a turn pushes while its stream is shorter
    MaxDeliveries, \* BullMQ: one delivery and its stall redeliveries
    MaxFaults      \* bound: crashes and failed Redis, queue or database calls

Procs == Workers \cup Callers \cup Sweepers

ASSUME DurableRunAssumption ==
    /\ Workers \cap (Callers \cup Sweepers) = {}
    /\ NoRun \notin Runs
    /\ ThreadOf \in [Runs -> Threads]
    /\ PublishingRuns \subseteq Runs
    /\ TurnErrors \subseteq {"CHAT_RUN_FAILED", "MODEL_UPSTREAM"}
    /\ MaxEvents \in Nat /\ MaxFaults \in Nat
    /\ MaxDeliveries \in Nat \ {0}

VARIABLES
    proc,     \* the processes
    stream,   \* the Redis event list of each run
    queue,    \* deliveries the run's job may still get
    released, \* runs whose thread sandbox lease was released for them
    faults

systemVars == <<proc, stream, queue, released, faults>>
vars == <<runs, finishedLog, proc, stream, queue, released, faults>>

-----------------------------------------------------------------------------
\* Processes

\* pc    where the handler is
\* run   the run it works on;  want: the run a create request asks for
\* out   how the turn ended, "open" while it streams, "paused" for an approval;
\*       in recovery, the outcome the snapshot describes
\* why   the reason the turn's abort signal carries, "none" if not aborted
\* code  the error code to commit
\* todo  what is left to do after a commit;  back: where to go on after that
TurnPcs == {"turn", "push", "progress", "tail", "commit"}

Pcs == TurnPcs \cup
    {"idle", "recheck", "insert", "enqueue", "mark_queued", "start_failed",
     "request_cancel", "force_cancel", "record", "expire", "complete_approval",
     "finish_snapshot", "recover_stale", "fail_stale", "job", "claim",
     "cancel_before", "lost", "catch", "flush", "persist", "boundary",
     "effects", "return"}

Effects == {"stop", "error", "finish", "paused_finish", "release"}

Events == [type : {"delta", "stop", "error", "finish", "paused_finish"},
           code : ErrorCodes]

Local == [pc : Pcs, run : Runs \cup {NoRun}, want : Runs \cup {NoRun},
          out : SnapshotOutcomes \cup {"paused"}, why : ErrorCodes,
          code : ErrorCodes, todo : Seq(Effects), back : Pcs]

Idle == [pc |-> "idle", run |-> NoRun, want |-> NoRun, out |-> "open",
         why |-> "none", code |-> "none", todo |-> <<>>, back |-> "idle"]

SystemTypeOK ==
    /\ TypeOK
    /\ proc \in [Procs -> Local]
    /\ stream \in [Runs -> Seq(Events)]
    /\ queue \in [Runs -> 0 .. MaxDeliveries]
    /\ released \in SUBSET Runs
    /\ faults \in 0 .. MaxFaults

SystemInit ==
    /\ Init
    /\ proc = [p \in Procs |-> Idle]
    /\ stream = [r \in Runs |-> <<>>]
    /\ queue = [r \in Runs |-> 0]
    /\ released = {}
    /\ faults = 0

At(p, pc) == proc[p].pc = pc
Run(p) == proc[p].run

\* Where a handler of p ends: a job reports its result to the queue.
Home(p) == IF p \in Workers THEN "return" ELSE "idle"

\* local goes on at pc, forgetting what only the finished part needed.
Resume(local, pc) ==
    IF pc = "idle" THEN Idle
    ELSE [Idle EXCEPT !.pc = pc, !.run = local.run, !.want = local.want]

GoTo(p, pc) == proc' = [proc EXCEPT ![p].pc = pc]
End(p) == proc' = [proc EXCEPT ![p] = Resume(@, Home(p))]

\* After a commit: do the effects in order, then continue at back.
Do(p, effects, code, back) ==
    proc' = [proc EXCEPT ![p] =
              IF effects = <<>> THEN Resume(@, back)
              ELSE [Resume(@, "effects") EXCEPT !.todo = effects, !.code = code,
                                                !.back = back]]

NoEffect == UNCHANGED <<stream, queue, released, faults>>
ReadOnly == UNCHANGED tableVars

\* synthesizeTerminalRunEvents: an error for a failed or cancelled run, a finish.
TerminalEvents(status) ==
    IF status = "completed" THEN <<"finish">> ELSE <<"error", "finish">>

ReleaseIf(condition) == IF condition THEN <<"release">> ELSE <<>>

Push(r, type, code) ==
    stream' = [stream EXCEPT ![r] = Append(@, [type |-> type, code |-> code])]

-----------------------------------------------------------------------------
\* failRunIfStale: recovery of a run as it was just read.  Every reader of a
\* thread and every scheduler tick may run it.

\* finishRunIfSnapshotIsTerminal: the outcome a silent worker left behind.
snapshotVerdict(run) ==
    IF \/ run.status \notin ACTIVE_RUN_STATUSES \ {"waiting_for_approval"}
       \/ hasLiveRunWorker(run)
    THEN "open"
    ELSE IF run.snapshot = "open" /\ hasCommittedArtifactPublication(run)
         THEN "completed" ELSE run.snapshot

\* The first recovery that applies to the row, "none" if the run is left alone.
recoveryOf(run) ==
    IF isApprovalWaitingRunExpired(run) THEN "expire"
    ELSE IF shouldCompleteApprovalRunWithoutPendingConfirmations(run)
         THEN "complete_approval"
    ELSE IF snapshotVerdict(run) # "open" THEN "finish_snapshot"
    ELSE IF isStaleActiveRun(run) THEN "fail_stale" ELSE "none"

staleCode(run) == IF run.status = "queued" /\ ~run.jobId
                  THEN "CHAT_RUN_START_FAILED" ELSE "CHAT_RUN_STALE"

\* The code recovery will write; a row that is not terminal has none yet.
recoveryCode(run) ==
    CASE recoveryOf(run) = "expire" -> "TOOL_APPROVAL_EXPIRED"
      [] recoveryOf(run) = "finish_snapshot" /\ snapshotVerdict(run) # "completed" ->
            toTerminalRunErrorCode([run EXCEPT !.status = snapshotVerdict(run)])
      [] recoveryOf(run) = "fail_stale" -> staleCode(run)
      [] OTHER -> "none"

\* The caller of recovery goes on: a create request only if the run it met is
\* no longer active.
AfterRecovery(local, run) ==
    IF local.back = "recheck" /\ run.status \notin TerminalStatuses
    THEN Idle ELSE Resume(local, local.back)

\* local works on r, has just read its row and calls failRunIfStale on it.
failRunIfStale(local, r) ==
    IF recoveryOf(runs[r]) = "none"
    THEN AfterRecovery([local EXCEPT !.run = r], runs[r])
    ELSE [local EXCEPT !.pc = recoveryOf(runs[r]), !.run = r,
                       !.out = snapshotVerdict(runs[r]),
                       !.code = recoveryCode(runs[r])]

\* A lost commit re-reads the run and returns it.
Recovered(p) ==
    proc' = [proc EXCEPT ![p] = AfterRecovery(@, runs[@.run])]

\* expireApprovalWaitingRun commits without asking again whether the run still
\* waits: any active status will do.
expireApprovalWaitingRun(p) ==
    /\ At(p, "expire")
    /\ \/ /\ finishChatThreadRun(Run(p), "cancelled", proc[p].code, FALSE)
          /\ Do(p, <<"error", "finish", "release">>, proc[p].code, proc[p].back)
       \/ /\ ~CanFinish(Run(p), "cancelled", FALSE) /\ ReadOnly
          /\ Recovered(p)
    /\ NoEffect

\* The completed approval run is announced by its message only.
completeApprovalRunIfNoPendingConfirmations(p) ==
    /\ At(p, "complete_approval")
    /\ \/ /\ finishChatThreadRun(Run(p), "completed", "none", FALSE)
          /\ Do(p, <<>>, "none", proc[p].back)
       \/ /\ ~CanFinish(Run(p), "completed", FALSE) /\ ReadOnly
          /\ proc' = [proc EXCEPT ![p] = failRunIfStale(@, @.run)]
    /\ NoEffect

\* No staleAt here: the worker's silence is not rechecked under the lock.
finishRunIfSnapshotIsTerminal(p) ==
    /\ At(p, "finish_snapshot")
    /\ \/ /\ finishChatThreadRun(Run(p), proc[p].out, proc[p].code, FALSE)
          /\ Do(p, ReleaseIf(proc[p].out # "completed"), proc[p].code, proc[p].back)
       \/ /\ ~CanFinish(Run(p), proc[p].out, FALSE) /\ ReadOnly
          /\ GoTo(p, "recover_stale")
    /\ NoEffect

\* A lost completion re-reads the row and still asks whether it is stale.
recoverIfStillStale(p) ==
    /\ At(p, "recover_stale")
    /\ proc' = [proc EXCEPT ![p] =
                  IF isStaleActiveRun(runs[Run(p)])
                  THEN [@ EXCEPT !.pc = "fail_stale", !.code = staleCode(runs[Run(p)])]
                  ELSE AfterRecovery(@, runs[Run(p)])]
    /\ NoEffect /\ ReadOnly

\* Mutation: staleness is not rechecked under the row lock.
M_failWithoutRecheck(p) ==
    /\ At(p, "fail_stale")
    /\ \/ /\ finishChatThreadRun(Run(p), "failed", proc[p].code, FALSE)
          /\ Do(p, <<"error", "finish", "release">>, proc[p].code, proc[p].back)
       \/ /\ ~CanFinish(Run(p), "failed", FALSE) /\ ReadOnly
          /\ Recovered(p)
    /\ NoEffect

failStaleActiveRun(p) ==
    /\ At(p, "fail_stale")
    /\ \/ /\ finishChatThreadRun(Run(p), "failed", proc[p].code, TRUE)
          /\ Do(p, <<"error", "finish", "release">>, proc[p].code, proc[p].back)
       \/ /\ ~CanFinish(Run(p), "failed", TRUE) /\ ReadOnly
          /\ Recovered(p)
    /\ NoEffect

RecoveryStep(p) ==
    \/ expireApprovalWaitingRun(p)
    \/ completeApprovalRunIfNoPendingConfirmations(p)
    \/ finishRunIfSnapshotIsTerminal(p)
    \/ recoverIfStillStale(p)
    \/ failStaleActiveRun(p)

-----------------------------------------------------------------------------
\* getOrCreateRun

\* A known key returns its run.  Otherwise the thread's active run, if any, is
\* recovered first; the request is refused (409) if it stays active.
getOrCreateRun(p, r) ==
    /\ p \in Callers /\ At(p, "idle") /\ ~Exists(r)
    /\ LET request == [Idle EXCEPT !.pc = "recheck", !.want = r, !.back = "recheck"]
       IN  proc' = [proc EXCEPT ![p] =
                     IF ActiveOn(ThreadOf[r]) = {} THEN request
                     ELSE failRunIfStale(request,
                             CHOOSE a \in ActiveOn(ThreadOf[r]) : TRUE)]
    /\ NoEffect /\ ReadOnly

recheckActiveRun(p) ==
    /\ At(p, "recheck")
    /\ IF ActiveOn(ThreadOf[proc[p].want]) = {} THEN GoTo(p, "insert") ELSE End(p)
    /\ NoEffect /\ ReadOnly

\* A unique-index conflict, on the key or on the active run, ends the request.
insertRun(p) ==
    /\ At(p, "insert")
    /\ LET r == proc[p].want IN
       \/ /\ createChatThreadRun(r, ThreadOf[r])
          /\ proc' = [proc EXCEPT ![p] =
                       [Idle EXCEPT !.pc = "enqueue", !.run = r]]
       \/ ~CanCreate(r, ThreadOf[r]) /\ ReadOnly /\ End(p)
    /\ NoEffect

enqueueThreadChatRunJob(p) ==
    /\ At(p, "enqueue")
    /\ queue' = [queue EXCEPT ![Run(p)] = MaxDeliveries]
    /\ GoTo(p, "mark_queued")
    /\ ReadOnly /\ UNCHANGED <<stream, released, faults>>

\* An enqueue that is reported as failed may have left the job behind.
enqueueFails(p) ==
    /\ At(p, "enqueue") /\ faults < MaxFaults
    /\ faults' = faults + 1
    /\ \/ UNCHANGED queue
       \/ queue' = [queue EXCEPT ![Run(p)] = MaxDeliveries]
    /\ GoTo(p, "start_failed")
    /\ ReadOnly /\ UNCHANGED <<stream, released>>

failRunBeforeMessages(p) ==
    /\ At(p, "start_failed")
    /\ \/ /\ finishChatThreadRun(Run(p), "failed", "CHAT_RUN_START_FAILED", FALSE)
          /\ Do(p, <<"error", "finish", "release">>, "CHAT_RUN_START_FAILED", "idle")
       \/ ~CanFinish(Run(p), "failed", FALSE) /\ ReadOnly /\ End(p)
    /\ NoEffect

markQueued(p) ==
    /\ At(p, "mark_queued")
    /\ markChatThreadRunQueued(Run(p))
    /\ End(p)
    /\ NoEffect

CreateStep(p) ==
    \/ recheckActiveRun(p)
    \/ insertRun(p)
    \/ enqueueThreadChatRunJob(p)
    \/ enqueueFails(p)
    \/ failRunBeforeMessages(p)
    \/ markQueued(p)

-----------------------------------------------------------------------------
\* stopRun

stopRun(p, r) ==
    /\ p \in Callers /\ At(p, "idle") /\ Active(r)
    /\ proc' = [proc EXCEPT ![p] =
                  [Idle EXCEPT !.pc = "request_cancel", !.run = r]]
    /\ NoEffect /\ ReadOnly

\* A committed publication completed the run instead, or someone else ended it:
\* done.  A second stop finds cancel_requested; stopRunAndReturn waits for the
\* first one and forces the cancellation when the wait times out.
requestCancel(p) ==
    /\ At(p, "request_cancel")
    /\ \/ /\ requestChatThreadRunCancel(Run(p))
          /\ IF hasCommittedArtifactPublication(runs[Run(p)]) THEN End(p)
             ELSE Do(p, <<"stop">>, "none", "force_cancel")
       \/ /\ ~CanRequestCancel(Run(p)) /\ ReadOnly
          /\ \/ End(p)
             \/ Active(Run(p)) /\ GoTo(p, "force_cancel")
    /\ NoEffect

\* Mutation: the cancellation is announced before it is committed.
M_announceCancelFirst(p) ==
    /\ At(p, "force_cancel")
    /\ \/ finishChatThreadRun(Run(p), "cancelled", "CLIENT_CANCELLED", FALSE)
       \/ ReadOnly
    /\ Do(p, <<"error", "finish", "release">>, "CLIENT_CANCELLED", "idle")
    /\ NoEffect

\* The stop itself ends the run; the worker finds out and unwinds.
forceCancelStoppedRun(p) ==
    /\ At(p, "force_cancel")
    /\ \/ /\ finishChatThreadRun(Run(p), "cancelled", "CLIENT_CANCELLED", FALSE)
          /\ Do(p, <<"error", "finish", "release">>, "CLIENT_CANCELLED", "idle")
       \/ ~CanFinish(Run(p), "cancelled", FALSE) /\ ReadOnly /\ End(p)
    /\ NoEffect

StopStep(p) == requestCancel(p) \/ forceCancelStoppedRun(p)

-----------------------------------------------------------------------------
\* Answering a confirmation

\* An expired pause is ended instead; other states refuse the answer.
validateConfirmationResponse(p, r) ==
    /\ p \in Callers /\ At(p, "idle") /\ runs[r].status = "waiting_for_approval"
    /\ proc' = [proc EXCEPT ![p] =
                  IF isApprovalWaitingRunExpired(runs[r])
                  THEN [Idle EXCEPT !.pc = "expire", !.run = r,
                                    !.code = "TOOL_APPROVAL_EXPIRED"]
                  ELSE [Idle EXCEPT !.pc = "record", !.run = r]]
    /\ NoEffect /\ ReadOnly

\* pending only shrinks while the run waits, so every confirmation that can be
\* recorded now was pending when it was validated.
recordConfirmationResponse(p) ==
    /\ At(p, "record")
    /\ \/ \E c \in Confs : recordChatThreadRunConfirmationResponse(Run(p), c)
       \/ ReadOnly /\ (Confs = {} \/ \E c \in Confs : ~CanRecord(Run(p), c))
    /\ End(p) /\ NoEffect

-----------------------------------------------------------------------------
\* Scheduler ticks and readers

\* Mutation: the scheduler only sweeps expired approvals.
M_sweepApprovalsOnly(p, r) ==
    /\ p \in Sweepers /\ At(p, "idle")
    /\ isApprovalWaitingRunExpired(runs[r])
    /\ proc' = [proc EXCEPT ![p] = failRunIfStale(Idle, r)]
    /\ NoEffect /\ ReadOnly

\* expireWaitingApprovals, failStaleActiveRuns: one listed run each.
sweep(p, r) ==
    /\ p \in Sweepers /\ At(p, "idle")
    /\ isApprovalWaitingRunExpired(runs[r]) \/ isStaleActiveRun(runs[r])
    /\ proc' = [proc EXCEPT ![p] = failRunIfStale(Idle, r)]
    /\ NoEffect /\ ReadOnly

\* findActiveRun, the result wait and the attach loop recover what they read.
readRun(p, r) ==
    /\ p \in Callers /\ At(p, "idle")
    /\ recoveryOf(runs[r]) # "none"
    /\ proc' = [proc EXCEPT ![p] = failRunIfStale(Idle, r)]
    /\ NoEffect /\ ReadOnly

-----------------------------------------------------------------------------
\* A queue delivery: processRunJob decides whether it may execute the turn

\* Mutation: the queue delivers a job it has given up.
M_deliverForever(p, r) ==
    /\ p \in Workers /\ At(p, "idle") /\ Exists(r)
    /\ queue' = [queue EXCEPT ![r] = @ - 1]
    /\ proc' = [proc EXCEPT ![p] = [Idle EXCEPT !.pc = "job", !.run = r]]
    /\ ReadOnly /\ UNCHANGED <<stream, released, faults>>

Deliver(p, r) ==
    /\ p \in Workers /\ At(p, "idle") /\ queue[r] > 0
    /\ queue' = [queue EXCEPT ![r] = @ - 1]
    /\ proc' = [proc EXCEPT ![p] = [Idle EXCEPT !.pc = "job", !.run = r]]
    /\ ReadOnly /\ UNCHANGED <<stream, released, faults>>

\* Only a queued run is claimed.  A run that is already running belongs to an
\* earlier delivery: recovered if stale, skipped otherwise.
processRunJob(p) ==
    /\ At(p, "job")
    /\ LET run == runs[Run(p)] IN
       proc' = [proc EXCEPT ![p] =
         CASE run.status = "queued" -> [@ EXCEPT !.pc = "claim"]
           [] run.status = "cancel_requested" -> [@ EXCEPT !.pc = "cancel_before"]
           [] run.status = "running" /\ isStaleActiveRun(run) ->
                 failRunIfStale([@ EXCEPT !.back = "return"], @.run)
           [] OTHER -> Resume(@, "return")]
    /\ NoEffect /\ ReadOnly

\* A lost claim reads the run again and decides as for a redelivery.
claimRun(p) ==
    /\ At(p, "claim")
    /\ \/ markChatThreadRunRunning(Run(p)) /\ GoTo(p, "turn")
       \/ ~CanStart(Run(p)) /\ ReadOnly /\ GoTo(p, "job")
    /\ NoEffect

cancelRunBeforeMessages(p) ==
    /\ At(p, "cancel_before")
    /\ \/ /\ finishChatThreadRun(Run(p), "cancelled", "CLIENT_CANCELLED", FALSE)
          /\ Do(p, <<"error", "finish", "release">>, "CLIENT_CANCELLED", "return")
       \/ ~CanFinish(Run(p), "cancelled", FALSE) /\ ReadOnly /\ End(p)
    /\ NoEffect

\* The job is complete: the queue delivers it no more.
JobReturns(p) ==
    /\ At(p, "return")
    /\ queue' = [queue EXCEPT ![Run(p)] = 0]
    /\ proc' = [proc EXCEPT ![p] = Idle]
    /\ ReadOnly /\ UNCHANGED <<stream, released, faults>>

JobStep(p) ==
    \/ processRunJob(p)
    \/ claimRun(p)
    \/ cancelRunBeforeMessages(p)
    \/ JobReturns(p)

-----------------------------------------------------------------------------
\* processThreadChatRunJob: the turn

\* Before the terminal commit starts the turn can be aborted, once: by the cancel
\* channel or the status poll when the row is no longer running, and by a worker
\* that shuts down.
Abortable(p) ==
    /\ \/ proc[p].pc \in {"turn", "tail"}
       \/ proc[p].pc \in {"push", "progress"} /\ proc[p].back # "persist"
    /\ proc[p].why = "none"

checkRunOwnership(p) ==
    /\ Abortable(p) /\ toRunStopError(runs[Run(p)]) # "none"
    /\ proc' = [proc EXCEPT ![p].why = toRunStopError(runs[Run(p)])]
    /\ NoEffect /\ ReadOnly

interruptActiveChatRuns(p) ==
    /\ Abortable(p)
    /\ proc' = [proc EXCEPT ![p].why = "CHAT_RUN_WORKER_SHUTDOWN"]
    /\ NoEffect /\ ReadOnly

\* The turn throws: an abort's reason hides every later error.
Throw(p, code) ==
    proc' = [proc EXCEPT ![p].pc = "catch", ![p].why = "none",
                         ![p].code = IF proc[p].why # "none" THEN proc[p].why ELSE code]

\* An event (or a coalesced window of deltas) is pushed only after a heartbeat
\* has found the run running; any other answer stops the turn.
heartbeat(p) ==
    /\ \/ At(p, "turn") /\ proc[p].why = "none"
       \/ At(p, "tail")
    /\ LET r == Run(p) IN
       \/ /\ runs[r].status = "running" /\ Len(stream[r]) < MaxEvents
          /\ touchChatThreadRunHeartbeat(r)
          /\ proc' = [proc EXCEPT ![p].pc = "push", ![p].back = proc[p].pc]
       \/ /\ runs[r].status # "running"
          /\ \/ touchChatThreadRunHeartbeat(r)
             \/ ~Active(r) /\ ReadOnly
          /\ Throw(p, toRunStopError(runs[r]))
    /\ NoEffect

\* appendRunEvent: the Redis push, then the progress write, which is dropped when
\* the run has left the runner's statuses in between.
appendEvent(p) ==
    /\ At(p, "push")
    /\ Push(Run(p), "delta", "none")
    /\ GoTo(p, "progress")
    /\ ReadOnly /\ UNCHANGED <<queue, released, faults>>

appendRunEvent(p) ==
    /\ At(p, "progress")
    /\ LET snap == IF proc[p].out = "paused" THEN "open" ELSE proc[p].out IN
       \/ \E knowsCall \in BOOLEAN :
             updateChatThreadRunProgress(Run(p), snap, knowsCall)
       \/ ~CanProgress(Run(p)) /\ ReadOnly
    /\ GoTo(p, proc[p].back)
    /\ NoEffect

\* The tools of the turn.  A publisher may also be a background worker that
\* outlives the turn, so publishing is not tied to a process.
publishArtifact(r) ==
    /\ r \in PublishingRuns /\ Claimed(r) /\ runs[r].publication = "none"
    /\ appendArtifactOutputToChatRun(r)
    /\ UNCHANGED systemVars

useProtectedTool(p) ==
    /\ proc[p].pc \in {"turn", "push", "progress"}
    /\ LET r == Run(p) IN
       \/ \E keys \in SUBSET OpKeys \ {{}} : claimMany(r, keys)
       \/ \E k \in OpKeys, fits \in BOOLEAN : complete(r, k, fits)
       \/ \E k \in OpKeys : markUnknown(r, k)
    /\ UNCHANGED systemVars

\* The stream's last event tells how the turn went.  It reports a cancellation
\* only when shouldCancel found the stop in the database.
streamEnds(p) ==
    /\ At(p, "turn") /\ proc[p].why = "none"
    /\ \E end \in {<<"completed", "none">>, <<"paused", "none">>,
                    <<"cancelled", "CLIENT_CANCELLED">>}
                    \cup ({"failed"} \X TurnErrors) :
          /\ end[1] = "cancelled" => runs[Run(p)].status = "cancel_requested"
          /\ proc' = [proc EXCEPT ![p].pc = "tail", ![p].out = end[1],
                                  ![p].code = end[2]]
    /\ NoEffect /\ ReadOnly

turnThrows(p) ==
    /\ At(p, "turn")
    /\ \E code \in TurnErrors : Throw(p, code)
    /\ NoEffect /\ ReadOnly

\* terminalCommitStarted: from here on no monitor aborts the turn.
startTerminalCommit(p) ==
    /\ At(p, "tail")
    /\ GoTo(p, "commit")
    /\ NoEffect /\ ReadOnly

-----------------------------------------------------------------------------
\* processThreadChatRunJob: the terminal commit

\* What follows the turn's own commit.  It keeps out and why: an error in here is
\* still caught by the turn.
CommitEffects(p, effects) ==
    proc' = [proc EXCEPT ![p].pc = "effects", ![p].todo = effects,
                         ![p].back = "return"]

commitTurn(p) ==
    /\ At(p, "commit")
    /\ LET r == Run(p)  out == proc[p].out  code == proc[p].code IN
       \/ /\ out = "paused"
          /\ \E ids \in SUBSET Confs, knowsCall \in BOOLEAN :
                markChatThreadRunWaitingForApproval(r, ids, knowsCall)
          /\ CommitEffects(p, <<"paused_finish">>)
       \/ /\ out # "paused"
          /\ finishChatThreadRun(r, out, code, FALSE)
          /\ CommitEffects(p,
                ReleaseIf(shouldReleaseSandboxLeaseForFinishedRun(out, code))
                \o TerminalEvents(out))
       \/ /\ IF out = "paused" THEN ~CanPause(r) ELSE ~CanFinish(r, out, FALSE)
          /\ ReadOnly /\ GoTo(p, "lost")
    /\ NoEffect

\* The commit lost its compare-and-set.  A stop that won it is settled as a
\* cancellation, any other winner owns the outcome.
lostCommit(p) ==
    /\ At(p, "lost")
    /\ IF /\ proc[p].out \in {"completed", "paused"}
          /\ runs[Run(p)].status \in {"cancel_requested", "cancelled"}
       THEN proc' = [proc EXCEPT ![p].pc = "persist", ![p].back = "catch",
                                 ![p].code = "CLIENT_CANCELLED"]
       ELSE End(p)
    /\ NoEffect /\ ReadOnly

-----------------------------------------------------------------------------
\* processThreadChatRunJob: the catch block, and the processor around it

\* Mutation: a worker that failed while the run was still running just returns.
M_swallowError(p) ==
    /\ At(p, "catch")
    /\ IF runs[Run(p)].status = "cancel_requested" THEN GoTo(p, "flush") ELSE End(p)
    /\ NoEffect /\ ReadOnly

catchTurnError(p) ==
    /\ At(p, "catch")
    /\ IF runs[Run(p)].status \in {"running", "cancel_requested"}
       THEN GoTo(p, "flush") ELSE End(p)
    /\ NoEffect /\ ReadOnly

\* The pending deltas, if any, are flushed like any event, but what goes wrong
\* with that is only logged.
flushPendingDelta(p) ==
    /\ At(p, "flush")
    /\ LET r == Run(p)
           next(pc) == proc' = [proc EXCEPT ![p].pc = pc, ![p].back = "persist"]
       IN \/ ReadOnly /\ next("persist")
          \/ /\ Active(r) /\ Len(stream[r]) < MaxEvents
             /\ touchChatThreadRunHeartbeat(r)
             /\ next(IF runs[r].status = "running" THEN "push" ELSE "persist")
    /\ NoEffect

\* Mutation: an error that is not a cancellation is committed as a completion.
M_completeOnError(code) ==
    IF code = "CLIENT_CANCELLED" THEN "cancelled" ELSE "completed"

terminalStatusOf(code) ==
    IF code = "CLIENT_CANCELLED" THEN "cancelled" ELSE "failed"

\* persistTerminalFailure, called by the turn or by the processor boundary: the
\* committed outcome is announced by its winner only.
persistTerminalFailure(p) ==
    /\ proc[p].pc \in {"persist", "boundary"}
    /\ LET code == proc[p].code  status == terminalStatusOf(code) IN
       \/ /\ finishChatThreadRun(Run(p), status, code, FALSE)
          /\ Do(p, ReleaseIf(shouldReleaseSandboxLeaseForFinishedRun(status, code))
                   \o TerminalEvents(status), code, "return")
       \/ ~CanFinish(Run(p), status, FALSE) /\ ReadOnly /\ End(p)
    /\ NoEffect

TurnStep(p) ==
    \/ heartbeat(p)
    \/ appendEvent(p)
    \/ appendRunEvent(p)
    \/ streamEnds(p)
    \/ turnThrows(p)
    \/ startTerminalCommit(p)
    \/ commitTurn(p)
    \/ lostCommit(p)
    \/ catchTurnError(p)
    \/ flushPendingDelta(p)
    \/ persistTerminalFailure(p)

-----------------------------------------------------------------------------
\* After a commit: Redis pushes and the sandbox lease

performEffect(p, effect) ==
    IF effect = "release"
    THEN released' = released \cup {Run(p)} /\ UNCHANGED stream
    ELSE /\ Push(Run(p), effect, IF effect = "error" THEN proc[p].code ELSE "none")
         /\ UNCHANGED released

afterEffect(local) ==
    IF Tail(local.todo) = <<>> THEN Resume(local, local.back)
    ELSE [local EXCEPT !.todo = Tail(@)]

EffectStep(p) ==
    /\ At(p, "effects")
    /\ performEffect(p, Head(proc[p].todo))
    /\ proc' = [proc EXCEPT ![p] = afterEffect(@)]
    /\ ReadOnly /\ UNCHANGED <<queue, faults>>

-----------------------------------------------------------------------------
\* Faults

\* An abandoned handler still releases the lease (finally).
abandonEffects(local, p) ==
    IF \E i \in DOMAIN Tail(local.todo) : Tail(local.todo)[i] = "release"
    THEN [local EXCEPT !.todo = <<"release">>, !.back = Home(p)]
    ELSE Resume(local, Home(p))

\* A Redis push fails, before or after it took effect: the rest of the handler is
\* abandoned; an error after the turn's own commit is caught by the turn.  A lease
\* release that fails is logged.
EffectFails(p) ==
    /\ At(p, "effects") /\ faults < MaxFaults
    /\ faults' = faults + 1
    /\ \/ UNCHANGED <<stream, released>>
       \/ performEffect(p, Head(proc[p].todo))
    /\ \/ /\ Head(proc[p].todo) = "release"
          /\ proc' = [proc EXCEPT ![p] = afterEffect(@)]
       \/ /\ Head(proc[p].todo) # "release" /\ proc[p].out = "open"
          /\ proc' = [proc EXCEPT ![p] = abandonEffects(@, p)]
       \/ /\ Head(proc[p].todo) # "release" /\ proc[p].out # "open"
          /\ Throw(p, "CHAT_RUN_FAILED")
    /\ ReadOnly /\ UNCHANGED queue

RecoveryPcs == {"expire", "complete_approval", "finish_snapshot",
                "recover_stale", "fail_stale"}

\* A query or transaction fails.
DatabaseFails(p) ==
    /\ proc[p].pc \notin {"idle", "turn", "effects", "enqueue", "return"}
    /\ faults < MaxFaults
    /\ faults' = faults + 1
    /\ LET pc == proc[p].pc  back == proc[p].back
           flushing == pc = "flush" \/ (pc \in {"push", "progress"} /\ back = "persist")
       IN
       CASE \* the catch block's flush: logged
            flushing -> GoTo(p, "persist")
            \* inside the turn's try
         [] pc \in TurnPcs \cup {"lost"} /\ ~flushing -> Throw(p, "CHAT_RUN_FAILED")
         [] pc = "persist" /\ back = "catch" -> Throw(p, proc[p].code)
            \* inside its catch: the processor boundary tries once more
         [] pc = "catch" \/ (pc = "persist" /\ back # "catch") -> GoTo(p, "boundary")
            \* before the claim
         [] p \in Workers /\ pc \in {"job", "claim", "cancel_before"} \cup RecoveryPcs ->
               proc' = [proc EXCEPT ![p].pc = "boundary",
                                    ![p].code = "CHAT_RUN_FAILED"]
            \* the boundary, an API request, a scheduler tick: given up
         [] OTHER -> End(p)
    /\ ReadOnly /\ UNCHANGED <<stream, queue, released>>

\* The process dies.  The queue notices a dead delivery (a stalled job) and hands
\* it out again while deliveries are left; it does the same to one that only
\* stalls, so two deliveries of a run may be alive at once.
Crash(p) ==
    /\ ~At(p, "idle") /\ faults < MaxFaults
    /\ faults' = faults + 1
    /\ proc' = [proc EXCEPT ![p] = Idle]
    /\ ReadOnly /\ UNCHANGED <<stream, queue, released>>

FaultStep(p) == EffectFails(p) \/ DatabaseFails(p) \/ Crash(p)

-----------------------------------------------------------------------------
\* The specification

\* A process starts a handler ...
Begin(p) ==
    \E r \in Runs :
       \/ getOrCreateRun(p, r)
       \/ stopRun(p, r)
       \/ validateConfirmationResponse(p, r)
       \/ readRun(p, r)
       \/ sweep(p, r)
       \/ Deliver(p, r)

\* ... and works it off.
HandlerStep(p) ==
    \/ RecoveryStep(p)
    \/ CreateStep(p)
    \/ StopStep(p)
    \/ recordConfirmationResponse(p)
    \/ JobStep(p)
    \/ TurnStep(p)
    \/ EffectStep(p)

\* What happens to a turn, or in it, at any time.
MonitorStep(p) ==
    \/ checkRunOwnership(p)
    \/ interruptActiveChatRuns(p)
    \/ useProtectedTool(p)

EnvironmentStep ==
    \/ Tick /\ UNCHANGED systemVars
    \/ \E r \in Runs : ApprovalDeadlinePasses(r) /\ UNCHANGED systemVars
    \/ \E r \in Runs : publishArtifact(r)

SystemNext ==
    \/ \E p \in Procs : Begin(p) \/ HandlerStep(p) \/ MonitorStep(p) \/ FaultStep(p)
    \/ EnvironmentStep

SystemSpec == SystemInit /\ [][SystemNext]_vars

\* A process that is alive makes progress, the queue delivers, the scheduler ticks
\* and time passes.  Nothing is assumed of users, monitors, tools or faults.
Fairness ==
    /\ \A p \in Procs : WF_vars(HandlerStep(p))
    /\ \A p \in Workers : WF_vars(\E r \in Runs : Deliver(p, r))
    /\ \A p \in Sweepers : WF_vars(\E r \in Runs : sweep(p, r))
    /\ WF_vars(Tick /\ UNCHANGED systemVars)
    /\ \A r \in Runs : WF_vars(ApprovalDeadlinePasses(r) /\ UNCHANGED systemVars)

FairSystemSpec == SystemSpec /\ Fairness

-----------------------------------------------------------------------------
\* Properties

\* p executes the turn of its run: it won the claim and has not returned.
Executing(p) ==
    /\ p \in Workers
    /\ \/ proc[p].pc \in TurnPcs \cup {"lost", "catch", "flush", "persist"}
       \/ At(p, "effects") /\ proc[p].out # "open"

\* However often the queue delivers a job, also while an earlier delivery only
\* stalls, one delivery executes the turn.
OneExecutorPerRun ==
    \A p, q \in Workers : Executing(p) /\ Executing(q) /\ Run(p) = Run(q) => p = q

EventsOf(r, types) == {i \in DOMAIN stream[r] : stream[r][i].type \in types}

\* A turn is never started on a run that an earlier execution left traces of: not
\* after a crash, a redelivery or a recovery.
TurnStartsFresh ==
    \A r \in Runs : ~Claimed(r) =>
        /\ stream[r] = <<>>
        /\ \A p \in Workers : Executing(p) => Run(p) # r

\* Terminal SSE tells the committed outcome, and nobody tells it twice: whoever
\* wins the commit announces it, losers stay silent.
AnnouncedOutcomeIsCommitted ==
    \A r \in Runs :
        /\ EventsOf(r, {"error", "finish"}) # {} => Terminal(r)
        /\ \A i \in EventsOf(r, {"error"}) : stream[r][i].code = runs[r].errorCode
        /\ Cardinality(EventsOf(r, {"error"})) <= 1
        /\ Cardinality(EventsOf(r, {"finish"})) <= 1

\* The sandbox of a thread is given up for a run that failed or was cancelled,
\* never for one that still runs, waits or completed.
LeaseReleasedOnlyAfterFailure ==
    \A r \in released : runs[r].status \in {"failed", "cancelled"}

\* With no fault, every active run is somebody's: the request that is starting
\* it, its job, the delivery that executes it or the stop that ends it.  Only an
\* approval pause is nobody's.
ActiveRunHasOwner ==
    faults = 0 => \A r \in Runs :
        LET busy(pcs) == \E p \in Procs : Run(p) = r /\ proc[p].pc \in pcs
        IN CASE runs[r].status = "queued" ->
                   queue[r] > 0 \/ busy({"enqueue", "job", "claim"})
             [] runs[r].status = "running" ->
                   \E p \in Workers : Run(p) = r /\ Executing(p)
             [] runs[r].status = "cancel_requested" ->
                   busy({"effects", "force_cancel"})
             [] OTHER -> TRUE

\* A worker that heartbeats after recovery has read its run is not failed as
\* stale: staleness is decided under the row lock.
LiveRunIsNotFailedAsStale ==
    [][\A r \in Runs :
          Active(r) /\ runs'[r].errorCode = "CHAT_RUN_STALE"
             => runs[r].silence > STALE_ACTIVE_RUN_TIMEOUT]_vars

\* A new heartbeat prevents recovery from finishing the run.
HeartbeatPreventsRecovery ==
    [][\A p \in Procs :
          LET r == Run(p)
              recovers == /\ proc[p].pc \in {"finish_snapshot", "fail_stale"}
                          /\ proc'[p].pc # proc[p].pc
                          /\ runs[r].status = "running"
                          /\ runs'[r].status \in TerminalStatuses
          IN  recovers => ~hasLiveRunWorker(runs[r])]_vars

\* The handlers use the table as ChatThreadRuns allows: a turn's transactions only
\* on a claimed run, an error code exactly on an outcome that is not completed.
TableSpec == Spec

\* Every run ends: a dead worker, a lost job or an abandoned approval is noticed.
EveryRunEnds == \A r \in Runs : Exists(r) ~> Terminal(r)
=============================================================================
