------------------------- MODULE ConnectorScheduler -------------------------
(***************************************************************************)
(* One connector's periodic sync end to end: the scheduler's tick          *)
(* (scheduler/schedules/connectors.ts), the dispatch and the execution of  *)
(* sync runs (connectors/sync-orchestrator.ts), the BullMQ job of a run    *)
(* (content/queue.ts), and the API calls that start other runs or edit the *)
(* connector (connectors/service.ts, webhook-service.ts).                  *)
(*                                                                         *)
(* The scheduler is one process whose ticks do not overlap.  What the      *)
(* worker applies between "running" and the result is ConnectorSync's;     *)
(* here it is a choice of result.                                          *)
(***************************************************************************)
EXTENDS ScheduleOccurrences

CONSTANTS
    Workers,     \* slots for deliveries of sync jobs
    Nobody,      \* no worker
    NoOccurrence,
    JobAttempts, \* attempts of a sync job (3)
    Faults,      \* kinds of faults that may happen
    MaxFaults,   \* bound on the number of faults
    MaxOther,    \* bound on manual, webhook and quota resume runs
    MaxEdits,    \* bound on edits of the connector
    MaxSpent     \* bound on all of them together

ASSUME SchedulerAssumption ==
    /\ Nobody \notin Workers /\ NoOccurrence \notin Occurrences
    /\ JobAttempts \in Nat \ {0}
    /\ Faults \subseteq {"scheduler", "worker", "queue", "caller", "stall", "evict"}
    /\ MaxFaults \in Nat /\ MaxOther \in Nat /\ MaxEdits \in Nat
    /\ MaxSpent \in Nat

VARIABLES
    jobs,    \* the sync job of each run
    lock,    \* holder of the connector's advisory lock
    worker,  \* the deliveries
    tick,    \* the scheduler
    editor,  \* an updateConnector request between its two writes
    unsent,  \* runs an API request has created and not yet enqueued
    spent    \* faults, other runs and edits so far, and the runs that a second
             \* delivery executed again after they had ended

vars == <<schedule, connector, occurrences, runs, jobs, lock, worker, tick,
          editor, unsent, spent>>

\* A candidate of one of the tick's lists, as it was read.
Item == [occ : Occurrences \cup {NoOccurrence}, run : Runs \cup {NoRun},
         status : RunStatuses, code : Codes, enabled : BOOLEAN, attempts : Nat,
         seen : ConnectorStatuses]
Job == [state : {"none", "waiting", "active", "completed", "failed"},
        tries : 0 .. JobAttempts, stalls : 0 .. 2, owner : Workers \cup {Nobody}]
TickPcs == {"idle", "list", "reconcile", "recover", "dispatch", "create",
            "attach", "enqueue", "queued", "skip", "retry", "pause", "resume"}
WorkerPcs == {"idle", "read", "skip_run", "skip_occurrence", "lock", "start",
              "apply", "touch", "complete", "unlock"}

NoItem == [occ |-> NoOccurrence, run |-> NoRun, status |-> "none",
           code |-> "none", enabled |-> FALSE, attempts |-> 0, seen |-> "active"]
NoJob == [state |-> "none", tries |-> 0, stalls |-> 0, owner |-> Nobody]
IdleTick == [pc |-> "idle", list |-> {}, item |-> NoItem]
IdleWorker == [pc |-> "idle", run |-> NoRun, seen |-> "active", out |-> "none",
               code |-> "none"]

SystemTypeOK ==
    /\ TypeOK
    /\ jobs \in [Runs -> Job]
    /\ lock \in Workers \cup {Nobody}
    /\ worker \in [Workers -> [pc : WorkerPcs, run : Runs \cup {NoRun},
                               seen : ConnectorStatuses, out : RunStatuses,
                               code : Codes]]
    /\ tick.pc \in TickPcs /\ tick.list \in SUBSET Item /\ tick.item \in Item
    /\ editor \in [busy : BOOLEAN, enabled : BOOLEAN]
    /\ unsent \in SUBSET Runs
    /\ spent \in [faults : 0 .. MaxFaults, other : 0 .. MaxOther,
                  edits : 0 .. MaxEdits, replayed : SUBSET Runs]

SystemInit ==
    /\ Init
    /\ jobs = [r \in Runs |-> NoJob]
    /\ lock = Nobody
    /\ worker = [w \in Workers |-> IdleWorker]
    /\ tick = IdleTick
    /\ editor = [busy |-> FALSE, enabled |-> FALSE]
    /\ unsent = {}
    /\ spent = [faults |-> 0, other |-> 0, edits |-> 0, replayed |-> {}]

MaySpend == spent.faults + spent.other + spent.edits < MaxSpent

Fault(kind) ==
    /\ kind \in Faults /\ spent.faults < MaxFaults /\ MaySpend
    /\ spent' = [spent EXCEPT !.faults = @ + 1]

\* A run that the schedule did not start.
Other == /\ spent.other < MaxOther /\ MaySpend
         /\ spent' = [spent EXCEPT !.other = @ + 1]

-----------------------------------------------------------------------------
\* The job of a run: one BullMQ job per run id.

\* enqueueConnectorSyncJob: a failed job is retried, a completed one replaced,
\* any other returned as it is.
enqueued(job) ==
    CASE job.state = "failed" -> [job EXCEPT !.state = "waiting", !.owner = Nobody]
      [] job.state \in {"none", "completed"} -> [NoJob EXCEPT !.state = "waiting"]
      [] OTHER -> job

enqueueConnectorSyncJob(r) == jobs' = [jobs EXCEPT ![r] = enqueued(@)]

\* The processor's result counts only while the delivery still owns the job.
Returned(w, threw) ==
    LET r == worker[w].run IN
    jobs' = IF jobs[r].state # "active" \/ jobs[r].owner # w THEN jobs
            ELSE IF ~threw
            THEN [jobs EXCEPT ![r].state = "completed", ![r].owner = Nobody]
            ELSE [jobs EXCEPT
                   ![r].state = IF jobs[r].tries + 1 < JobAttempts
                                THEN "waiting" ELSE "failed",
                   ![r].tries = IF @ < JobAttempts THEN @ + 1 ELSE @,
                   ![r].owner = Nobody]

\* The queue gives a job whose lock was not renewed to another worker; the
\* second time it fails it.  A live worker that was starved goes on regardless.
JobStalls(r) ==
    LET dead == worker[jobs[r].owner].run # r IN
    /\ jobs[r].state = "active"
    /\ \/ dead /\ UNCHANGED spent
       \/ ~dead /\ Fault("stall")
    /\ jobs' = [jobs EXCEPT ![r].state = IF @ = "active" /\ jobs[r].stalls = 0
                                         THEN "waiting" ELSE "failed",
                            ![r].stalls = IF @ = 0 THEN 1 ELSE @,
                            ![r].owner = Nobody]
    /\ UNCHANGED <<tableVars, lock, worker, tick, editor, unsent>>

\* removeOnComplete and removeOnFail: the queue keeps the last hundred.
JobEvicted(r) ==
    /\ jobs[r].state \in {"completed", "failed"}
    /\ Fault("evict")
    /\ jobs' = [jobs EXCEPT ![r] = NoJob]
    /\ UNCHANGED <<tableVars, lock, worker, tick, editor, unsent>>

-----------------------------------------------------------------------------
\* The scheduler's tick: scheduleConnectorSyncs

At(pc) == tick.pc = pc
GoTo(pc) == tick' = [tick EXCEPT !.pc = pc]
\* The current item is done: back to the list it came from.
NextItem == tick' = [tick EXCEPT !.pc = "dispatch", !.item = NoItem]
TickOnly == UNCHANGED <<jobs, lock, worker, editor, unsent, spent>>

TickStarts ==
    /\ At("idle")
    /\ materializeDueConnectorSchedules
    /\ GoTo("list")
    /\ UNCHANGED <<connector, runs>> /\ TickOnly

listQueuedConnectorOccurrences ==
    /\ At("list")
    /\ tick' = [tick EXCEPT !.pc = "reconcile", !.list =
         {[NoItem EXCEPT !.occ = o, !.run = occurrences[o].run,
                         !.status = runs[occurrences[o].run].status,
                         !.code = runs[occurrences[o].run].code,
                         !.enabled = schedule.enabled] :
            o \in {p \in InStatus("queued") :
                     runs[occurrences[p].run].status # "running"}}]
    /\ UNCHANGED tableVars /\ TickOnly

\* A finished run settles its occurrence, a queued one gets its job again.
Reconcile(item) ==
    /\ At("reconcile") /\ item \in tick.list
    /\ tick' = [tick EXCEPT !.list = @ \ {item}]
    /\ \/ /\ item.status \in TerminalRunStatuses
          /\ completeScheduleOccurrence(item.run, item.status = "succeeded",
                                        item.code)
          /\ UNCHANGED <<jobs, spent>>
       \/ /\ item.status = "queued" /\ item.enabled
          /\ \/ enqueueConnectorSyncJob(item.run) /\ UNCHANGED spent
             \/ Fault("queue") /\ UNCHANGED jobs
          /\ UNCHANGED <<schedule, occurrences>>
       \/ /\ item.status = "queued" /\ ~item.enabled
          /\ UNCHANGED <<schedule, occurrences, jobs, spent>>
    /\ UNCHANGED <<connector, runs, lock, worker, editor, unsent>>

listStaleRunningConnectorOccurrences ==
    /\ At("reconcile") /\ tick.list = {}
    /\ tick' = [tick EXCEPT !.pc = "recover", !.list =
         {[NoItem EXCEPT !.occ = o, !.run = occurrences[o].run] :
            o \in {p \in InStatus("queued") :
                     /\ runs[occurrences[p].run].status = "running"
                     /\ runs[occurrences[p].run].silent}}]
    /\ UNCHANGED tableVars /\ TickOnly

\* A job that is still queued or being processed is left alone.
JobIsGone(r) == jobs[r].state \in {"none", "failed", "completed"}

RecoverStale(item) ==
    /\ At("recover") /\ item \in tick.list
    /\ tick' = [tick EXCEPT !.list = @ \ {item}]
    /\ IF JobIsGone(item.run) THEN recoverLostScheduleOccurrence(item.occ, item.run)
       ELSE UNCHANGED <<occurrences, runs>>
    /\ UNCHANGED <<schedule, connector>> /\ TickOnly

ClaimOccurrences ==
    /\ At("recover") /\ tick.list = {}
    /\ \E active \in IF ActiveRuns = {} THEN {NoRun} ELSE ActiveRuns :
         LET claimed == {o \in Occurrences : Claimable(o, active)} IN
         /\ claimDispatchable(claimed)
         /\ tick' = [tick EXCEPT !.pc = "dispatch", !.list =
              {[NoItem EXCEPT !.occ = o, !.run = occurrences[o].run,
                              !.attempts = occurrences[o].attempts + 1] :
                 o \in claimed}]
    /\ UNCHANGED <<schedule, connector, runs>> /\ TickOnly

\* enqueueScheduledRun reads the connector and asks the adapter whether it is
\* ready.  A connector that is not ready gets a skipped run that nothing refers
\* to.  Either its status is written from the row just read or, ready and not
\* marked unready before, it is left alone.
CheckConnector(item) ==
    /\ At("dispatch") /\ item \in tick.list
    /\ LET seen == [item EXCEPT !.seen = connector.status]
           To(pc) == tick' = [pc |-> pc, list |-> tick.list \ {item}, item |-> seen]
       IN IF connector.status \notin {"active", "error"}
          THEN To("skip") /\ UNCHANGED connector
          ELSE \/ To("create") /\ connector' \in
                     {connector, [connector EXCEPT !.status =
                                    finalConnectorStatusAfterSync(@)]}
               \/ To("skip") /\ connector' = [connector EXCEPT !.status =
                                  finalConnectorStatusAfterSync(@)]
               \/ To("pause") /\ UNCHANGED connector
               \/ To("retry") /\ UNCHANGED connector
    /\ UNCHANGED <<schedule, occurrences, runs>> /\ TickOnly

\* Mutation: no look at the active runs before inserting one.
M_createAnyway ==
    /\ At("create")
    /\ \E r \in FreeRuns :
         /\ createSyncRunRecord(r, "scheduled")
         /\ tick' = [tick EXCEPT !.pc = "attach", !.item.run = r]
    /\ UNCHANGED <<schedule, connector, occurrences>> /\ TickOnly

\* createSyncRunRecordIfNoActiveRun, or the run of an interrupted dispatch.
CreateScheduledRun ==
    /\ At("create")
    /\ IF tick.item.run \in Runs THEN GoTo("attach") /\ UNCHANGED runs
       ELSE IF ActiveRuns # {} THEN GoTo("retry") /\ UNCHANGED runs
       ELSE \E r \in FreeRuns :
              /\ createSyncRunRecord(r, "scheduled")
              /\ tick' = [tick EXCEPT !.pc = "attach", !.item.run = r]
    /\ UNCHANGED <<schedule, connector, occurrences>> /\ TickOnly

\* The status is written unless the connector was read active and without error.
AttachRun ==
    /\ At("attach")
    /\ attachScheduleOccurrenceRun(tick.item.occ, tick.item.run)
    /\ \/ connector' = [connector EXCEPT !.status =
                          finalConnectorStatusAfterSync(tick.item.seen)]
       \/ tick.item.seen = "active" /\ UNCHANGED connector
    /\ GoTo("enqueue")
    /\ UNCHANGED <<schedule, runs>> /\ TickOnly

EnqueueScheduledRun ==
    /\ At("enqueue")
    /\ \/ enqueueConnectorSyncJob(tick.item.run) /\ GoTo("queued") /\ UNCHANGED spent
       \/ Fault("queue") /\ GoTo("retry") /\ UNCHANGED jobs
    /\ UNCHANGED <<tableVars, lock, worker, editor, unsent>>

MarkDispatched ==
    /\ \/ At("queued") /\ markScheduleOccurrence(tick.item.occ, "queued")
       \/ At("skip") /\ markScheduleOccurrence(tick.item.occ, "skipped")
    /\ NextItem
    /\ UNCHANGED <<schedule, connector, runs>> /\ TickOnly

RetryDispatch ==
    /\ At("retry")
    /\ retryScheduleOccurrence(tick.item.occ, tick.item.attempts)
    /\ NextItem
    /\ UNCHANGED <<schedule, connector>> /\ TickOnly

PauseForAuth ==
    /\ At("pause")
    /\ pauseConnectorScheduleForAuth
    /\ GoTo("skip")
    /\ UNCHANGED <<occurrences, runs>> /\ TickOnly

\* resumeQuotaBlockedConnectors: the owner may or may not have pages again.
ResumeQuotaBlocked ==
    /\ At("dispatch") /\ tick.list = {}
    /\ \/ tick' = IdleTick /\ UNCHANGED <<runs, spent>>
       \/ /\ connector.blocked /\ connector.status \in {"active", "error"}
          /\ ActiveRuns = {} /\ Other
          /\ \E r \in FreeRuns :
               /\ createSyncRunRecord(r, "backfill")
               /\ tick' = [IdleTick EXCEPT !.pc = "resume", !.item.run = r]
    /\ UNCHANGED <<schedule, connector, occurrences, jobs, lock, worker, editor, unsent>>

EnqueueResumedRun ==
    /\ At("resume")
    /\ \/ enqueueConnectorSyncJob(tick.item.run) /\ UNCHANGED spent
       \/ Fault("queue") /\ UNCHANGED jobs
    /\ tick' = IdleTick
    /\ UNCHANGED <<tableVars, lock, worker, editor, unsent>>

SchedulerCrashes ==
    /\ ~At("idle")
    /\ Fault("scheduler")
    /\ tick' = IdleTick
    /\ UNCHANGED <<tableVars, jobs, lock, worker, editor, unsent>>

TickStep ==
    \/ TickStarts \/ listQueuedConnectorOccurrences
    \/ \E item \in tick.list :
         Reconcile(item) \/ RecoverStale(item) \/ CheckConnector(item)
    \/ listStaleRunningConnectorOccurrences \/ ClaimOccurrences
    \/ CreateScheduledRun \/ AttachRun \/ EnqueueScheduledRun
    \/ MarkDispatched \/ RetryDispatch \/ PauseForAuth
    \/ ResumeQuotaBlocked \/ EnqueueResumedRun

-----------------------------------------------------------------------------
\* A delivery of a sync job: ConnectorSyncOrchestrator.run

AtW(w, pc) == worker[w].pc = pc
GoToW(w, pc) == worker' = [worker EXCEPT ![w].pc = pc]
Leave(w) == worker' = [worker EXCEPT ![w] = IdleWorker]
WorkerOnly == UNCHANGED <<tick, editor, unsent, spent>>

TakeJob(w, r) ==
    /\ AtW(w, "idle") /\ jobs[r].state = "waiting"
    /\ jobs' = [jobs EXCEPT ![r].state = "active", ![r].owner = w]
    /\ worker' = [worker EXCEPT ![w] = [IdleWorker EXCEPT !.pc = "read", !.run = r]]
    /\ UNCHANGED <<tableVars, lock>> /\ WorkerOnly

PausedBeforeStart(run) ==
    /\ run.trigger = "scheduled" /\ run.status = "queued"
    /\ connector.status = "paused" \/ ~schedule.enabled

\* The status that is read here is not read again once the lock is held.
ReadRun(w) ==
    LET run == runs[worker[w].run] IN
    /\ AtW(w, "read")
    /\ IF ~canRunConnectorStatus(connector.status)
       THEN Returned(w, TRUE) /\ Leave(w)
       ELSE IF PausedBeforeStart(run)
       THEN GoToW(w, "skip_run") /\ UNCHANGED jobs
       ELSE IF run.status \in TerminalRunStatuses
       THEN Returned(w, FALSE) /\ Leave(w)
       ELSE /\ worker' = [worker EXCEPT ![w].pc = "lock", ![w].seen = connector.status]
            /\ UNCHANGED jobs
    /\ UNCHANGED <<tableVars, lock>> /\ WorkerOnly

\* Ghost: a delivery writes the row of a run that another one has ended.
NoteReplay(w) ==
    spent' = IF runs[worker[w].run].status \in TerminalRunStatuses
             THEN [spent EXCEPT !.replayed = @ \cup {worker[w].run}] ELSE spent

SkipRun(w) ==
    /\ \/ /\ AtW(w, "skip_run")
          /\ updateSyncRunRecord(worker[w].run, "skipped", "paused")
          /\ NoteReplay(w)
          /\ GoToW(w, "skip_occurrence")
          /\ UNCHANGED <<occurrences, jobs>>
       \/ /\ AtW(w, "skip_occurrence")
          /\ skipScheduleOccurrenceByRunId(worker[w].run)
          /\ Returned(w, FALSE) /\ Leave(w)
          /\ UNCHANGED <<runs, spent>>
    /\ UNCHANGED <<schedule, connector, lock, tick, editor, unsent>>

\* Mutation: the run starts although another sync holds the lock.
M_ignoreLock(w) ==
    /\ AtW(w, "lock")
    /\ lock' = w /\ GoToW(w, "start")
    /\ UNCHANGED <<tableVars, jobs>> /\ WorkerOnly

tryAcquireConnectorSyncLock(w) ==
    /\ AtW(w, "lock")
    /\ IF lock = Nobody
       THEN lock' = w /\ GoToW(w, "start") /\ UNCHANGED jobs
       ELSE Returned(w, TRUE) /\ Leave(w) /\ UNCHANGED lock
    /\ UNCHANGED tableVars /\ WorkerOnly

StartRun(w) ==
    /\ AtW(w, "start")
    /\ updateSyncRunRecord(worker[w].run, "running", runs[worker[w].run].code)
    /\ GoToW(w, "apply")
    /\ NoteReplay(w)
    /\ UNCHANGED <<schedule, connector, occurrences, jobs, lock, tick, editor, unsent>>

\* The run's result: everything applied, an error, or a block.
Results == {<<"succeeded", "none">>, <<"failed", "transient">>,
            <<"failed", "reauth">>, <<"blocked", "block">>}

FinishRun(w, result) ==
    LET r == worker[w].run IN
    /\ AtW(w, "apply")
    /\ updateSyncRunRecord(r, result[1], IF result[2] = "none" THEN runs[r].code
                                         ELSE result[2])
    /\ worker' = [worker EXCEPT ![w].pc = "touch", ![w].out = result[1],
                                ![w].code = result[2]]
    /\ UNCHANGED <<schedule, connector, occurrences, jobs, lock>> /\ WorkerOnly

\* The connector's status is written from the row read before the run.  A block
\* may follow failed items, and a webhook's run for single items leaves the
\* block of an earlier run in place.
touchConnectorAfterSync(w, itemsFailed, targeted) ==
    LET blockedNow == worker[w].out = "blocked"
        broken == worker[w].out = "failed" \/ (blockedNow /\ itemsFailed)
    IN
    /\ AtW(w, "touch")
    /\ targeted => runs[worker[w].run].trigger = "webhook"
    /\ connector' =
         [status  |-> IF broken /\ worker[w].seen # "paused"
                      THEN "error" ELSE finalConnectorStatusAfterSync(worker[w].seen),
          blocked |-> blockedNow \/ (targeted /\ connector.blocked)]
    /\ GoToW(w, "complete")
    /\ UNCHANGED <<schedule, occurrences, runs, jobs, lock>> /\ WorkerOnly

CompleteOccurrence(w) ==
    /\ AtW(w, "complete")
    /\ completeScheduleOccurrence(worker[w].run, worker[w].out = "succeeded",
                                  worker[w].code)
    /\ GoToW(w, "unlock")
    /\ UNCHANGED <<connector, runs, jobs, lock>> /\ WorkerOnly

ReleaseLock(w) ==
    /\ AtW(w, "unlock")
    /\ lock' = Nobody
    /\ Returned(w, worker[w].out = "failed") /\ Leave(w)
    /\ UNCHANGED tableVars /\ WorkerOnly

\* The session that holds the lock dies with its process.
WorkerCrashes(w) ==
    /\ ~AtW(w, "idle")
    /\ Fault("worker")
    /\ Leave(w)
    /\ lock' = IF lock = w THEN Nobody ELSE lock
    /\ UNCHANGED <<tableVars, jobs, tick, editor, unsent>>

HeartbeatStops(r) ==
    /\ HeartbeatLapses(r)
    /\ UNCHANGED <<schedule, connector, occurrences, jobs, lock, worker>> /\ WorkerOnly

WorkerStep(w) ==
    \/ \E r \in Runs : TakeJob(w, r)
    \/ ReadRun(w) \/ SkipRun(w) \/ tryAcquireConnectorSyncLock(w) \/ StartRun(w)
    \/ \E result \in Results : FinishRun(w, result)
    \/ \E itemsFailed, targeted \in BOOLEAN :
         touchConnectorAfterSync(w, itemsFailed, targeted)
    \/ CompleteOccurrence(w) \/ ReleaseLock(w)

-----------------------------------------------------------------------------
\* API requests

\* enqueueManualRun up to its insert: only without an active run.
RequestManualRun(r) ==
    /\ Other
    /\ canRunConnectorStatus(connector.status) /\ ActiveRuns = {}
    /\ createSyncRunRecord(r, "manual")
    /\ connector' = [connector EXCEPT !.status = finalConnectorStatusAfterSync(@)]
    /\ unsent' = unsent \cup {r}
    /\ UNCHANGED <<schedule, occurrences, jobs, lock, worker, tick, editor>>

\* A webhook's run is inserted whatever else is active.
ReceiveWebhook(r) ==
    /\ Other
    /\ connector.status # "disabled"
    /\ createSyncRunRecord(r, "webhook")
    /\ unsent' = unsent \cup {r}
    /\ UNCHANGED <<schedule, connector, occurrences, jobs, lock, worker, tick, editor>>

\* The request enqueues its run, or fails to, or dies before it.
SendRun(r) ==
    /\ r \in unsent
    /\ \/ enqueueConnectorSyncJob(r) /\ UNCHANGED spent
       \/ Fault("caller") /\ UNCHANGED jobs
    /\ unsent' = unsent \ {r}
    /\ UNCHANGED <<tableVars, lock, worker, tick, editor>>

\* updateConnector and the disabling deleteConnector write the connector, then
\* the schedule; status "keep" leaves the connector's as it is.
EditConnector(status, periodic) ==
    /\ ~editor.busy /\ spent.edits < MaxEdits /\ MaySpend
    /\ spent' = [spent EXCEPT !.edits = @ + 1]
    /\ connector' = [connector EXCEPT !.status = IF status = "keep" THEN @ ELSE status]
    /\ editor' = [busy |-> TRUE,
                  enabled |-> periodic /\ connector'.status = "active"]
    /\ UNCHANGED <<schedule, occurrences, runs, jobs, lock, worker, tick, unsent>>

EditSchedule(otherInterval) ==
    /\ editor.busy
    /\ putConnectorSchedule(editor.enabled, otherInterval)
    /\ editor' = [busy |-> FALSE, enabled |-> FALSE]
    /\ UNCHANGED <<connector, runs, jobs, lock, worker, tick, unsent, spent>>

SlotDue ==
    /\ SlotComesDue
    /\ UNCHANGED <<jobs, lock, worker, tick, editor, unsent, spent>>

SystemNext ==
    \/ TickStep \/ SchedulerCrashes \/ SlotDue
    \/ \E w \in Workers : WorkerStep(w) \/ WorkerCrashes(w)
    \/ \E r \in Runs :
         JobStalls(r) \/ JobEvicted(r) \/ HeartbeatStops(r)
         \/ RequestManualRun(r) \/ ReceiveWebhook(r) \/ SendRun(r)
    \/ \E status \in {"keep", "active", "paused", "disabled"}, periodic \in BOOLEAN :
         EditConnector(status, periodic)
    \/ \E otherInterval \in BOOLEAN : EditSchedule(otherInterval)

SystemSpec == SystemInit /\ [][SystemNext]_vars

\* The scheduler ticks, the queue delivers and gives up on silent workers, a
\* live process goes on, heartbeats age and requests end.
FairSystemSpec ==
    /\ SystemSpec
    /\ WF_vars(TickStep)
    /\ \A w \in Workers : WF_vars(WorkerStep(w))
    /\ \A r \in Runs : /\ WF_vars(JobStalls(r) /\ UNCHANGED spent)
                       /\ WF_vars(HeartbeatStops(r))
                       /\ WF_vars(SendRun(r))
    /\ WF_vars(\E otherInterval \in BOOLEAN : EditSchedule(otherInterval))

-----------------------------------------------------------------------------
\* Properties

\* A run nobody will ever move: active, without a job the queue would deliver
\* and without an unsettled occurrence the scheduler would look at.
Orphaned(r) ==
    /\ runs[r].status \in ActiveRunStatuses
    /\ jobs[r].state \in {"none", "completed", "failed"}
    /\ r \notin unsent /\ r # tick.item.run
    /\ \A w \in Workers : worker[w].run # r
    /\ \A o \in Occurrences : occurrences[o].run = r => Settled(o)

\* The advisory lock fences every trigger type: between "running" and the
\* result a delivery is alone, a crashed holder or a redelivered job included.
OneSyncAtATime ==
    \A v, w \in Workers :
        /\ worker[v].pc \in {"start", "apply", "touch", "complete"}
        /\ worker[w].pc \in {"start", "apply", "touch", "complete"}
        => v = w

\* An occurrence is reported as succeeded only for a run that succeeded, however
\* the scheduler's reconciliation and the worker's own report interleave.  The
\* one exception is a run that a second delivery executed again: its occurrence
\* may be that of either execution.
SuccessIsARunsSuccess ==
    \A o \in Occurrences :
        occurrences[o].status = "succeeded"
        => \/ runs[occurrences[o].run].status = "succeeded"
           \/ occurrences[o].run \in spent.replayed

\* Coalescing: the scheduler never has a second scheduled run waiting for the
\* queue, however often its dispatches are interrupted and retried.
OneQueuedScheduledRun ==
    \A r, s \in {q \in Runs : runs[q].status = "queued"} :
        runs[r].trigger = "scheduled" /\ runs[s].trigger = "scheduled" => r = s

\* An occurrence the scheduler gave up leaves no run waiting that would block
\* the connector: its run has ended, or a worker has started it.
GivenUpRunIsOver ==
    \A o \in Occurrences :
        occurrences[o].status = "failed" /\ occurrences[o].run \in Runs
        => runs[occurrences[o].run].status # "queued"

\* Every occurrence is settled while its schedule stays enabled, unless a run
\* that nobody owns blocks the connector.
OccurrenceSettlesOrConnectorBlocked ==
    \A o \in Occurrences :
        occurrences[o].status # "none"
        ~> Settled(o) \/ ~schedule.enabled \/ \E r \in Runs : Orphaned(r)
=============================================================================
