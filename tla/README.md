# SourceWeft: TLA+ models, checks and proofs

SourceWeft is a workspace for chatting with one's own sources. Four parts of its
backend are protocols rather than pages or adapters: several processes that agree
through database rows, queue jobs and external services on something the product
promises. This directory models those four, checks the models with TLC and proves
part of what is checked with TLAPS.

- **Durable chat runs.** A request only creates a row in `chat_thread_runs` and a
  queue job; a worker claims the row, streams the turn into a Redis list and commits
  the outcome; clients attach and leave; users stop a run or answer its confirmations
  from other API processes; readers and a scheduler recover runs whose worker died.
  All of them must agree, through one row, on who owns a run and how it ended.
- **Connector sync.** A scheduler turns due slots into occurrences and sync runs, a
  queue delivers them next to runs of other triggers, and a run reads the provider's
  changes page by page behind a durable cursor.
- **Source parsing.** An upload becomes searchable through a completion request, a
  parse job, poll jobs of a document provider, embedding and metering, while other
  requests reparse or edit the same source.
- **Top-up orders.** A payment provider's webhooks, a retry job, refunds and the
  member's running usage all move one order and one balance.

`D/` below is `src/apps/backend/src/modules/threads/durable/`, `M/` is
`src/apps/backend/src/modules/` and `B/` is `src/enterprise/billing/src/server/`.

## Inventory

| Component | State | Operations | Hard behaviour | What makes it correct |
|---|---|---|---|---|
| Run rules (`D/run-state.ts`, `D/run-constants.ts`) | none | staleness, expiry, stop error, synthesized events | boundaries of the grace periods | same verdict for every caller |
| Run table (`D/repository.ts`, `D/snapshot.ts`, schema in `src/packages/db`) | `chat_thread_runs` rows | create, claim, heartbeat, progress, pause, confirm, cancel, finish | every caller races every other; a transaction is atomic, a sequence of them is not | one active run per thread, final outcomes, fenced operations, no lost publication |
| Protected tool operations (`D/protected-agent-tool-state*.ts`) | claims inside the row's snapshot | claim, complete, mark unknown, fence | run ends while a call is in flight | an effect that may have happened is never offered again |
| Durable run service (`D/service.ts`, `D/run-recovery.ts`, `D/approval.ts`) | handlers between awaits | create, stop, confirm, attach, recover, sweep, process a job | stale reads, double enqueue, lost commits | the committed outcome, and only that, is announced |
| Turn runner (`D/runner.ts`, `src/apps/backend/src/worker/processors/thread-chat-run.ts`) | abort reason, outcome, pending deltas | claim, heartbeat, push, pause, commit, catch, boundary | abort monitors, shutdown, errors at every await | one executor, no turn restarted on a used run |
| Event stream and clients (`D/stream-manager.ts`, `D/run-results.ts`) | Redis list per run; client offset | push, poll, drain, synthesize | push lost or late, row terminal before the list is | one finish and the committed error |
| Connector schedules and occurrences (`M/connectors/repository/schedule*.ts`, `src/apps/backend/src/scheduler/schedules/connectors.ts`) | `task_schedules`, `schedule_occurrences` | materialise, claim, dispatch, retry, reconcile, settle, edit | scheduler dies between two statements; lists are read before they are used | every occurrence settles, and as its run did |
| Connector sync runs (`M/connectors/sync-orchestrator.ts`, `repository/sync-run.ts`, `sync-lock.ts`) | `connector_sync_runs`, advisory lock, sources, cursor | create, deliver, lock, apply pages, reconcile, commit | stalled or evicted jobs, other triggers, failing items, quota blocks | one sync applies at a time, the cursor never passes an unindexed item |
| Gmail discovery (`src/packages/builtin-connector-gmail/src/adapter.ts`) | history cursor | profile, history pages, full scan, checkpoint | mailbox changes during a scan, history expires | the checkpoint covers only what was read |
| Source upload, parsing and indexing (`M/sources/*`) | `sources` row, revisions, documents, parse and poll jobs | complete, reparse, parse, poll, index, edit, sweep | jobs of an older revision come late | the newest revision is what retrieval finds |
| Orders and balances (`B/order-service.ts`, `payment-reversal.ts`, `webhook-service.ts`, `account-service.ts`, `usage-service.ts`) | order, account and ledger rows, webhook events | checkout, webhook, fulfil, retry, refund, chargeback, use, settle, renew | deliveries repeat and overtake; refund before fulfilment | grant and reversal reach the balance once |
| Job queue (`M/content/queue.ts`, BullMQ external) | jobs | enqueue, deliver, retry, redeliver a stalled job, evict | delivery at least once, enqueue that reports a failure | every consumer compares and sets |
| Scheduler (`src/apps/backend/src/scheduler/`) | none | run sweeps, connector tick, upload sweep | ticks overlap with handlers | what was started ends |
| Worker process (`src/apps/backend/src/worker/main.ts`, `shutdown.ts`) | in-flight turns | shutdown interrupts turns | shutdown racing a commit | interrupted turns settle their run |
| Delta coalescer (`D/sse-coalescer.ts`) | window of deltas | add, flush | flush order | no delta lost or reordered |
| Rooms, presence, notification hub | subscriptions | join, notify | reconnects | best effort |
| Agent confirmations (`M/agent-confirmations`) | action records | execute, deny, expire | run ends during execution | an action executes at most once |
| Billing subscriptions (`B/`) | subscription, seats | plan change, renewal, cancellation | provider periods against local ones | one plan per period |
| Payment providers, other connectors, model gateway | requests | translate, call | provider errors | — |
| Devices, artifacts, clients (web, desktop, mobile, extension, CLI) | own tables, UI state | own protocols | separate systems | — |

Interaction. An API handler writes a run row, enqueues a job and pushes to Redis; a
worker claims the row and pushes; a client reads Redis and, between polls, the row; the
scheduler ends what stays silent. The connector tick writes occurrences and run rows
and enqueues; the worker takes the connector's advisory lock, applies pages through the
source service and reports the run and its occurrence; a connector's items become
sources, which the same indexing code makes searchable. Usage of turns and parses is
charged to the account that orders fill. The parts share the queue and the database and
call each other only at these points, so each is modelled on its own with the other side
as a nondeterministic result (the result of a turn, of a sync, of a metering call). The
hazards of `PROJECT.json` name the lines where it can go wrong.

## Modules

| Module | Models | State |
|---|---|---|
| `RunState` | `run-state.ts`, `run-constants.ts` | operators on a row |
| `ChatThreadRuns` | `repository.ts`, `snapshot.ts` merge, `protected-agent-tool-state*.ts` | `runs`, `finishedLog` |
| `RunLifecycle` | abstract: the life of a run as the component promises it | `status`, `thread` |
| `DurableRun` | `service.ts`, `run-recovery.ts`, `approval.ts`, `runner.ts`, processor, queue, sweeps; extends `ChatThreadRuns` | `proc`, `stream`, `queue`, `released`, `faults` |
| `AttachRun` | `attachRunEvents`, `run-results.ts`; extends `DurableRun` | `reader` |
| `ScheduleOccurrences` | the transactions of `schedule.ts`, `schedule-occurrence.ts`, `sync-run.ts`, `connector.ts` | `schedule`, `connector`, `occurrences`, `runs` |
| `ConnectorScheduler` | tick, dispatch, queue, worker, other triggers, edits; extends `ScheduleOccurrences` | `jobs`, `lock`, `worker`, `tick`, `editor`, `unsent`, `spent` |
| `ConnectorSync` | `run` and `upsertItem` of the orchestrator, `sync-state.ts`, Gmail `discoverPages` | mailbox, `sources`, `seen`, `cursor`, `run` |
| `SourceParsing` | `service.ts`, `parsing-service.ts`, `indexing-service.ts`, parse and poll processors, upload sweep | `src`, `object`, `revs`, `docs`, `jobs`, `calls`, `sweep` |
| `BillingOrders` | order service, fulfilment, reversals, webhooks, retry job, credit buckets | `order`, `account`, `ledger`, `usage`, `event`, `request`, `proc`, `todo` |
| `ChatThreadRunsProofs`, `DurableRunProofs`, `DurableRunOwnershipProofs`, `AttachRunProofs`, `ConnectorSchedulerProofs`, `ConnectorSyncProofs`, `SourceParsingProofs`, `BillingOrdersProofs` | theorems | — |
| `MC*` | instances for TLC, and claims that fail | — |

Operators named `M_...` state, just before the definition they belong to, how that code
could plausibly be wrong; `PROJECT.json` pairs each property with the one it catches.

### Durable runs

**`ChatThreadRuns`: the table.** One action per repository transaction. Every one of
them locks the row or is a single guarded `UPDATE`, so it is one step; its guard is
the `WHERE` clause or the early return (`CanCreate`, `CanStart`, `CanPause`,
`CanFinish`, ...), its assignments are the columns it writes. `Spec` lets callers issue
any transaction at any time, so what it satisfies holds whatever the callers do; the
only discipline it asks of them is that a turn's transactions are issued for a claimed
run, and `TableSpec` states that the handlers keep it.

Times are kept as the age of the heartbeat (`silence`, saturating at
`STALE_ACTIVE_RUN_TIMEOUT + 1`) and as "the deadline has passed" (`due`). A snapshot is
the outcome its finish reason describes (`snapshot`) and how far a publication has got
(`publication`: none, a block, a block with its completed tool call). Confirmations are
ids. Error codes that no rule tells apart are one code. A row that ended resets
`silence` and `snapshot`, which nothing reads any more.

**`RunLifecycle`: the promise.** The moves between statuses and one active run per
thread. `ChatThreadRuns` implements it under the mapping that reads status and thread
from the row; `Move(.., "completed")` from `cancel_requested` is not a move: an
acknowledged stop never turns into a completed run.

**`DurableRun`: the processes.** A process is one invocation of a handler and has a
program counter between two awaits, holding only what it read before. Deliveries,
API requests and scheduler ticks run the same recovery code (`failRunIfStale`), which
re-reads, decides and commits in separate steps. After a commit a process works off
its effects one by one (stop marker, error, finish, lease release) in the order of its
code path: the runner releases the lease before it announces, recovery and stop
release in a `finally`. Faults: a Redis push that fails before or after it took
effect, an enqueue that reports a failure but left the job, a failing database call
at every await, a dying process, a job redelivered while its first delivery is alive.
Where a failing call leads (turn's catch, processor boundary, given up) follows the
`try` blocks of the code.

**`AttachRun`: the client.** Polls the list from its offset, asks for the row between
polls, drains the list once the row is terminal and completes it from the row when
the finish was never pushed. `seen` holds all events it has gone through, those of the
list and the completed ones; stop markers among them are not sent on.

### Connector sync

**`ScheduleOccurrences`: the tables.** One operator per transaction or statement. A slot
coming due, a retry delay that has passed and an expired dispatch lease are choices of
the environment: intervals and jitter only decide *when* these happen.

**`ConnectorScheduler`: the system.** The tick is one process (the scheduler's ticks do
not overlap) with a program counter and the candidate list it read; every candidate is
handled from that reading. The job of a run is waiting, active, completed or failed with
its tries, stalls and owner. A delivery reads the run, asks for the connector's
advisory lock, marks the run running, applies (here a choice of result: `ConnectorSync`
has the inside), reports the occurrence and unlocks. `updateConnector` writes connector
and schedule in two steps (`editor`); an API request creates a run and enqueues it in
two (`unsent`). `spent.replayed` is a ghost: runs that a second delivery executed again
after they had ended, which the status check before the lock allows.

**`ConnectorSync`: one run.** The lock makes runs of a connector exclusive, so there is
one at a time. The provider has a label per message, a history of changes and a floor
below which it is no longer listed. A run reads profile, page, items, reports, removals,
reconciliation and commit as separate steps, any of which may be its last. The two ghost
marks remember what the properties except: `off`, indexing was turned off while a run
that committed was on its way, and `replay`, a full scan redelivered after a crash.

### Sources

**`SourceParsing`.** The row with its status, text and the two metadata fields that
steer later writes, the newest document of every revision, the jobs of every revision
and the API calls. A write of metadata is a merge into what the writer read, which is
kept in the call or job. What a revision's job parses is abstracted to the revision's
number, so a text tells which parse it is from. The sweep acts on the row it listed.

### Orders

**`BillingOrders`.** A transaction under the order's or the member's row lock is one
action; what lies between two transactions of a webhook delivery, the retry job or a
checkout request interleaves. Amounts are coarse units, but every rule on them is the
code's: which bucket is charged first, what a renewal expires, what a reversal may take
(`computeReversalTarget`), how a late cost settlement is returned. The provider emits a
payment, refunds and a chargeback and delivers each event until it is answered.

## Runs

| Run | Instance | Distinct states | Shows |
|---|---|---|---|
| `run_table` | 2 runs, 1 thread, 1 confirmation, 1 operation | 1.6 M | `TypeOK`, `OneActiveRunPerThread`, `TerminalRunsAreSettled`, `StopNeverCoversPublication`, `ReportedAtMostOnce`, `OutcomeIsFinal`, `CommittedFactsSurvive` |
| `execution` | 1 run, 2 deliveries, 2 requests, 1 fault | 2.9 M | `SystemTypeOK`, `OneExecutorPerRun`, `TurnStartsFresh`, `LeaseReleasedOnlyAfterFailure`, `AnnouncedOutcomeIsCommitted`, `ActiveRunHasOwner`, `LiveRunIsNotFailedAsStale` |
| `every_run_ends` | worker, request, sweep, 1 operation, 1 fault, fair | 1.1 M | `EveryRunEnds`, `LifecycleSpec` |
| `attached_client` | worker, request, client, 1 operation, 1 fault | 3.4 M | `ClientLearnsCommittedOutcome`, `TableSpec` |
| `scheduled_sync` | 2 occurrences, 3 runs, 2 workers, 1 disturbance | 4.8 M | `SystemTypeOK`, `OneSyncAtATime`, `SuccessIsARunsSuccess`, `OneQueuedScheduledRun`, `GivenUpRunIsOver` |
| `occurrences_settle` | 1 occurrence, 3 runs, 1 worker, 2 disturbances, fair | 1.6 M | `OccurrenceSettlesOrConnectorBlocked` |
| `mail_sync` | 2 messages, 2 labels and "off", 2 changes, 1 edit, 1 fault, fair | 5.0 M | `TypeOK`, `NothingMissed`, `NothingStale`, `OnlyUnselectedArchived`, `Converges` |
| `source_revisions` | 2 requests (complete, reparse), 2 attempts, 2 polls, 2 faults | 3.8 M | `TypeOK`, `SearchableIsCurrent`, `OldJobChangesNothing` |
| `source_settles` | 2 requests of any kind, sweep, 1 fault, fair | 2.5 M | `SourceSettles` |
| `billing_orders` | 1 order, 2 deliveries, retry job, 1 usage, 1 renewal, 1 fault, fair | 1.3 M | `TypeOK`, `LedgerExplainsBalances`, `RefundTakesGrantBack`, `SettledStaysSettled`, `PaidOrderSettles` |
| `snapshot_recovery` | worker, request, sweep | violation | finding 1 |
| `late_checkout` | 2 checkout requests for one order, no fault | violation | finding 2 |

**Bounds, and why they are enough.** The grace periods are 0, 1 and 1 time units, which
keeps both outcomes of each comparison and the order of the periods (`run_table` needs
no time: 0). Two deliveries are what it takes to have two candidates for one claim; two
requests for a stop to race a stop and a recovery an answer. Two occurrences and three
runs let a retried dispatch, a new occurrence and a run of another trigger meet. A
disturbance of the scheduler's instance is a fault, a foreign run or an edit, and
`MaxSpent` bounds them together. One attempt of run and job and two of a dispatch reach
each limit one step later than not at all; the code's 3, 3 and 5 repeat the same step.
Two messages are one that changes and one that does not, a history of two changes has an
expired and a listed part, three scopes are the old, the new and none. Two revisions
need two requests; two polls are a pending answer and a last one. One order suffices
because orders share only the balance, which the one order's grant, the usage and the
renewal already contend for; `Paid = 2`, `Granted = 3` make half a refund round.
`MaxEvents` bounds what a turn pushes, `MaxDeliveries` the deliveries of a job,
`PublishingRuns` the runs that publish (none in `every_run_ends`, where a publication
only adds a shorter way for a stop to end the run), `TurnErrors` the codes a turn fails
with by itself. One fault separates every pair of adjacent steps of a handler.

Symmetry is used only over interchangeable ids in runs without liveness. Deadlock is
not checked where the instance may stop legally: when its requests, deliveries and
events are used up.

**Fairness.** Weak fairness, and only of what the code schedules by itself:

- `DurableRun`: handlers that are alive (Node schedules their continuations), delivery
  (BullMQ hands a waiting job to a free worker), the sweeps (repeated by the scheduler),
  the clock and the approval deadline. A turn that streams for ever is excluded by
  `MaxEvents`: the code has no limit of its own on a turn that keeps heartbeating.
- `ConnectorScheduler`: the tick, each live delivery, the queue giving up on a silent
  worker, the heartbeat of a dead run ageing, the second half of a request.
- `ConnectorSync`: some step of the run, and the scheduler starting runs again.
- `SourceParsing`: some step of a request, a job or the sweep. These are finitely many.
- `BillingOrders`: some delivery, retry or step of a process. The provider redelivers an
  event until it is processed, as the webhook's error answer asks it to.

Nothing is assumed of users, monitors, tools, mailbox, provider decisions or faults.
Faults are finitely many.

**What the properties except, and why.** `SuccessIsARunsSuccess` excepts runs executed
a second time and `OccurrenceSettlesOrConnectorBlocked` a connector blocked by a run
nobody owns: both happen, see below. `NothingMissed` excepts cursors behind which
indexing was turned off, `NothingStale` those behind a replayed full scan,
`SearchableIsCurrent` edits and index requests during an embedding. `source_settles`
leaves out a crash and a failing enqueue of a reparse: after a crash the redelivered
parse job's poll id is already known to the queue, and a reparse whose enqueue fails
leaves the row queued without a job, so that in both cases the source waits for a user.
`billing_orders` has one checkout request per order; `late_checkout` has two.

## Findings

1. `snapshot_recovery`: `src/apps/backend/docs/stream-run-lifecycle.md:41` says stale
   recovery rechecks the heartbeat under the row lock and that a new heartbeat prevents
   it from finishing the run. `failStaleActiveRun` does (`LiveRunIsNotFailedAsStale`);
   `finishRunIfSnapshotIsTerminal` checks the heartbeat only on the row it was given.
2. `late_checkout`: the provider's answer to a checkout request overwrites the order's
   status whatever it is (`B/order-service.ts:832`). When two requests with one client
   reference are on their way, the second answer demotes the order the first one's
   payment has fulfilled; a later refund is then recorded and never taken back, against
   `B/payment-reversal.ts:30` and the rule of `B/order-locking.ts:14`.

Further claims of comments, docs and tests that the models refute. Each is stated in an
`MC` module, where adding it to a `.cfg` shows the behaviour:

| Claim | Where it is made | What happens |
|---|---|---|
| `ReportedExactlyOnce` (`MCChatThreadRuns`) | `D/repository.ts:1276` | the answer to the last confirmation, and a stop that meets a committed publication, end a run without the finished report; none is reported twice (proved) |
| `OccurrenceSettles` (`MCConnectorScheduler`) | `scheduler/README.md:17` | a scheduler that dies between inserting a run and attaching it (`sync-orchestrator.ts:606`) leaves a queued run nobody delivers, and later occurrences wait for it |
| `OnePendingOccurrence` | `scheduler/README.md:16` | a retried occurrence becomes pending again beside the one materialised meanwhile (`schedule.ts:222`) |
| `SuccessSurvivesReplay` | `scheduler/schedules/connectors.ts:58` | a second delivery that read the run before it ended executes it again, and its failure reopens the occurrence (`sync-orchestrator.ts:803`) |
| `HiddenWhileOff` (`MCConnectorSync`) | `connectors/service.ts:336` | a run that was on its way when indexing was turned off goes on indexing |
| `SweepDeletesOnlyOrphans` (`MCSourceParsing`) | `sources/service.ts:848` | the upload is completed between the sweep's listing and its delete |
| `CompletedOnce` | `sources/service.ts:700` | two completions both see the row uploading and queue a parse each |
| `SavedTaskNotResubmitted` | `parsing-service.ts:329` | a metadata write from an older reading drops the saved task |
| `OwnIndexSurvives` | `index-write-concurrency.database.test.ts:206` | an index request that read the text before a reparse replaces the new document |

## Proofs

**The run table.** `ChatThreadRunsProofs`, for arbitrary sets of runs, threads,
confirmations and operation keys and any grace periods that are naturals with the stale
timeout the largest (`GraceAssumption`; the real 10 s, 30 s and 10 min satisfy it):

| Theorem | Statement |
|---|---|
| `TypeCorrect` | `Spec => []TypeOK` |
| `OneActive` | `Spec => []OneActiveRunPerThread` |
| `Settled` | `Spec => []TerminalRunsAreSettled` |
| `StopSafe` | `Spec => []StopNeverCoversPublication` |
| `Reported` | `Spec => []ReportedAtMostOnce` |
| `Final` | `Spec => OutcomeIsFinal` |
| `Survive` | `Spec => CommittedFactsSurvive` |
| `Refines` | `Spec => LifecycleSpec` |

The inductive invariant is `IInv`: the type invariant, one active run per thread, at
most one report per run, and `RowsSound`, which every row keeps by itself. `RowsSound`
is more than the properties: it also says that a run nobody has claimed has no
publication, no confirmation and no operation. Without that, a stop that meets a
committed publication could complete a *queued* run, which the life of a run does not
allow, and `Refines` could not be proved. `NextMoves` summarises what a step does to
the statuses (creates one run, moves one along `Moves`, moves none); one active run
per thread, the single report and the refinement all follow from it, so each action is
analysed once. `TerminalRowStep` (an ended row only ever takes its late job id) gives
`Final`; `FactsKept` per action gives `Survive`.

**The system around it.** `DurableRunProofs` and `DurableRunOwnershipProofs`, for any
number of deliveries, requests and sweeps and any bounds on events, deliveries and
faults, provided that the slots for deliveries are not those of requests and sweeps
(`DurableRunAssumption`):

| Theorem | Statement |
|---|---|
| `HandlersKeepTable` | `SystemSpec => TableSpec` |
| `OneExecutor` | `SystemSpec => []OneExecutorPerRun` |
| `StartsFresh` | `SystemSpec => []TurnStartsFresh` |
| `LeaseSafe` | `SystemSpec => []LeaseReleasedOnlyAfterFailure` |
| `Announced` | `SystemSpec => []AnnouncedOutcomeIsCommitted` |
| `NotFailedAsStale` | `SystemSpec => LiveRunIsNotFailedAsStale` |
| `OwnersHold` | `SystemSpec => []ActiveRunHasOwner` |
| `SystemTypeCorrect` | `SystemSpec => []SystemTypeOK` |

`HandlersKeepTable` says that every step of every handler, faulty ones included, is a
transaction of the table or leaves it alone; with `TypeCorrect` to `Refines` the whole
list above then holds of the system. The inductive invariant `SystemBase` judges each
handler alone. `LocalsSound` is what its local state promises about itself: its run is
a run, only deliveries are in a turn, a handler outside a turn never returns into one,
an outcome it is about to commit carries an error code that belongs to it. `CommitSeen`
is what it may rely on in the table: the run it executes or announces has been claimed,
and a lease still to be released belongs to a run that failed or was cancelled. The
third part is the table's own `IInv`. A step of a handler is summarised once by
`ProcStep`: it alone moves, stays sound and covered, and is in a turn afterwards only if
it was before or if nobody had claimed the run. The last clause gives `OneExecutor`:
two deliveries in one turn would both have claimed an unclaimed row. `Witnessed` adds
that a run with events was claimed, which gives `StartsFresh`.

`Announced` looks at the events and at the handlers that still owe some (`ToldOnce`): what
is announced or owed is the outcome its run ended with, nobody owes what has been made,
and no two handlers owe the same. A handler comes to owe an announcement only in the
step that ends the run (`WinsNow`), so nobody else can owe it then; a push that fails
after it took effect is given up, not repeated (`KeepsEffects`). `NotFailedAsStale`
follows the code `CHAT_RUN_STALE` itself (`StaleCodesKnown`): a handler holds it either
in a recovery whose commit asks under the lock whether the run is still stale, or for a
run that has ended already, where the commit is lost. A turn that reads it as the reason
of its abort, and carries it through its catch block to the processor boundary, is the
second case.

`OwnersHold` is about who may let go of a run. `Owning` says, as long as there was no
fault, that each run which needs somebody is served: a queued one by the request that is
about to enqueue it, by a job, or by the delivery about to claim it; a running one by a
delivery in its turn; a stopped one by its turn, by the request that forces the end, or
by effects that return to it. Every step of a handler is judged by what becomes of the
run it was working on (`Hands`): it is still served by the handler, waits in the queue,
or was not served by this handler before. This needs what a handler may rely on
(`SettledFor`): a delivery past its claim works on a claimed run, a lost or finished turn
leaves no running row behind, and only deliveries return to the queue.

**The client.** `AttachRunProofs`, in the same generality and for any number of clients:

| Theorem | Statement |
|---|---|
| `ClientLearns` | `AttachSpec => []ClientLearnsCommittedOutcome` |
| `AttachedSystem` | `AttachSpec => SystemSpec` |
| `AttachedKeepTable` | `AttachSpec => TableSpec` |

`Announced` says what is told and that it is told once, not in which order; a client
that has read a finish stops, and would miss an error behind it. `ToldInOrder` adds the
order: an error in a list belongs to a run that failed or was cancelled, a finish of such
a run comes after its error, and what a handler still owes continues the list in this
order. Two handlers cannot disturb each other, because only the one that ended the run
owes its outcome. The client's part is `ReadersSound`: it has gone through a prefix of the
list in which no finish occurs (`Follows`), and once it is done `seen` tells the outcome
of the row, once, and ends with its finish (`Learned`). An ended row keeps its outcome
(`Final`), so what a client completes from the row stays true; what it leaves to
complete is what no event before it said, and what is pushed later is not read.

Proving these theorems showed places where two branches of a `CASE` had overlapping
guards. TLC takes the first, TLA+ any of them. They are exclusive now.

**The connector's scheduler.** `ConnectorSchedulerProofs`, for any occurrences, runs,
workers, attempts and faults:

| Theorem | Statement |
|---|---|
| `TypeCorrect` | `SystemSpec => []SystemTypeOK` |
| `OneSync` | `SystemSpec => []OneSyncAtATime` |
| `OneQueued` | `SystemSpec => []OneQueuedScheduledRun` |
| `SuccessIsReal` | `SystemSpec => []SuccessIsARunsSuccess` |
| `GivenUpOver` | `SystemSpec => []GivenUpRunIsOver` |

`OneSync` needs that a delivery from its acquisition to its release *is* the
lock's holder, the release itself and the death of the holder included. `OneQueued`
follows from the guard of the insert and from the fact that no other step makes a run
queued and scheduled again. `SuccessIsReal` and `GivenUpOver` share `SoundInv`, which says
what each process may rely on about the run it read earlier: a delivery that applies is
alone with its run, by the lock, so that its run has not succeeded by somebody else's
hand unless it was executed again; the tick reports a success only of a run that had
succeeded when it was listed; a claimed occurrence refers to the run the tick read, or to
none. An occurrence is given up together with its queued run in one transaction
(`retryScheduleOccurrence`), and every other way to give
it up starts from a run that was executed or ended.

**The connector's sync.** `ConnectorSyncProofs`, for any messages, scopes, lengths
of history, edits and failures:

| Theorem | Statement |
|---|---|
| `TypeCorrect` | `Spec => []TypeOK` |
| `NothingIsMissed` | `Spec => []NothingMissed` |
| `NothingIsStale` | `Spec => []NothingStale` |
| `ArchivesOnlyUnselected` | `Spec => OnlyUnselectedArchived` |

The argument is about positions in the provider's history. A message that did not change
after a position still has the label it had there, so it suffices to speak of such
messages (`Kept`, `Clean`, `Chosen`). The invariant promises them at each position that
something relies on: the committed cursor and a committed page of the history
(`CursorKeeps`, `CursorCleans`), the position a listing has reached, except for what it
has in hand (`HistoryDone`), and for a full scan *some* position between its profile and
now, from which it has looked at everything not left (`ScanDone`): the scan is not a
snapshot, and no fixed position would do. Inductiveness took two facts that the
properties do not show: cursor and run agree on the scope from the profile on, not only
from the first page, and a cursor holds at most one unfinished page.

**Sources.** `SourceParsingProofs`, for any requests, attempts, polls and faults:

| Theorem | Statement |
|---|---|
| `TypeCorrect` | `Spec => []TypeOK` |
| `SearchableTextIsCurrent` | `Spec => []SearchableIsCurrent` |
| `OldJobsChangeNothing` | `Spec => OldJobChangesNothing` |

`LatestText` is the strengthening: unless an edit or an index request came in, the row has
the text of the latest revision from the moment its job wrote it, a job about to write
chunks holds the text of its own revision, and the documents of the latest revision have
that text. `NothingAhead` says that nothing exists of a revision not yet created, so that
a new revision starts with no job and no document.

**Orders.** `BillingOrdersProofs`, for any amounts, orders, deliveries, usages and
faults, proves `NoNegativeBalance` and `LedgerExplains` of `Spec` alone, and
`GrantTakenBack` and `Settles` of `Spec /\ []OneCheckoutPerOrder`: at most one checkout
request per order is on its way. `late_checkout` shows that the condition is needed.

For the latter two the invariant ties the order row to the ledger (`Books`: granted
exactly if fulfilled; reversed is the target of what was refunded from the grant on and
zero before) and orders the life of an order (`CheckoutFirst`: nothing is paid, delivered
or listed for an order whose checkout is not known, so a late answer can only meet an
unpaid order). `computeReversalTarget` is shown monotone and exact at both ends, whence
no refund ever lowers what is reversed.

The types need only themselves (`OrdersTyped`, `Money`). The ledger needs `Explained`: a
key has one row, the buckets hold the sum of the rows, and `KeysKnown`, without which it
would not be inductive: a renewal, charge or settlement whose key had a row already would
move the balance while the set of rows stays as it is. The keys of a cycle are below its
number and those of a charge follow from its state, so every one of them is new when it
is written; those of grants and reversals are looked up by the code. The sums are folds,
which choose the order in which they add. A first part shows that the order does not
matter: `Sums(g, f, S)` says that g adds up every subset of S by taking out the chosen
element, and a smallest subset (`MinimalSet`) on which two such functions differ
(`SumsAgree`) or on which another element gives another sum (`SumsTakeAny`) cannot exist.
From it follow what one more row adds (`DeltaAdds`, `ReversedAdds`) and the two lemmas
each transaction uses, `PostRow` and `SyncPosts`.

**Only model-checked.** All liveness (`EveryRunEnds`,
`OccurrenceSettlesOrConnectorBlocked`, `Converges`, `SourceSettles`, `PaidOrderSettles`):
TLAPS reasons neither about fairness nor about `ENABLED`. No recursive operator is used
in any module.

## Not modelled, and the plan

Not modelled: the conversation with the model (a nondeterministic outcome of a turn),
the text of events and messages, authentication, user interfaces, provider adapters
(format conversion and network calls), subscriptions, page top-ups, spend caps, other
job types and schedules. Left out of the modelled parts: the assistant message the
transactions project, the 24 hour expiry of the event list, the blocking wait for a run
result, size limits and receipts of protected operations, drain timers of the worker,
the expiry of the sandbox lease (only the decision to release it); connectors without a
cursor and webhook deletions; proxied uploads, web sources and deletion of sources;
expiry of checkouts and rejected reversals. The repository's larger part by lines is
web and desktop interface, packaging and adapters: it keeps no state that several
processes share.

Plan, in order:

1. `MessageProjection`: the assistant message written beside and after the commits
   (pause, completion and stop projected late), composed with the table.
2. `AgentConfirmations`: validation, execution and recording of a confirmed action as
   three steps that race stop, expiry and a second answer; cancelled action records.
3. `SandboxLease`: lease kept per thread, released by a slow recovery while the next
   run uses it, with touch and expiry.
4. `ProtectedOperations`: receipts, capacity limits and result reuse as a component of
   its own that `ChatThreadRuns` abstracts.
5. `Subscriptions` beside `BillingOrders`, over the same account and webhook events.
6. `DeltaCoalescer` (order and completeness of flushed text against its reference),
   event list expiry with a client that returns, `NotifyHub` reconnection.
7. Proofs: the abstract promises of the other components as specifications of their own.
