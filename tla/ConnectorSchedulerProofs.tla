---------------------- MODULE ConnectorSchedulerProofs ----------------------
(***************************************************************************)
(* Proofs about the periodic sync of a connector, for any occurrences,     *)
(* runs and workers and any bounds on faults, attempts and edits.          *)
(***************************************************************************)
EXTENDS ConnectorScheduler, TLAPS

-----------------------------------------------------------------------------
\* The inductive invariant

WorkerRow == [pc : WorkerPcs, run : Runs \cup {NoRun}, seen : ConnectorStatuses,
              out : RunStatuses, code : Codes]
ConnectorRow == [status : ConnectorStatuses, blocked : BOOLEAN]

RowsTyped == worker \in [Workers -> WorkerRow] /\ connector \in ConnectorRow

\* From its acquisition to its release a delivery holds the connector's
\* advisory lock.
Critical == {"start", "apply", "touch", "complete", "unlock"}
HoldsLock == \A w \in Workers : worker[w].pc \in Critical => lock = w

IInv == RowsTyped /\ HoldsLock

-----------------------------------------------------------------------------
\* Helpers

\* A delivery that leaves is outside its critical section.
LEMMA IdleRow == IdleWorker \in WorkerRow /\ IdleWorker.pc = "idle"
  BY DEF IdleWorker, WorkerRow, WorkerPcs, ConnectorStatuses, RunStatuses, Codes

\* A new program counter leaves a typed row, and touches no other delivery.
LEMMA GoToRow ==
    ASSUME RowsTyped, NEW w \in Workers, NEW pc \in WorkerPcs, GoToW(w, pc)
    PROVE  /\ worker' \in [Workers -> WorkerRow]
           /\ worker'[w].pc = pc
           /\ \A v \in Workers \ {w} : worker'[v] = worker[v]
  <1>1. [worker[w] EXCEPT !.pc = pc] \in WorkerRow
    BY DEF RowsTyped, WorkerRow
  <1> QED
    BY <1>1 DEF RowsTyped, GoToW, WorkerRow

\* A delivery that leaves: the others stay where they are.
LEMMA LeaveRow ==
    ASSUME RowsTyped, NEW w \in Workers, Leave(w)
    PROVE  /\ worker' \in [Workers -> WorkerRow]
           /\ worker'[w].pc = "idle"
           /\ \A v \in Workers \ {w} : worker'[v] = worker[v]
  BY IdleRow DEF RowsTyped, Leave

\* A step of one delivery that keeps the lock keeps HoldsLock, provided that
\* the delivery was critical before if it is afterwards.
LEMMA LockKept ==
    ASSUME HoldsLock, NEW w \in Workers, lock' = lock,
           \A v \in Workers \ {w} : worker'[v] = worker[v],
           worker'[w].pc \in Critical => worker[w].pc \in Critical
    PROVE  HoldsLock'
  BY DEF HoldsLock

\* The status a connector gets back after a sync is one of its statuses.
LEMMA FinalStatus ==
    \A s : finalConnectorStatusAfterSync(s) \in ConnectorStatuses
  BY DEF finalConnectorStatusAfterSync, ConnectorStatuses

LEMMA StatusWritten ==
    ASSUME RowsTyped, NEW s \in ConnectorStatuses,
           connector' = [connector EXCEPT !.status = s]
    PROVE  connector' \in ConnectorRow
  BY DEF RowsTyped, ConnectorRow

-----------------------------------------------------------------------------
\* Every step keeps the invariant

LEMMA InitIInv == SystemInit => IInv
  <1> SUFFICES ASSUME SystemInit PROVE IInv
    OBVIOUS
  <1>1. RowsTyped
    BY IdleRow DEF SystemInit, Init, RowsTyped, ConnectorRow, ConnectorStatuses
  <1>2. HoldsLock
    BY IdleRow DEF SystemInit, HoldsLock, Critical
  <1> QED BY <1>1, <1>2 DEF IInv

\* The steps that leave the deliveries and the lock alone need the connector's
\* row only.
LEMMA OthersKeep ==
    ASSUME IInv, UNCHANGED <<worker, lock>>, connector' \in ConnectorRow
    PROVE  IInv'
  BY DEF IInv, RowsTyped, HoldsLock

LEMMA TickKeeps == IInv /\ TickStep => IInv'
  <1> SUFFICES ASSUME IInv, TickStep PROVE IInv'
    OBVIOUS
  <1>0. RowsTyped
    BY DEF IInv
  <1>c. ASSUME UNCHANGED <<worker, lock, connector>> PROVE IInv'
    BY <1>0, <1>c, OthersKeep DEF RowsTyped
  <1>1. CASE TickStarts
    BY <1>1, <1>c DEF TickStarts, TickOnly
  <1>2. CASE listQueuedConnectorOccurrences
    BY <1>2, <1>c DEF listQueuedConnectorOccurrences, TickOnly, tableVars
  <1>3. CASE \E item \in tick.list : Reconcile(item)
    BY <1>3, <1>c DEF Reconcile
  <1>4. CASE \E item \in tick.list : RecoverStale(item)
    BY <1>4, <1>c DEF RecoverStale, TickOnly
  <1>5. CASE \E item \in tick.list : CheckConnector(item)
    <2>1. UNCHANGED <<worker, lock>>
      BY <1>5 DEF CheckConnector, TickOnly
    <2>2. \/ connector' = connector
          \/ connector' = [connector EXCEPT !.status =
                             finalConnectorStatusAfterSync(connector.status)]
      BY <1>5, Zenon DEF CheckConnector
    <2> QED
      BY <1>0, <1>c, <2>1, <2>2, FinalStatus, StatusWritten, OthersKeep
  <1>6. CASE listStaleRunningConnectorOccurrences
    BY <1>6, <1>c DEF listStaleRunningConnectorOccurrences, TickOnly, tableVars
  <1>7. CASE ClaimOccurrences
    BY <1>7, <1>c DEF ClaimOccurrences, TickOnly
  <1>8. CASE CreateScheduledRun
    BY <1>8, <1>c DEF CreateScheduledRun, TickOnly
  <1>9. CASE AttachRun
    <2>1. UNCHANGED <<worker, lock>>
      BY <1>9 DEF AttachRun, TickOnly
    <2>2. \/ connector' = connector
          \/ connector' = [connector EXCEPT !.status =
                             finalConnectorStatusAfterSync(tick.item.seen)]
      BY <1>9, Zenon DEF AttachRun
    <2> QED
      BY <1>0, <1>c, <2>1, <2>2, FinalStatus, StatusWritten, OthersKeep
  <1>10. CASE EnqueueScheduledRun
    BY <1>10, <1>c DEF EnqueueScheduledRun, tableVars
  <1>11. CASE MarkDispatched
    BY <1>11, <1>c DEF MarkDispatched, TickOnly
  <1>12. CASE RetryDispatch
    BY <1>12, <1>c DEF RetryDispatch, TickOnly
  <1>13. CASE PauseForAuth
    <2>1. UNCHANGED <<worker, lock>>
      BY <1>13 DEF PauseForAuth, TickOnly
    <2>2. connector' = [connector EXCEPT !.status = "error"]
      BY <1>13 DEF PauseForAuth, pauseConnectorScheduleForAuth
    <2>3. "error" \in ConnectorStatuses
      BY DEF ConnectorStatuses
    <2> QED
      BY <1>0, <2>1, <2>2, <2>3, StatusWritten, OthersKeep
  <1>14. CASE ResumeQuotaBlocked
    BY <1>14, <1>c DEF ResumeQuotaBlocked
  <1>15. CASE EnqueueResumedRun
    BY <1>15, <1>c DEF EnqueueResumedRun, tableVars
  <1> QED
    BY <1>1, <1>2, <1>3, <1>4, <1>5, <1>6, <1>7, <1>8, <1>9, <1>10, <1>11,
       <1>12, <1>13, <1>14, <1>15, Zenon DEF TickStep

\* The lock changes hands in two actions only: one delivery takes it when it is
\* free, and its holder gives it back.
LEMMA WorkerKeeps ==
    ASSUME IInv, NEW w \in Workers, WorkerStep(w)
    PROVE  IInv'
  <1>0. RowsTyped /\ HoldsLock
    BY DEF IInv
  <1>c. ASSUME UNCHANGED connector PROVE connector' \in ConnectorRow
    BY <1>0, <1>c DEF RowsTyped
  <1>1. ASSUME NEW r \in Runs, TakeJob(w, r) PROVE IInv'
    <2>1. [IdleWorker EXCEPT !.pc = "read", !.run = r] \in WorkerRow
      BY IdleRow DEF WorkerRow, WorkerPcs
    <2>2. /\ worker' \in [Workers -> WorkerRow] /\ worker'[w].pc = "read"
          /\ \A v \in Workers \ {w} : worker'[v] = worker[v]
      BY <1>0, <1>1, <2>1, IdleRow DEF TakeJob, RowsTyped, WorkerRow
    <2>3. HoldsLock'
      BY <1>0, <1>1, <2>2, LockKept DEF TakeJob, Critical
    <2> QED BY <1>1, <1>c, <2>2, <2>3 DEF TakeJob, tableVars, IInv, RowsTyped
  <1>2. CASE ReadRun(w)
    <2>0. lock' = lock /\ connector' = connector
      BY <1>2 DEF ReadRun, tableVars
    <2>1. CASE Leave(w)
      <3>1. HoldsLock'
        BY <1>0, <2>0, <2>1, LeaveRow, LockKept DEF Critical
      <3> QED BY <1>0, <1>c, <2>0, <2>1, <3>1, LeaveRow DEF IInv, RowsTyped
    <2>2. CASE GoToW(w, "skip_run")
      <3>1. "skip_run" \in WorkerPcs
        BY DEF WorkerPcs
      <3>2. HoldsLock'
        BY <1>0, <2>0, <2>2, <3>1, GoToRow, LockKept DEF Critical
      <3> QED BY <1>0, <1>c, <2>0, <2>2, <3>1, <3>2, GoToRow DEF IInv, RowsTyped
    <2>3. CASE worker' = [worker EXCEPT ![w].pc = "lock", ![w].seen = connector.status]
      <3>1. connector.status \in ConnectorStatuses
        BY <1>0 DEF RowsTyped, ConnectorRow
      <3>2. [worker[w] EXCEPT !.pc = "lock", !.seen = connector.status] \in WorkerRow
        BY <1>0, <3>1 DEF RowsTyped, WorkerRow, WorkerPcs
      <3>3. /\ worker' \in [Workers -> WorkerRow] /\ worker'[w].pc = "lock"
            /\ \A v \in Workers \ {w} : worker'[v] = worker[v]
        BY <1>0, <2>3, <3>2 DEF RowsTyped, WorkerRow
      <3>4. HoldsLock'
        BY <1>0, <2>0, <3>3, LockKept DEF Critical
      <3> QED BY <1>c, <2>0, <3>3, <3>4 DEF IInv, RowsTyped
    <2> QED BY <1>2, <2>1, <2>2, <2>3, Zenon DEF ReadRun
  <1>3. CASE SkipRun(w)
    <2>0. lock' = lock /\ connector' = connector
      BY <1>3 DEF SkipRun
    <2>1. CASE GoToW(w, "skip_occurrence")
      <3>1. "skip_occurrence" \in WorkerPcs
        BY DEF WorkerPcs
      <3>2. HoldsLock'
        BY <1>0, <2>0, <2>1, <3>1, GoToRow, LockKept DEF Critical
      <3> QED BY <1>0, <1>c, <2>0, <2>1, <3>1, <3>2, GoToRow DEF IInv, RowsTyped
    <2>2. CASE Leave(w)
      <3>1. HoldsLock'
        BY <1>0, <2>0, <2>2, LeaveRow, LockKept DEF Critical
      <3> QED BY <1>0, <1>c, <2>0, <2>2, <3>1, LeaveRow DEF IInv, RowsTyped
    <2> QED BY <1>3, <2>1, <2>2, Zenon DEF SkipRun
  <1>4. CASE tryAcquireConnectorSyncLock(w)
    <2>0. connector' = connector
      BY <1>4 DEF tryAcquireConnectorSyncLock, tableVars
    <2>1. CASE lock = Nobody
      <3>1. lock' = w /\ GoToW(w, "start")
        BY <1>4, <2>1 DEF tryAcquireConnectorSyncLock
      <3>2. "start" \in WorkerPcs
        BY DEF WorkerPcs
      <3>3. \A v \in Workers : worker[v].pc \notin Critical
        BY <1>0, <2>1, SchedulerAssumption DEF HoldsLock
      <3>4. HoldsLock'
        BY <1>0, <3>1, <3>2, <3>3, GoToRow DEF HoldsLock
      <3> QED BY <1>0, <1>c, <2>0, <3>1, <3>2, <3>4, GoToRow DEF IInv, RowsTyped
    <2>2. CASE lock # Nobody
      <3>1. lock' = lock /\ Leave(w)
        BY <1>4, <2>2 DEF tryAcquireConnectorSyncLock
      <3>2. HoldsLock'
        BY <1>0, <3>1, LeaveRow, LockKept DEF Critical
      <3> QED BY <1>0, <1>c, <2>0, <3>1, <3>2, LeaveRow DEF IInv, RowsTyped
    <2> QED BY <2>1, <2>2
  <1>5. CASE StartRun(w)
    <2>0. /\ lock' = lock /\ connector' = connector /\ GoToW(w, "apply")
          /\ worker[w].pc \in Critical /\ "apply" \in WorkerPcs
      BY <1>5 DEF StartRun, AtW, Critical, WorkerPcs
    <2>1. HoldsLock'
      BY <1>0, <2>0, GoToRow, LockKept
    <2> QED BY <1>0, <1>c, <2>0, <2>1, GoToRow DEF IInv, RowsTyped
  <1>6. ASSUME NEW result \in Results, FinishRun(w, result) PROVE IInv'
    <2>0. lock' = lock /\ connector' = connector /\ worker[w].pc \in Critical
      BY <1>6 DEF FinishRun, AtW, Critical
    <2>1. result[1] \in RunStatuses /\ result[2] \in Codes
      BY <1>6 DEF Results, RunStatuses, TerminalRunStatuses, Codes
    <2>2. [worker[w] EXCEPT !.pc = "touch", !.out = result[1], !.code = result[2]]
            \in WorkerRow
      BY <1>0, <2>1 DEF RowsTyped, WorkerRow, WorkerPcs
    <2>3. /\ worker' \in [Workers -> WorkerRow]
          /\ \A v \in Workers \ {w} : worker'[v] = worker[v]
      BY <1>0, <1>6, <2>2 DEF RowsTyped, FinishRun, WorkerRow
    <2>4. HoldsLock'
      BY <1>0, <2>0, <2>3, LockKept
    <2> QED BY <1>c, <2>0, <2>3, <2>4 DEF IInv, RowsTyped
  <1>7. ASSUME NEW itemsFailed \in BOOLEAN, NEW targeted \in BOOLEAN,
               touchConnectorAfterSync(w, itemsFailed, targeted)
        PROVE  IInv'
    <2>0. /\ lock' = lock /\ GoToW(w, "complete")
          /\ worker[w].pc \in Critical /\ "complete" \in WorkerPcs
      BY <1>7 DEF touchConnectorAfterSync, AtW, Critical, WorkerPcs
    <2>1. HoldsLock'
      BY <1>0, <2>0, GoToRow, LockKept
    <2>2. connector' \in ConnectorRow
      BY <1>0, <1>7, FinalStatus
         DEF touchConnectorAfterSync, ConnectorRow, ConnectorStatuses, RowsTyped
    <2> QED BY <1>0, <2>0, <2>1, <2>2, GoToRow DEF IInv, RowsTyped
  <1>8. CASE CompleteOccurrence(w)
    <2>0. /\ lock' = lock /\ connector' = connector /\ GoToW(w, "unlock")
          /\ worker[w].pc \in Critical /\ "unlock" \in WorkerPcs
      BY <1>8 DEF CompleteOccurrence, AtW, Critical, WorkerPcs
    <2>1. HoldsLock'
      BY <1>0, <2>0, GoToRow, LockKept
    <2> QED BY <1>0, <1>c, <2>0, <2>1, GoToRow DEF IInv, RowsTyped
  <1>9. CASE ReleaseLock(w)
    <2>0. connector' = connector /\ Leave(w) /\ worker[w].pc \in Critical
      BY <1>9 DEF ReleaseLock, AtW, Critical, tableVars
    <2>1. \A v \in Workers \ {w} : worker[v].pc \notin Critical
      BY <1>0, <2>0 DEF HoldsLock
    <2>2. HoldsLock'
      BY <1>0, <2>0, <2>1, LeaveRow DEF HoldsLock, Critical
    <2> QED BY <1>0, <1>c, <2>0, <2>2, LeaveRow DEF IInv, RowsTyped
  <1> QED
    BY <1>1, <1>2, <1>3, <1>4, <1>5, <1>6, <1>7, <1>8, <1>9, Zenon DEF WorkerStep

\* A dying worker takes its lock with it and nobody else's.
LEMMA CrashKeeps ==
    ASSUME IInv, NEW w \in Workers, WorkerCrashes(w)
    PROVE  IInv'
  <1>0. RowsTyped /\ HoldsLock /\ Leave(w) /\ connector' = connector
    BY DEF IInv, WorkerCrashes, tableVars
  <1>1. HoldsLock'
    <2> SUFFICES ASSUME NEW v \in Workers, worker'[v].pc \in Critical
                 PROVE  lock' = v
      BY DEF HoldsLock
    <2>1. v # w /\ worker'[v] = worker[v]
      BY <1>0, LeaveRow DEF Critical
    <2>2. lock = v
      BY <1>0, <2>1 DEF HoldsLock
    <2> QED BY <2>1, <2>2 DEF WorkerCrashes
  <1> QED BY <1>0, <1>1, LeaveRow DEF IInv, RowsTyped

LEMMA RequestsKeep ==
    ASSUME IInv,
           \/ SchedulerCrashes \/ SlotDue
           \/ \E r \in Runs : JobStalls(r) \/ JobEvicted(r) \/ HeartbeatStops(r)
                              \/ RequestManualRun(r) \/ ReceiveWebhook(r) \/ SendRun(r)
           \/ \E status \in {"keep", "active", "paused", "disabled"},
                 periodic \in BOOLEAN : EditConnector(status, periodic)
           \/ \E otherInterval \in BOOLEAN : EditSchedule(otherInterval)
    PROVE  IInv'
  <1>0. RowsTyped
    BY DEF IInv
  <1>c. ASSUME UNCHANGED <<worker, lock, connector>> PROVE IInv'
    BY <1>0, <1>c, OthersKeep DEF RowsTyped
  <1>1. CASE SchedulerCrashes
    BY <1>1, <1>c DEF SchedulerCrashes, tableVars
  <1>2. CASE SlotDue
    BY <1>2, <1>c DEF SlotDue, SlotComesDue
  <1>3. ASSUME NEW r \in Runs, JobStalls(r) PROVE IInv'
    BY <1>3, <1>c DEF JobStalls, tableVars
  <1>4. ASSUME NEW r \in Runs, JobEvicted(r) PROVE IInv'
    BY <1>4, <1>c DEF JobEvicted, tableVars
  <1>5. ASSUME NEW r \in Runs, HeartbeatStops(r) PROVE IInv'
    BY <1>5, <1>c DEF HeartbeatStops
  <1>6. ASSUME NEW r \in Runs, RequestManualRun(r) PROVE IInv'
    <2>1. /\ UNCHANGED <<worker, lock>>
          /\ connector' = [connector EXCEPT !.status =
                             finalConnectorStatusAfterSync(connector.status)]
      BY <1>6, Zenon DEF RequestManualRun
    <2> QED BY <1>0, <2>1, FinalStatus, StatusWritten, OthersKeep
  <1>7. ASSUME NEW r \in Runs, ReceiveWebhook(r) PROVE IInv'
    BY <1>7, <1>c DEF ReceiveWebhook
  <1>8. ASSUME NEW r \in Runs, SendRun(r) PROVE IInv'
    BY <1>8, <1>c DEF SendRun, tableVars
  <1>9. ASSUME NEW status \in {"keep", "active", "paused", "disabled"},
               NEW periodic \in BOOLEAN, EditConnector(status, periodic)
        PROVE  IInv'
    <2>1. UNCHANGED <<worker, lock>>
      BY <1>9 DEF EditConnector
    <2>2. connector' \in ConnectorRow
      BY <1>0, <1>9 DEF EditConnector, RowsTyped, ConnectorRow, ConnectorStatuses
    <2> QED BY <2>1, <2>2, OthersKeep
  <1>10. ASSUME NEW otherInterval \in BOOLEAN, EditSchedule(otherInterval) PROVE IInv'
    BY <1>10, <1>c DEF EditSchedule
  <1> QED
    BY <1>1, <1>2, <1>3, <1>4, <1>5, <1>6, <1>7, <1>8, <1>9, <1>10

LEMMA NextIInv == IInv /\ [SystemNext]_vars => IInv'
  <1> SUFFICES ASSUME IInv, [SystemNext]_vars PROVE IInv'
    OBVIOUS
  <1>1. CASE UNCHANGED vars
    BY <1>1 DEF vars, IInv, RowsTyped, HoldsLock
  <1>2. CASE SystemNext
    BY <1>2, TickKeeps, WorkerKeeps, CrashKeeps, RequestsKeep, Zenon DEF SystemNext
  <1> QED BY <1>1, <1>2

-----------------------------------------------------------------------------
\* The theorem

\* For any number of workers and runs, whatever the trigger of a run, two
\* deliveries are never both between "running" and their result: the advisory
\* lock of sync-orchestrator.ts is taken only when it is free, kept until the
\* occurrence is reported, and lost by nobody but its holder's death.
THEOREM OneSync == SystemSpec => []OneSyncAtATime
  <1>1. IInv => OneSyncAtATime
    BY DEF IInv, HoldsLock, Critical, OneSyncAtATime
  <1> QED
    BY <1>1, InitIInv, NextIInv, PTL DEF SystemSpec

-----------------------------------------------------------------------------
\* The second invariant: the runs.  It needs of the first only that a delivery's
\* result is a result.

RunsInv == runs \in [Runs -> RunRow] /\ OneQueuedScheduledRun

\* A run becomes queued only when it is inserted, so every other write of the
\* runs leaves the queued ones among those that were queued.
NoneNewlyQueued ==
    \A r \in Runs : runs'[r].status = "queued"
                    => runs[r].status = "queued" /\ runs'[r].trigger = runs[r].trigger

LEMMA NoneQueuedKeeps ==
    ASSUME RunsInv, runs' \in [Runs -> RunRow], NoneNewlyQueued
    PROVE  RunsInv'
  BY DEF RunsInv, OneQueuedScheduledRun, NoneNewlyQueued

LEMMA RunsUnchanged ==
    ASSUME RunsInv, UNCHANGED runs
    PROVE  RunsInv'
  BY DEF RunsInv, OneQueuedScheduledRun

\* A run of another trigger is inserted whatever is queued.
LEMMA OtherRunKeeps ==
    ASSUME RunsInv, NEW r \in Runs, NEW trigger \in Triggers \ {"scheduled"},
           createSyncRunRecord(r, trigger)
    PROVE  RunsInv'
  <1>1. [runs[r] EXCEPT !.status = "queued", !.trigger = trigger] \in RunRow
    BY DEF RunsInv, RunRow, RunStatuses, ActiveRunStatuses
  <1>2. /\ runs' \in [Runs -> RunRow] /\ runs'[r].trigger = trigger
        /\ \A q \in Runs \ {r} : runs'[q] = runs[q]
    BY <1>1 DEF RunsInv, createSyncRunRecord, RunRow
  <1> QED BY <1>2 DEF RunsInv, OneQueuedScheduledRun

\* updateSyncRunRecord with anything but "queued".
LEMMA UpdateKeeps ==
    ASSUME RunsInv, NEW r \in Runs \cup {NoRun}, NEW status \in RunStatuses \ {"queued"},
           NEW code, r \in Runs => code \in Codes, updateSyncRunRecord(r, status, code)
    PROVE  RunsInv'
  <1>1. CASE r \in Runs
    <2>1. [runs[r] EXCEPT !.status = status, !.code = code, !.silent = FALSE] \in RunRow
      BY <1>1 DEF RunsInv, RunRow
    <2>2. /\ runs' \in [Runs -> RunRow] /\ runs'[r].status = status
          /\ \A q \in Runs \ {r} : runs'[q] = runs[q]
      BY <1>1, <2>1 DEF RunsInv, updateSyncRunRecord, RunRow
    <2>3. NoneNewlyQueued
      BY <2>2 DEF NoneNewlyQueued
    <2> QED BY <2>2, <2>3, NoneQueuedKeeps
  <1>2. CASE r \notin Runs
    <2>1. runs' = runs
      BY <1>2 DEF RunsInv, updateSyncRunRecord
    <2> QED BY <2>1, RunsUnchanged
  <1> QED BY <1>1, <1>2

\* A queued run that is failed is not queued any more.
LEMMA FailKeeps ==
    ASSUME RunsInv, NEW r \in Runs,
           runs' = [runs EXCEPT ![r].status = "failed", ![r].code = "transient"]
    PROVE  RunsInv'
  <1>1. [runs[r] EXCEPT !.status = "failed", !.code = "transient"] \in RunRow
    BY DEF RunsInv, RunRow, RunStatuses, TerminalRunStatuses, Codes
  <1>2. /\ runs' \in [Runs -> RunRow] /\ runs'[r].status = "failed"
        /\ \A q \in Runs \ {r} : runs'[q] = runs[q]
    BY <1>1 DEF RunsInv, RunRow
  <1>3. NoneNewlyQueued
    BY <1>2 DEF NoneNewlyQueued
  <1> QED BY <1>2, <1>3, NoneQueuedKeeps

LEMMA TickKeepsRuns ==
    ASSUME RunsInv, TickStep
    PROVE  RunsInv'
  <1>c. ASSUME UNCHANGED runs PROVE RunsInv'
    BY <1>c, RunsUnchanged
  <1>1. CASE TickStarts
    BY <1>1, <1>c DEF TickStarts
  <1>2. CASE listQueuedConnectorOccurrences
    BY <1>2, <1>c DEF listQueuedConnectorOccurrences, tableVars
  <1>3. CASE \E item \in tick.list : Reconcile(item)
    BY <1>3, <1>c DEF Reconcile
  <1>4. ASSUME NEW item \in tick.list, RecoverStale(item) PROVE RunsInv'
    <2>1. CASE UNCHANGED runs
      BY <2>1, <1>c
    <2>2. CASE runs' = [runs EXCEPT ![item.run].status = "failed",
                                    ![item.run].code = "transient"]
      <3>1. CASE item.run \in Runs
        BY <2>2, <3>1, FailKeeps
      <3>2. CASE item.run \notin Runs
        <4>1. runs' = runs
          BY <2>2, <3>2 DEF RunsInv
        <4> QED BY <4>1, <1>c
      <3> QED BY <3>1, <3>2
    <2> QED
      BY <1>4, <2>1, <2>2, Zenon DEF RecoverStale, recoverLostScheduleOccurrence
  <1>5. CASE \E item \in tick.list : CheckConnector(item)
    BY <1>5, <1>c DEF CheckConnector
  <1>6. CASE listStaleRunningConnectorOccurrences
    BY <1>6, <1>c DEF listStaleRunningConnectorOccurrences, tableVars
  <1>7. CASE ClaimOccurrences
    BY <1>7, <1>c DEF ClaimOccurrences
  <1>8. CASE CreateScheduledRun
    \* The scheduler inserts its run only when none is queued or running.
    <2>1. CASE UNCHANGED runs
      BY <2>1, <1>c
    <2>2. ASSUME ActiveRuns = {}, NEW r \in FreeRuns, createSyncRunRecord(r, "scheduled")
          PROVE  RunsInv'
      <3>1. r \in Runs /\ "scheduled" \in Triggers
        BY <2>2 DEF FreeRuns, Triggers
      <3>2. [runs[r] EXCEPT !.status = "queued", !.trigger = "scheduled"] \in RunRow
        BY <3>1 DEF RunsInv, RunRow, RunStatuses, ActiveRunStatuses
      <3>3. runs' \in [Runs -> RunRow] /\ \A q \in Runs \ {r} : runs'[q] = runs[q]
        BY <2>2, <3>1, <3>2 DEF RunsInv, createSyncRunRecord, RunRow
      <3>4. \A q \in Runs \ {r} : runs'[q].status # "queued"
        BY <2>2, <3>3 DEF ActiveRuns, ActiveRunStatuses
      <3> QED BY <3>3, <3>4 DEF RunsInv, OneQueuedScheduledRun
    <2> QED
      BY <1>8, <2>1, <2>2, Zenon DEF CreateScheduledRun
  <1>9. CASE AttachRun
    BY <1>9, <1>c DEF AttachRun
  <1>10. CASE EnqueueScheduledRun
    BY <1>10, <1>c DEF EnqueueScheduledRun, tableVars
  <1>11. CASE MarkDispatched
    BY <1>11, <1>c DEF MarkDispatched
  <1>12. CASE RetryDispatch
    <2> DEFINE r == occurrences[tick.item.occ].run
    <2>1. CASE UNCHANGED runs
      BY <2>1, <1>c
    <2>2. CASE /\ r \in Runs
               /\ runs' = [runs EXCEPT ![r].status = "failed", ![r].code = "transient"]
      BY <2>2, FailKeeps
    <2> QED
      BY <1>12, <2>1, <2>2, Zenon DEF RetryDispatch, retryScheduleOccurrence
  <1>13. CASE PauseForAuth
    BY <1>13, <1>c DEF PauseForAuth
  <1>14. CASE ResumeQuotaBlocked
    <2>1. CASE UNCHANGED runs
      BY <2>1, <1>c
    <2>2. ASSUME NEW r \in FreeRuns, createSyncRunRecord(r, "backfill") PROVE RunsInv'
      BY <2>2, OtherRunKeeps DEF FreeRuns, Triggers
    <2> QED BY <1>14, <2>1, <2>2, Zenon DEF ResumeQuotaBlocked
  <1>15. CASE EnqueueResumedRun
    BY <1>15, <1>c DEF EnqueueResumedRun, tableVars
  <1> QED
    BY <1>1, <1>2, <1>3, <1>4, <1>5, <1>6, <1>7, <1>8, <1>9, <1>10, <1>11,
       <1>12, <1>13, <1>14, <1>15, Zenon DEF TickStep

LEMMA WorkerKeepsRuns ==
    ASSUME RowsTyped, RunsInv, NEW w \in Workers, WorkerStep(w)
    PROVE  RunsInv'
  <1>0. worker[w].run \in Runs \cup {NoRun}
    BY DEF RowsTyped, WorkerRow
  <1>c. ASSUME UNCHANGED runs PROVE RunsInv'
    BY <1>c, RunsUnchanged
  <1>1. ASSUME NEW r \in Runs, TakeJob(w, r) PROVE RunsInv'
    BY <1>1, <1>c DEF TakeJob, tableVars
  <1>2. CASE ReadRun(w)
    BY <1>2, <1>c DEF ReadRun, tableVars
  <1>3. CASE SkipRun(w)
    <2>1. CASE UNCHANGED runs
      BY <2>1, <1>c
    <2>2. CASE updateSyncRunRecord(worker[w].run, "skipped", "paused")
      BY <1>0, <2>2, UpdateKeeps DEF RunStatuses, TerminalRunStatuses, Codes
    <2> QED BY <1>3, <2>1, <2>2, Zenon DEF SkipRun
  <1>4. CASE tryAcquireConnectorSyncLock(w)
    BY <1>4, <1>c DEF tryAcquireConnectorSyncLock, tableVars
  <1>5. CASE StartRun(w)
    <2>1. worker[w].run \in Runs => runs[worker[w].run].code \in Codes
      BY DEF RunsInv, RunRow
    <2>2. updateSyncRunRecord(worker[w].run, "running", runs[worker[w].run].code)
      BY <1>5 DEF StartRun
    <2>3. "running" \in RunStatuses \ {"queued"}
      BY DEF RunStatuses, ActiveRunStatuses
    <2> QED BY <1>0, <2>1, <2>2, <2>3, UpdateKeeps
  <1>6. ASSUME NEW result \in Results, FinishRun(w, result) PROVE RunsInv'
    <2> DEFINE code == IF result[2] = "none" THEN runs[worker[w].run].code ELSE result[2]
    <2>1. result[1] \in RunStatuses \ {"queued"} /\ result[2] \in Codes
      BY <1>6 DEF Results, RunStatuses, TerminalRunStatuses, Codes
    <2>2. worker[w].run \in Runs => code \in Codes
      BY <2>1 DEF RunsInv, RunRow
    <2>3. updateSyncRunRecord(worker[w].run, result[1], code)
      BY <1>6 DEF FinishRun
    <2> QED BY <1>0, <2>1, <2>2, <2>3, UpdateKeeps
  <1>7. ASSUME NEW itemsFailed \in BOOLEAN, NEW targeted \in BOOLEAN,
               touchConnectorAfterSync(w, itemsFailed, targeted)
        PROVE  RunsInv'
    BY <1>7, <1>c DEF touchConnectorAfterSync
  <1>8. CASE CompleteOccurrence(w)
    BY <1>8, <1>c DEF CompleteOccurrence
  <1>9. CASE ReleaseLock(w)
    BY <1>9, <1>c DEF ReleaseLock, tableVars
  <1> QED
    BY <1>1, <1>2, <1>3, <1>4, <1>5, <1>6, <1>7, <1>8, <1>9, Zenon DEF WorkerStep

LEMMA NextRunsInv == RowsTyped /\ RunsInv /\ [SystemNext]_vars => RunsInv'
  <1> SUFFICES ASSUME RowsTyped, RunsInv, [SystemNext]_vars PROVE RunsInv'
    OBVIOUS
  <1>c. ASSUME UNCHANGED runs PROVE RunsInv'
    BY <1>c, RunsUnchanged
  <1>1. CASE TickStep
    BY <1>1, TickKeepsRuns
  <1>2. CASE SchedulerCrashes
    BY <1>2, <1>c DEF SchedulerCrashes, tableVars
  <1>3. CASE SlotDue
    BY <1>3, <1>c DEF SlotDue, SlotComesDue
  <1>4. ASSUME NEW w \in Workers, WorkerStep(w) PROVE RunsInv'
    BY <1>4, WorkerKeepsRuns
  <1>5. ASSUME NEW w \in Workers, WorkerCrashes(w) PROVE RunsInv'
    BY <1>5, <1>c DEF WorkerCrashes, tableVars
  <1>6. ASSUME NEW r \in Runs, JobStalls(r) \/ JobEvicted(r) \/ SendRun(r)
        PROVE  RunsInv'
    BY <1>6, <1>c DEF JobStalls, JobEvicted, SendRun, tableVars
  <1>7. ASSUME NEW r \in Runs, HeartbeatStops(r) PROVE RunsInv'
    <2>1. [runs[r] EXCEPT !.silent = TRUE] \in RunRow
      BY DEF RunsInv, RunRow
    <2>2. /\ runs' \in [Runs -> RunRow] /\ runs'[r].status = "running"
          /\ \A q \in Runs \ {r} : runs'[q] = runs[q]
      BY <1>7, <2>1 DEF HeartbeatStops, HeartbeatLapses, RunsInv, RunRow
    <2>3. NoneNewlyQueued
      BY <2>2 DEF NoneNewlyQueued
    <2> QED BY <2>2, <2>3, NoneQueuedKeeps
  <1>8. ASSUME NEW r \in Runs, RequestManualRun(r) PROVE RunsInv'
    BY <1>8, OtherRunKeeps DEF RequestManualRun, Triggers
  <1>9. ASSUME NEW r \in Runs, ReceiveWebhook(r) PROVE RunsInv'
    BY <1>9, OtherRunKeeps DEF ReceiveWebhook, Triggers
  <1>10. ASSUME NEW status, NEW periodic, EditConnector(status, periodic)
         PROVE  RunsInv'
    BY <1>10, <1>c DEF EditConnector
  <1>11. ASSUME NEW otherInterval, EditSchedule(otherInterval) PROVE RunsInv'
    BY <1>11, <1>c DEF EditSchedule
  <1>12. CASE UNCHANGED vars
    BY <1>12, <1>c DEF vars
  <1> QED
    BY <1>1, <1>2, <1>3, <1>4, <1>5, <1>6, <1>7, <1>8, <1>9, <1>10, <1>11, <1>12,
       Zenon DEF SystemNext

LEMMA InitRunsInv == SystemInit => RunsInv
  <1> SUFFICES ASSUME SystemInit PROVE RunsInv
    OBVIOUS
  <1>1. runs = [r \in Runs |-> [status |-> "none", trigger |-> "scheduled",
                                code |-> "none", silent |-> FALSE]]
    BY DEF SystemInit, Init
  <1>2. runs \in [Runs -> RunRow] /\ \A r \in Runs : runs[r].status = "none"
    BY <1>1 DEF RunRow, RunStatuses, Triggers, Codes
  <1> QED BY <1>2 DEF RunsInv, OneQueuedScheduledRun

\* Coalescing, for any number of occurrences, interrupted dispatches, retries and
\* runs of other triggers: the scheduler never adds a scheduled run to one that
\* still waits for the queue.
THEOREM OneQueued == SystemSpec => []OneQueuedScheduledRun
  <1>1. IInv => RowsTyped
    BY DEF IInv
  <1>2. RunsInv => OneQueuedScheduledRun
    BY DEF RunsInv
  <1> QED
    BY <1>1, <1>2, InitIInv, NextIInv, InitRunsInv, NextRunsInv, PTL DEF SystemSpec

-----------------------------------------------------------------------------
\* The third invariant: the types of everything else.  The scheduler reads the
\* run of each queued occurrence, so that it has one is needed here.

SpentRow == [faults : 0 .. MaxFaults, other : 0 .. MaxOther,
             edits : 0 .. MaxEdits, replayed : SUBSET Runs]
TickRow == [pc : TickPcs, list : SUBSET Item, item : Item]

RestTyped ==
    /\ schedule \in [enabled : BOOLEAN, due : BOOLEAN]
    /\ occurrences \in [Occurrences -> OccurrenceRow]
    /\ jobs \in [Runs -> Job]
    /\ lock \in Workers \cup {Nobody}
    /\ tick \in TickRow
    /\ editor \in [busy : BOOLEAN, enabled : BOOLEAN]
    /\ unsent \in SUBSET Runs
    /\ spent \in SpentRow

Typed == RowsTyped /\ runs \in [Runs -> RunRow] /\ RestTyped

LEMMA TypedIsTypeOK == Typed => SystemTypeOK
  BY DEF Typed, RowsTyped, RestTyped, SystemTypeOK, TypeOK, TickRow, SpentRow,
         ConnectorRow, WorkerRow

LEMMA NoItemTyped == NoItem \in Item /\ IdleTick \in TickRow /\ NoJob \in Job
  <1>1. NoItem \in Item
    BY DEF NoItem, Item, RunStatuses, Codes, ConnectorStatuses
  <1>2. NoJob \in Job
    BY SchedulerAssumption DEF NoJob, Job
  <1> QED BY <1>1, <1>2 DEF IdleTick, TickRow, TickPcs

LEMMA InitRestTyped == SystemInit => RestTyped
  <1> SUFFICES ASSUME SystemInit PROVE RestTyped
    OBVIOUS
  <1>1. occurrences \in [Occurrences -> OccurrenceRow]
    BY DEF SystemInit, Init, OccurrenceRow, OccurrenceStatuses
  <1>2. jobs \in [Runs -> Job] /\ tick \in TickRow
    BY NoItemTyped DEF SystemInit
  <1>3. spent \in SpentRow
    BY SchedulerAssumption DEF SystemInit, SpentRow
  <1> QED BY <1>1, <1>2, <1>3 DEF SystemInit, Init, RestTyped

\* The ways each part is written keep its type.
LEMMA FaultTyped ==
    ASSUME RestTyped, NEW kind, Fault(kind)
    PROVE  spent' \in SpentRow /\ spent'.replayed = spent.replayed
  BY SchedulerAssumption DEF RestTyped, SpentRow, Fault

LEMMA OtherTyped ==
    ASSUME RestTyped, Other
    PROVE  spent' \in SpentRow /\ spent'.replayed = spent.replayed
  BY SchedulerAssumption DEF RestTyped, SpentRow, Other

LEMMA GoToTyped ==
    ASSUME RestTyped, NEW pc \in TickPcs, GoTo(pc)
    PROVE  /\ tick' \in TickRow
           /\ tick'.pc = pc /\ tick'.list = tick.list /\ tick'.item = tick.item
  BY DEF RestTyped, TickRow, GoTo

LEMMA NextItemTyped ==
    ASSUME RestTyped, NextItem
    PROVE  tick' \in TickRow /\ tick'.pc = "dispatch" /\ tick'.list = tick.list
  BY NoItemTyped DEF RestTyped, TickRow, NextItem, TickPcs

LEMMA EnqueueTyped ==
    ASSUME RestTyped, NEW r, enqueueConnectorSyncJob(r)
    PROVE  jobs' \in [Runs -> Job]
  <1>1. ASSUME NEW job \in Job PROVE enqueued(job) \in Job
    <2>1. [job EXCEPT !.state = "waiting", !.owner = Nobody] \in Job
      BY DEF Job
    <2>2. [NoJob EXCEPT !.state = "waiting"] \in Job
      BY NoItemTyped DEF Job
    <2> QED BY <2>1, <2>2 DEF enqueued
  <1>2. CASE r \in Runs
    BY <1>1, <1>2 DEF RestTyped, enqueueConnectorSyncJob
  <1>3. CASE r \notin Runs
    BY <1>3 DEF RestTyped, enqueueConnectorSyncJob
  <1> QED BY <1>2, <1>3

LEMMA ReturnedTyped ==
    ASSUME RestTyped, NEW w, NEW threw, Returned(w, threw)
    PROVE  jobs' \in [Runs -> Job]
  <1> DEFINE r == worker[w].run
             state == IF jobs[r].tries + 1 < JobAttempts THEN "waiting" ELSE "failed"
             tries == IF jobs[r].tries < JobAttempts THEN jobs[r].tries + 1
                      ELSE jobs[r].tries
  <1>1. CASE jobs' = jobs
    BY <1>1 DEF RestTyped
  <1>2. CASE jobs' = [jobs EXCEPT ![r].state = "completed", ![r].owner = Nobody]
    <2>1. r \in Runs => [jobs[r] EXCEPT !.state = "completed", !.owner = Nobody] \in Job
      BY DEF RestTyped, Job
    <2> QED BY <1>2, <2>1 DEF RestTyped
  <1>3. CASE jobs' = [jobs EXCEPT ![r] = [@ EXCEPT !.state = state, !.tries = tries,
                                                   !.owner = Nobody]]
    <2>1. ASSUME r \in Runs
          PROVE  [jobs[r] EXCEPT !.state = state, !.tries = tries, !.owner = Nobody] \in Job
      <3>1. jobs[r] \in Job
        BY <2>1 DEF RestTyped
      <3>2. jobs[r].tries \in 0 .. JobAttempts
        BY <3>1 DEF Job
      <3>3. tries \in 0 .. JobAttempts
        BY <3>2, SchedulerAssumption
      <3>4. state \in {"none", "waiting", "active", "completed", "failed"}
        OBVIOUS
      <3> HIDE DEF state, tries
      <3> QED BY <3>1, <3>3, <3>4 DEF Job
    <2> QED BY <1>3, <2>1 DEF RestTyped
  <1>4. \/ jobs' = jobs
        \/ jobs' = [jobs EXCEPT ![r].state = "completed", ![r].owner = Nobody]
        \/ jobs' = [jobs EXCEPT ![r] = [@ EXCEPT !.state = state, !.tries = tries,
                                                 !.owner = Nobody]]
    BY DEF Returned, RestTyped
  <1> QED BY <1>1, <1>2, <1>3, <1>4

LEMMA OccurrenceWritten ==
    ASSUME RestTyped, NEW o, NEW status \in OccurrenceStatuses,
           occurrences' = [occurrences EXCEPT ![o].status = status]
    PROVE  occurrences' \in [Occurrences -> OccurrenceRow]
  <1>1. o \in Occurrences => [occurrences[o] EXCEPT !.status = status] \in OccurrenceRow
    BY DEF RestTyped, OccurrenceRow
  <1> QED BY <1>1 DEF RestTyped

LEMMA CompletedTyped ==
    ASSUME NEW row \in OccurrenceRow, NEW succeeded \in BOOLEAN, NEW code
    PROVE  completed(row, succeeded, code) \in OccurrenceRow
  BY DEF completed, OccurrenceRow, OccurrenceStatuses

LEMMA CompleteTyped ==
    ASSUME RestTyped, NEW r, NEW succeeded \in BOOLEAN, NEW code,
           completeScheduleOccurrence(r, succeeded, code)
    PROVE  /\ occurrences' \in [Occurrences -> OccurrenceRow]
           /\ schedule' \in [enabled : BOOLEAN, due : BOOLEAN]
  BY CompletedTyped DEF completeScheduleOccurrence, RestTyped

\* Nothing but the parts that a step names changes its type.
LEMMA TickTyped ==
    ASSUME Typed, TickStep,
           \A o \in InStatus("queued") : occurrences[o].run \in Runs
    PROVE  RestTyped'
  <1>0. RestTyped /\ runs \in [Runs -> RunRow] /\ connector \in ConnectorRow
    BY DEF Typed, RowsTyped
  <1>t. ASSUME UNCHANGED <<schedule, occurrences, jobs, lock, editor, unsent, spent>>,
               tick' \in TickRow
        PROVE  RestTyped'
    BY <1>0, <1>t DEF RestTyped
  <1>1. CASE TickStarts
    <2>1. /\ tick' \in TickRow /\ UNCHANGED <<jobs, lock, editor, unsent, spent>>
          /\ materializeDueConnectorSchedules
      BY <1>0, <1>1, GoToTyped DEF TickStarts, TickPcs, TickOnly
    <2>2. schedule' \in [enabled : BOOLEAN, due : BOOLEAN]
      BY <1>0, <2>1 DEF RestTyped, materializeDueConnectorSchedules
    <2>3. \/ occurrences' = occurrences
          \/ \E o \in InStatus("none") :
               occurrences' = [occurrences EXCEPT ![o].status = "pending"]
      BY <2>1, Zenon DEF materializeDueConnectorSchedules
    <2>4. occurrences' \in [Occurrences -> OccurrenceRow]
      BY <1>0, <2>3, OccurrenceWritten DEF RestTyped, OccurrenceStatuses
    <2> QED BY <1>0, <2>1, <2>2, <2>4 DEF RestTyped
  <1>2. CASE listQueuedConnectorOccurrences
    <2> DEFINE read(o) == [NoItem EXCEPT !.occ = o, !.run = occurrences[o].run,
                             !.status = runs[occurrences[o].run].status,
                             !.code = runs[occurrences[o].run].code,
                             !.enabled = schedule.enabled]
    <2>1. ASSUME NEW o \in InStatus("queued") PROVE read(o) \in Item
      <3>1. /\ o \in Occurrences /\ occurrences[o].run \in Runs
            /\ runs[occurrences[o].run].status \in RunStatuses
            /\ runs[occurrences[o].run].code \in Codes
            /\ schedule.enabled \in BOOLEAN
        BY <1>0 DEF InStatus, RestTyped, RunRow
      <3> QED BY <3>1, NoItemTyped DEF Item
    <2> DEFINE listed == {read(o) : o \in {p \in InStatus("queued") :
                             runs[occurrences[p].run].status # "running"}}
    <2>2. listed \in SUBSET Item
      BY <2>1
    <2>3. tick' = [tick EXCEPT !.pc = "reconcile", !.list = listed]
      BY <1>2 DEF listQueuedConnectorOccurrences
    <2> HIDE DEF listed
    <2>4. tick' \in TickRow
      BY <1>0, <2>2, <2>3 DEF RestTyped, TickRow, TickPcs
    <2> QED
      BY <1>2, <1>t, <2>4 DEF listQueuedConnectorOccurrences, TickOnly, tableVars
  <1>3. ASSUME NEW item \in tick.list, Reconcile(item) PROVE RestTyped'
    <2>1. /\ tick' \in TickRow
          /\ UNCHANGED <<lock, editor, unsent>>
      BY <1>0, <1>3 DEF Reconcile, RestTyped, TickRow
    <2>2. CASE /\ completeScheduleOccurrence(item.run, item.status = "succeeded",
                                             item.code)
               /\ UNCHANGED <<jobs, spent>>
      <3>1. (item.status = "succeeded") \in BOOLEAN
        OBVIOUS
      <3>2. /\ occurrences' \in [Occurrences -> OccurrenceRow]
            /\ schedule' \in [enabled : BOOLEAN, due : BOOLEAN]
        BY <1>0, <2>2, <3>1, CompleteTyped
      <3> QED BY <1>0, <2>1, <2>2, <3>2 DEF RestTyped
    <2>3. CASE /\ UNCHANGED <<schedule, occurrences>>
               /\ \/ enqueueConnectorSyncJob(item.run) /\ UNCHANGED spent
                  \/ Fault("queue") /\ UNCHANGED jobs
                  \/ UNCHANGED <<jobs, spent>>
      <3>1. jobs' \in [Runs -> Job] /\ spent' \in SpentRow
        BY <1>0, <2>3, EnqueueTyped, FaultTyped DEF RestTyped
      <3> QED BY <1>0, <2>1, <2>3, <3>1 DEF RestTyped
    <2> QED BY <1>3, <2>2, <2>3, Zenon DEF Reconcile
  <1>4. ASSUME NEW item \in tick.list, RecoverStale(item) PROVE RestTyped'
    <2>1. /\ tick' \in TickRow
          /\ UNCHANGED <<schedule, jobs, lock, editor, unsent, spent>>
      BY <1>0, <1>4 DEF RecoverStale, RestTyped, TickRow, TickOnly
    <2>2. \/ occurrences' = occurrences
          \/ occurrences' = [occurrences EXCEPT ![item.occ].status = "pending",
                                                ![item.occ].run = NoRun]
      BY <1>4, Zenon DEF RecoverStale, recoverLostScheduleOccurrence
    <2>3. item.occ \in Occurrences =>
            [occurrences[item.occ] EXCEPT !.status = "pending", !.run = NoRun]
              \in OccurrenceRow
      BY <1>0 DEF RestTyped, OccurrenceRow, OccurrenceStatuses
    <2>4. occurrences' \in [Occurrences -> OccurrenceRow]
      BY <1>0, <2>2, <2>3 DEF RestTyped
    <2> QED BY <1>0, <2>1, <2>4 DEF RestTyped
  <1>5. ASSUME NEW item \in tick.list, CheckConnector(item) PROVE RestTyped'
    <2>1. item \in Item /\ connector.status \in ConnectorStatuses
      BY <1>0 DEF RestTyped, TickRow, ConnectorRow
    <2>2. [item EXCEPT !.seen = connector.status] \in Item
      BY <2>1 DEF Item
    <2>3. PICK pc \in {"create", "skip", "pause", "retry"} :
            tick' = [pc |-> pc, list |-> tick.list \ {item},
                     item |-> [item EXCEPT !.seen = connector.status]]
      BY <1>5, Zenon DEF CheckConnector
    <2>4. tick' \in TickRow
      BY <1>0, <2>2, <2>3 DEF RestTyped, TickRow, TickPcs
    <2> QED
      BY <1>0, <1>5, <2>4 DEF CheckConnector, TickOnly, RestTyped
  <1>6. CASE listStaleRunningConnectorOccurrences
    <2> DEFINE read(o) == [NoItem EXCEPT !.occ = o, !.run = occurrences[o].run]
               listed == {read(o) : o \in {p \in InStatus("queued") :
                             /\ runs[occurrences[p].run].status = "running"
                             /\ runs[occurrences[p].run].silent}}
    <2>1. ASSUME NEW o \in InStatus("queued") PROVE read(o) \in Item
      BY NoItemTyped DEF InStatus, Item
    <2>2. listed \in SUBSET Item
      BY <2>1
    <2>3. tick' = [tick EXCEPT !.pc = "recover", !.list = listed]
      BY <1>6 DEF listStaleRunningConnectorOccurrences
    <2> HIDE DEF listed
    <2>4. tick' \in TickRow
      BY <1>0, <2>2, <2>3 DEF RestTyped, TickRow, TickPcs
    <2> QED
      BY <1>6, <1>t, <2>4 DEF listStaleRunningConnectorOccurrences, TickOnly, tableVars
  <1>7. CASE ClaimOccurrences
    <2>1. PICK active \in IF ActiveRuns = {} THEN {NoRun} ELSE ActiveRuns :
            LET claimed == {o \in Occurrences : Claimable(o, active)} IN
            /\ claimDispatchable(claimed)
            /\ tick' = [tick EXCEPT !.pc = "dispatch", !.list =
                 {[NoItem EXCEPT !.occ = o, !.run = occurrences[o].run,
                                 !.attempts = occurrences[o].attempts + 1] :
                    o \in claimed}]
      BY <1>7 DEF ClaimOccurrences
    <2> DEFINE claimed == {o \in Occurrences : Claimable(o, active)}
               read(o) == [NoItem EXCEPT !.occ = o, !.run = occurrences[o].run,
                                         !.attempts = occurrences[o].attempts + 1]
               listed == {read(o) : o \in claimed}
    <2>2. ASSUME NEW o \in Occurrences PROVE read(o) \in Item
      <3>1. occurrences[o].run \in Runs \cup {NoRun} /\ occurrences[o].attempts + 1 \in Nat
        BY <1>0 DEF RestTyped, OccurrenceRow
      <3> QED BY <3>1, NoItemTyped DEF Item
    <2>3. listed \in SUBSET Item
      BY <2>2
    <2>4. claimDispatchable(claimed) /\ tick' = [tick EXCEPT !.pc = "dispatch", !.list = listed]
      BY <2>1
    <2> HIDE DEF listed, claimed
    <2>5. tick' \in TickRow
      BY <1>0, <2>3, <2>4 DEF RestTyped, TickRow, TickPcs
    <2>6. ASSUME NEW o \in Occurrences
          PROVE  [occurrences[o] EXCEPT !.status = "dispatching", !.attempts = @ + 1]
                   \in OccurrenceRow
      <3>1. PICK n \in Nat : n = occurrences[o].attempts + 1
        BY <1>0 DEF RestTyped, OccurrenceRow
      <3>2. [occurrences[o] EXCEPT !.status = "dispatching", !.attempts = n]
              \in OccurrenceRow
        BY <1>0 DEF RestTyped, OccurrenceRow, OccurrenceStatuses
      <3> QED BY <3>1, <3>2
    <2>7. occurrences' \in [Occurrences -> OccurrenceRow]
      BY <1>0, <2>4, <2>6 DEF claimDispatchable, RestTyped
    <2> QED BY <1>0, <1>7, <2>5, <2>7 DEF ClaimOccurrences, TickOnly, RestTyped
  <1>8. CASE CreateScheduledRun
    <2>1. \/ GoTo("attach") \/ GoTo("retry")
          \/ \E r \in FreeRuns : tick' = [tick EXCEPT !.pc = "attach", !.item.run = r]
      BY <1>8, Zenon DEF CreateScheduledRun
    <2>2. ASSUME NEW r \in FreeRuns, tick' = [tick EXCEPT !.pc = "attach", !.item.run = r]
          PROVE  tick' \in TickRow
      <3>1. r \in Runs /\ tick.item \in Item
        BY <1>0 DEF FreeRuns, RestTyped, TickRow
      <3>2. [tick.item EXCEPT !.run = r] \in Item
        BY <3>1 DEF Item
      <3> QED BY <1>0, <2>2, <3>2 DEF RestTyped, TickRow, TickPcs
    <2>3. tick' \in TickRow
      BY <1>0, <2>1, <2>2, GoToTyped DEF TickPcs
    <2> QED BY <1>8, <1>t, <2>3 DEF CreateScheduledRun, TickOnly
  <1>9. CASE AttachRun
    <2>1. tick' \in TickRow /\ attachScheduleOccurrenceRun(tick.item.occ, tick.item.run)
      BY <1>0, <1>9, GoToTyped DEF AttachRun, TickPcs
    <2>2. tick.item.run \in Runs \cup {NoRun}
      BY <1>0 DEF RestTyped, TickRow, Item
    <2>3. ASSUME NEW o \in Occurrences
          PROVE  [occurrences[o] EXCEPT !.run = tick.item.run] \in OccurrenceRow
      BY <1>0, <2>2 DEF RestTyped, OccurrenceRow
    <2>4. occurrences' \in [Occurrences -> OccurrenceRow]
      BY <1>0, <2>1, <2>3 DEF RestTyped, attachScheduleOccurrenceRun
    <2> QED BY <1>0, <1>9, <2>1, <2>4 DEF AttachRun, TickOnly, RestTyped
  <1>10. CASE EnqueueScheduledRun
    <2>1. tick' \in TickRow
      BY <1>0, <1>10, GoToTyped DEF EnqueueScheduledRun, TickPcs
    <2>2. jobs' \in [Runs -> Job] /\ spent' \in SpentRow
      BY <1>0, <1>10, EnqueueTyped, FaultTyped DEF EnqueueScheduledRun, RestTyped
    <2> QED BY <1>0, <1>10, <2>1, <2>2 DEF EnqueueScheduledRun, RestTyped, tableVars
  <1>11. CASE MarkDispatched
    <2>1. tick' \in TickRow
      BY <1>0, <1>11, NextItemTyped DEF MarkDispatched
    <2>2. PICK status \in {"queued", "skipped"} :
            markScheduleOccurrence(tick.item.occ, status)
      BY <1>11 DEF MarkDispatched
    <2>3. occurrences' \in [Occurrences -> OccurrenceRow]
      BY <1>0, <2>2, OccurrenceWritten
         DEF markScheduleOccurrence, RestTyped, OccurrenceStatuses
    <2> QED BY <1>0, <1>11, <2>1, <2>3 DEF MarkDispatched, TickOnly, RestTyped
  <1>12. CASE RetryDispatch
    <2>1. tick' \in TickRow
      BY <1>0, <1>12, NextItemTyped DEF RetryDispatch
    <2>2. \/ occurrences' = occurrences
          \/ \E status \in {"failed", "pending"} :
               occurrences' = [occurrences EXCEPT ![tick.item.occ].status = status]
      BY <1>12, Zenon DEF RetryDispatch, retryScheduleOccurrence
    <2>3. occurrences' \in [Occurrences -> OccurrenceRow]
      BY <1>0, <2>2, OccurrenceWritten DEF RestTyped, OccurrenceStatuses
    <2> QED BY <1>0, <1>12, <2>1, <2>3 DEF RetryDispatch, TickOnly, RestTyped
  <1>13. CASE PauseForAuth
    <2>1. tick' \in TickRow
      BY <1>0, <1>13, GoToTyped DEF PauseForAuth, TickPcs
    <2>2. schedule' \in [enabled : BOOLEAN, due : BOOLEAN]
      BY <1>13 DEF PauseForAuth, pauseConnectorScheduleForAuth
    <2> QED BY <1>0, <1>13, <2>1, <2>2 DEF PauseForAuth, TickOnly, RestTyped
  <1>14. CASE ResumeQuotaBlocked
    <2>1. \/ tick' = IdleTick /\ UNCHANGED spent
          \/ /\ Other
             /\ \E r \in FreeRuns : tick' = [IdleTick EXCEPT !.pc = "resume", !.item.run = r]
      BY <1>14, Zenon DEF ResumeQuotaBlocked
    <2>2. ASSUME NEW r \in FreeRuns
          PROVE  [IdleTick EXCEPT !.pc = "resume", !.item.run = r] \in TickRow
      <3>1. r \in Runs /\ IdleTick.item = NoItem
        BY DEF FreeRuns, IdleTick
      <3>2. [NoItem EXCEPT !.run = r] \in Item
        BY <3>1, NoItemTyped DEF Item
      <3> QED BY <3>1, <3>2, NoItemTyped DEF TickRow, TickPcs
    <2>3. tick' \in TickRow /\ spent' \in SpentRow
      BY <1>0, <2>1, <2>2, NoItemTyped, OtherTyped DEF RestTyped
    <2> QED BY <1>0, <1>14, <2>3 DEF ResumeQuotaBlocked, RestTyped
  <1>15. CASE EnqueueResumedRun
    <2>1. tick' \in TickRow
      BY <1>15, NoItemTyped DEF EnqueueResumedRun
    <2>2. jobs' \in [Runs -> Job] /\ spent' \in SpentRow
      BY <1>0, <1>15, EnqueueTyped, FaultTyped DEF EnqueueResumedRun, RestTyped
    <2> QED BY <1>0, <1>15, <2>1, <2>2 DEF EnqueueResumedRun, RestTyped, tableVars
  <1> QED
    BY <1>1, <1>2, <1>3, <1>4, <1>5, <1>6, <1>7, <1>8, <1>9, <1>10, <1>11,
       <1>12, <1>13, <1>14, <1>15, Zenon DEF TickStep

LEMMA WorkerTyped ==
    ASSUME Typed, NEW w \in Workers, WorkerStep(w),
           worker[w].pc # "idle" => worker[w].run \in Runs
    PROVE  RestTyped'
  <1>0. RestTyped
    BY DEF Typed
  <1>j. ASSUME jobs' \in [Runs -> Job], UNCHANGED <<schedule, occurrences, lock>>, WorkerOnly
        PROVE  RestTyped'
    BY <1>0, <1>j DEF RestTyped, WorkerOnly
  <1>u. jobs \in [Runs -> Job]
    BY <1>0 DEF RestTyped
  <1>1. ASSUME NEW r \in Runs, TakeJob(w, r) PROVE RestTyped'
    <2>1. [jobs[r] EXCEPT !.state = "active", !.owner = w] \in Job
      BY <1>u DEF Job
    <2>2. jobs' \in [Runs -> Job]
      BY <1>1, <1>u, <2>1 DEF TakeJob
    <2> QED BY <1>1, <1>j, <2>2 DEF TakeJob, tableVars
  <1>2. CASE ReadRun(w)
    <2>1. jobs' \in [Runs -> Job]
      BY <1>0, <1>2, <1>u, ReturnedTyped DEF ReadRun
    <2> QED BY <1>2, <1>j, <2>1 DEF ReadRun, tableVars
  <1>3. CASE SkipRun(w)
    <2>0. UNCHANGED <<schedule, lock, tick, editor, unsent>>
      BY <1>3 DEF SkipRun
    <2>1. CASE UNCHANGED <<occurrences, jobs>> /\ NoteReplay(w) /\ AtW(w, "skip_run")
               /\ updateSyncRunRecord(worker[w].run, "skipped", "paused")
      <3>1. CASE spent' = spent
        BY <1>0, <2>0, <2>1, <3>1 DEF RestTyped
      <3>2. CASE /\ runs[worker[w].run].status \in TerminalRunStatuses
                 /\ spent' = [spent EXCEPT !.replayed = @ \cup {worker[w].run}]
        <4>1. worker[w].run \in Runs
          BY <2>1 DEF AtW
        <4> QED BY <1>0, <2>0, <2>1, <3>2, <4>1 DEF RestTyped, SpentRow
      <3> QED BY <2>1, <3>1, <3>2 DEF NoteReplay
    <2>2. CASE UNCHANGED spent /\ Returned(w, FALSE)
               /\ skipScheduleOccurrenceByRunId(worker[w].run)
      <3>1. jobs' \in [Runs -> Job]
        BY <1>0, <2>2, ReturnedTyped
      <3>2. ASSUME NEW o \in Occurrences
            PROVE  [occurrences[o] EXCEPT !.status = "skipped"] \in OccurrenceRow
        BY <1>0 DEF RestTyped, OccurrenceRow, OccurrenceStatuses
      <3>3. occurrences' \in [Occurrences -> OccurrenceRow]
        BY <1>0, <2>2, <3>2 DEF skipScheduleOccurrenceByRunId, RestTyped
      <3> QED BY <1>0, <2>0, <2>2, <3>1, <3>3 DEF RestTyped
    <2> QED BY <1>3, <2>1, <2>2, Zenon DEF SkipRun
  <1>4. CASE tryAcquireConnectorSyncLock(w)
    <2>1. jobs' \in [Runs -> Job] /\ lock' \in Workers \cup {Nobody}
      BY <1>0, <1>4, <1>u, ReturnedTyped DEF tryAcquireConnectorSyncLock, RestTyped
    <2> QED
      BY <1>0, <1>4, <2>1 DEF tryAcquireConnectorSyncLock, RestTyped, WorkerOnly, tableVars
  <1>5. CASE StartRun(w)
    <2>1. spent' \in SpentRow
      <3>1. worker[w].run \in Runs
        BY <1>5 DEF StartRun, AtW
      <3>2. CASE spent' = spent
        BY <1>0, <3>2 DEF RestTyped
      <3>3. CASE spent' = [spent EXCEPT !.replayed = @ \cup {worker[w].run}]
        BY <1>0, <3>1, <3>3 DEF RestTyped, SpentRow
      <3> QED BY <1>5, <3>2, <3>3 DEF StartRun, NoteReplay
    <2> QED BY <1>0, <1>5, <2>1 DEF StartRun, RestTyped
  <1>6. ASSUME NEW result \in Results, FinishRun(w, result) PROVE RestTyped'
    BY <1>6, <1>j, <1>u DEF FinishRun
  <1>7. ASSUME NEW itemsFailed \in BOOLEAN, NEW targeted \in BOOLEAN,
               touchConnectorAfterSync(w, itemsFailed, targeted)
        PROVE  RestTyped'
    BY <1>7, <1>j, <1>u DEF touchConnectorAfterSync
  <1>8. CASE CompleteOccurrence(w)
    <2>1. (worker[w].out = "succeeded") \in BOOLEAN
      OBVIOUS
    <2>2. /\ occurrences' \in [Occurrences -> OccurrenceRow]
          /\ schedule' \in [enabled : BOOLEAN, due : BOOLEAN]
      BY <1>0, <1>8, <2>1, CompleteTyped DEF CompleteOccurrence
    <2> QED BY <1>0, <1>8, <2>2 DEF CompleteOccurrence, RestTyped, WorkerOnly
  <1>9. CASE ReleaseLock(w)
    <2>1. jobs' \in [Runs -> Job]
      BY <1>0, <1>9, ReturnedTyped DEF ReleaseLock
    <2> QED BY <1>0, <1>9, <2>1 DEF ReleaseLock, RestTyped, WorkerOnly, tableVars
  <1> QED
    BY <1>1, <1>2, <1>3, <1>4, <1>5, <1>6, <1>7, <1>8, <1>9, Zenon DEF WorkerStep

LEMMA OthersTyped ==
    ASSUME Typed,
           \/ SchedulerCrashes \/ SlotDue
           \/ \E w \in Workers : WorkerCrashes(w)
           \/ \E r \in Runs : JobStalls(r) \/ JobEvicted(r) \/ HeartbeatStops(r)
                              \/ RequestManualRun(r) \/ ReceiveWebhook(r) \/ SendRun(r)
           \/ \E status \in {"keep", "active", "paused", "disabled"},
                 periodic \in BOOLEAN : EditConnector(status, periodic)
           \/ \E otherInterval \in BOOLEAN : EditSchedule(otherInterval)
    PROVE  RestTyped'
  <1>0. RestTyped
    BY DEF Typed
  <1>1. CASE SchedulerCrashes
    <2>1. spent' \in SpentRow /\ tick' \in TickRow
      BY <1>0, <1>1, FaultTyped, NoItemTyped DEF SchedulerCrashes
    <2> QED BY <1>0, <1>1, <2>1 DEF SchedulerCrashes, RestTyped, tableVars
  <1>2. CASE SlotDue
    BY <1>0, <1>2 DEF SlotDue, SlotComesDue, RestTyped
  <1>3. ASSUME NEW r \in Runs, JobStalls(r) PROVE RestTyped'
    <2> DEFINE state == IF jobs[r].state = "active" /\ jobs[r].stalls = 0
                        THEN "waiting" ELSE "failed"
               stalls == IF jobs[r].stalls = 0 THEN 1 ELSE jobs[r].stalls
    <2>1. spent' \in SpentRow
      BY <1>0, <1>3, FaultTyped DEF JobStalls, RestTyped
    <2>2. jobs' = [jobs EXCEPT ![r] = [@ EXCEPT !.state = state, !.stalls = stalls,
                                                !.owner = Nobody]]
      BY <1>0, <1>3 DEF JobStalls, RestTyped
    <2>3. jobs[r] \in Job
      BY <1>0 DEF RestTyped
    <2>4. stalls \in 0 .. 2 /\ state \in {"none", "waiting", "active", "completed", "failed"}
      BY <2>3 DEF Job
    <2> HIDE DEF state, stalls
    <2>5. [jobs[r] EXCEPT !.state = state, !.stalls = stalls, !.owner = Nobody] \in Job
      BY <2>3, <2>4 DEF Job
    <2>6. jobs' \in [Runs -> Job]
      BY <1>0, <2>2, <2>5 DEF RestTyped
    <2> QED BY <1>0, <1>3, <2>1, <2>6 DEF JobStalls, RestTyped, tableVars
  <1>4. ASSUME NEW r \in Runs, JobEvicted(r) PROVE RestTyped'
    <2>1. spent' \in SpentRow /\ jobs' \in [Runs -> Job]
      BY <1>0, <1>4, FaultTyped, NoItemTyped DEF JobEvicted, RestTyped
    <2> QED BY <1>0, <1>4, <2>1 DEF JobEvicted, RestTyped, tableVars
  <1>5. ASSUME NEW r \in Runs, HeartbeatStops(r) PROVE RestTyped'
    BY <1>0, <1>5 DEF HeartbeatStops, RestTyped, WorkerOnly
  <1>6. ASSUME NEW r \in Runs, RequestManualRun(r) PROVE RestTyped'
    <2>1. spent' \in SpentRow /\ unsent' \in SUBSET Runs
      BY <1>0, <1>6, OtherTyped DEF RequestManualRun, RestTyped
    <2> QED BY <1>0, <1>6, <2>1 DEF RequestManualRun, RestTyped
  <1>7. ASSUME NEW r \in Runs, ReceiveWebhook(r) PROVE RestTyped'
    <2>1. spent' \in SpentRow /\ unsent' \in SUBSET Runs
      BY <1>0, <1>7, OtherTyped DEF ReceiveWebhook, RestTyped
    <2> QED BY <1>0, <1>7, <2>1 DEF ReceiveWebhook, RestTyped
  <1>8. ASSUME NEW r \in Runs, SendRun(r) PROVE RestTyped'
    <2>1. spent' \in SpentRow /\ jobs' \in [Runs -> Job] /\ unsent' \in SUBSET Runs
      BY <1>0, <1>8, EnqueueTyped, FaultTyped DEF SendRun, RestTyped
    <2> QED BY <1>0, <1>8, <2>1 DEF SendRun, RestTyped, tableVars
  <1>9. ASSUME NEW status \in {"keep", "active", "paused", "disabled"},
               NEW periodic \in BOOLEAN, EditConnector(status, periodic)
        PROVE  RestTyped'
    <2>1. spent' \in SpentRow
      BY <1>0, <1>9, SchedulerAssumption DEF EditConnector, RestTyped, SpentRow
    <2>2. editor' \in [busy : BOOLEAN, enabled : BOOLEAN]
      BY <1>9 DEF EditConnector
    <2> QED BY <1>0, <1>9, <2>1, <2>2 DEF EditConnector, RestTyped
  <1>10. ASSUME NEW otherInterval \in BOOLEAN, EditSchedule(otherInterval)
         PROVE  RestTyped'
    <2>1. /\ schedule' \in [enabled : BOOLEAN, due : BOOLEAN]
          /\ editor' \in [busy : BOOLEAN, enabled : BOOLEAN]
      BY <1>0, <1>10 DEF EditSchedule, putConnectorSchedule, RestTyped
    <2>2. ASSUME NEW o \in Occurrences
          PROVE  [occurrences[o] EXCEPT !.status = "skipped"] \in OccurrenceRow
      BY <1>0 DEF RestTyped, OccurrenceRow, OccurrenceStatuses
    <2>3. occurrences' \in [Occurrences -> OccurrenceRow]
      BY <1>0, <1>10, <2>2 DEF EditSchedule, putConnectorSchedule, RestTyped
    <2> QED BY <1>0, <1>10, <2>1, <2>3 DEF EditSchedule, RestTyped
  <1>11. ASSUME NEW w \in Workers, WorkerCrashes(w) PROVE RestTyped'
    <2>1. spent' \in SpentRow /\ lock' \in Workers \cup {Nobody}
      BY <1>0, <1>11, FaultTyped DEF WorkerCrashes, RestTyped
    <2> QED BY <1>0, <1>11, <2>1 DEF WorkerCrashes, RestTyped, tableVars
  <1> QED
    BY <1>1, <1>2, <1>3, <1>4, <1>5, <1>6, <1>7, <1>8, <1>9, <1>10, <1>11

-----------------------------------------------------------------------------
\* The fourth invariant: what an occurrence, a delivery and the scheduler's list
\* each believe of a run.

\* A run is inserted, then started, then ended, and none of that is taken back:
\* a run that succeeded stays so unless a second delivery executes it again.
Exists(r) == r \in Runs /\ runs[r].status # "none"
Started(r) == r \in Runs /\ runs[r].status \notin {"none", "queued"}
SucceededOnce(r) ==
    r \in Runs /\ (runs[r].status = "succeeded" \/ r \in spent.replayed)

RowSound(row) ==
    /\ row.run # NoRun => Exists(row.run)
    /\ row.status \in {"queued", "succeeded"} => row.run # NoRun
    /\ row.status = "succeeded" => SucceededOnce(row.run)
    /\ row.status = "failed" /\ row.run # NoRun => Started(row.run)
OccurrencesSound == \A o \in Occurrences : RowSound(occurrences[o])

\* What a delivery has done to its run's row before it reports the run.
DeliverySound(w) ==
    /\ worker[w].pc # "idle" => worker[w].run \in Runs
    /\ worker[w].pc \in {"skip_occurrence", "apply", "touch", "complete", "unlock"}
         => Started(worker[w].run)
    /\ worker[w].pc = "apply" => runs[worker[w].run].status # "succeeded"
    /\ worker[w].pc \in {"touch", "complete"} /\ worker[w].out = "succeeded"
         => SucceededOnce(worker[w].run)
WorkersSound == \A w \in Workers : DeliverySound(w)

\* A claimed candidate's occurrence still refers to the run that was read, or to
\* none: then a result has offered it again or nothing was attached yet.
Held(i) ==
    /\ i.occ \in Occurrences
    /\ i.run # NoRun => Exists(i.run)
    /\ occurrences[i.occ].run \in {i.run, NoRun}
    /\ occurrences[i.occ].run = NoRun
         => occurrences[i.occ].status \in {"pending", "dispatching", "skipped"}

DispatchPcs == {"dispatch", "create", "attach", "enqueue", "queued", "skip", "retry",
                "pause"}

ReconcileSound ==
    tick.pc = "reconcile" =>
        \A i \in tick.list :
            /\ i.run \in Runs
            /\ i.status \in TerminalRunStatuses => Started(i.run)
            /\ i.status = "succeeded" => SucceededOnce(i.run)
ListSound ==
    tick.pc \in DispatchPcs =>
        /\ \A i \in tick.list : Held(i)
        /\ \A i, j \in tick.list : i.occ = j.occ => i = j
ItemSound ==
    /\ tick.pc \in DispatchPcs \ {"dispatch"} =>
         \A i \in tick.list : i.occ # tick.item.occ
    /\ tick.pc \in {"create", "attach", "enqueue", "queued"} => Held(tick.item)
    /\ tick.pc \in {"attach", "enqueue", "queued"} => tick.item.run # NoRun
    /\ tick.pc \in {"enqueue", "queued"} =>
         (occurrences[tick.item.occ].status = "dispatching"
            => occurrences[tick.item.occ].run # NoRun)
TickSound == ReconcileSound /\ ListSound /\ ItemSound

SoundInv == RestTyped /\ OccurrencesSound /\ WorkersSound /\ TickSound

\* The run rows move forward only.
RunsGoOn ==
    \A r \in Runs : /\ Exists(r) => Exists(r)'
                    /\ Started(r) => Started(r)'
                    /\ SucceededOnce(r) => SucceededOnce(r)'

LEMMA RunsUntouched ==
    ASSUME UNCHANGED runs, spent.replayed \subseteq spent'.replayed
    PROVE  RunsGoOn
  BY DEF RunsGoOn, Exists, Started, SucceededOnce

LEMMA RunInserted ==
    ASSUME Typed, NEW r \in Runs, NEW trigger, createSyncRunRecord(r, trigger),
           spent.replayed \subseteq spent'.replayed
    PROVE  RunsGoOn /\ Exists(r)'
  <1>1. /\ runs[r].status = "none" /\ runs'[r].status = "queued"
        /\ \A q \in Runs \ {r} : runs'[q] = runs[q]
    BY DEF Typed, createSyncRunRecord, RunRow
  <1> QED BY <1>1 DEF RunsGoOn, Exists, Started, SucceededOnce

\* The scheduler fails a run only while it is queued or running.
LEMMA RunFailed ==
    ASSUME Typed, NEW r \in Runs, runs[r].status \in ActiveRunStatuses,
           runs' = [runs EXCEPT ![r].status = "failed", ![r].code = "transient"],
           spent.replayed \subseteq spent'.replayed
    PROVE  RunsGoOn /\ Started(r)' /\ runs'[r].status = "failed"
           /\ \A q \in Runs \ {r} : runs'[q] = runs[q]
  <1>1. /\ runs'[r].status = "failed"
        /\ \A q \in Runs \ {r} : runs'[q] = runs[q]
    BY DEF Typed, RunRow
  <1> QED BY <1>1 DEF RunsGoOn, Exists, Started, SucceededOnce, ActiveRunStatuses

\* A delivery writes the row whatever it says; a success that it overwrites is
\* noted as replayed.
LEMMA RunWritten ==
    ASSUME Typed, NEW r \in Runs, NEW status, status \notin {"none", "queued"}, NEW code,
           updateSyncRunRecord(r, status, code),
           spent.replayed \subseteq spent'.replayed,
           runs[r].status = "succeeded" => r \in spent'.replayed
    PROVE  RunsGoOn /\ Started(r)' /\ runs'[r].status = status
           /\ \A q \in Runs \ {r} : runs'[q] = runs[q]
  <1>1. /\ runs'[r].status = status
        /\ \A q \in Runs \ {r} : runs'[q] = runs[q]
    BY DEF Typed, updateSyncRunRecord, RunRow
  <1> QED BY <1>1 DEF RunsGoOn, Exists, Started, SucceededOnce

LEMMA Replayed ==
    ASSUME Typed, NEW w \in Workers, NoteReplay(w)
    PROVE  /\ spent.replayed \subseteq spent'.replayed
           /\ runs[worker[w].run].status = "succeeded" => worker[w].run \in spent'.replayed
  <1>1. CASE runs[worker[w].run].status \in TerminalRunStatuses
    <2>1. spent' = [spent EXCEPT !.replayed = @ \cup {worker[w].run}]
      BY <1>1 DEF NoteReplay
    <2>2. spent'.replayed = spent.replayed \cup {worker[w].run}
      BY <2>1 DEF Typed, RestTyped, SpentRow
    <2> QED BY <2>2
  <1>2. CASE runs[worker[w].run].status \notin TerminalRunStatuses
    BY <1>2 DEF NoteReplay, TerminalRunStatuses
  <1> QED BY <1>1, <1>2

\* While the runs go on, whoever does nothing stays sound.
LEMMA RowStays ==
    ASSUME RunsGoOn, NEW row \in OccurrenceRow, RowSound(row)
    PROVE  RowSound(row)'
  <1>1. row.run \in Runs \cup {NoRun}
    BY DEF OccurrenceRow
  <1>2. /\ Exists(row.run) => Exists(row.run)'
        /\ Started(row.run) => Started(row.run)'
        /\ SucceededOnce(row.run) => SucceededOnce(row.run)'
    BY <1>1 DEF RunsGoOn, Exists, Started, SucceededOnce
  <1> QED BY <1>2 DEF RowSound

\* To keep the occurrences sound, look at each row that a step may write.
LEMMA RowByRow ==
    ASSUME Typed, OccurrencesSound, RunsGoOn,
           occurrences' \in [Occurrences -> OccurrenceRow],
           \A o \in Occurrences :
               \/ occurrences'[o] = occurrences[o]
               \/ \E row \in OccurrenceRow : occurrences'[o] = row /\ RowSound(row)'
    PROVE  OccurrencesSound'
  <1> SUFFICES ASSUME NEW o \in Occurrences PROVE RowSound(occurrences[o])'
    BY DEF OccurrencesSound
  <1>1. PICK row \in OccurrenceRow : row = occurrences'[o]
    OBVIOUS
  <1>2. CASE occurrences'[o] = occurrences[o]
    <2>1. RowSound(row)
      BY <1>1, <1>2 DEF OccurrencesSound
    <2> QED BY <1>1, <2>1, RowStays
  <1>3. CASE RowSound(row)'
    BY <1>1, <1>3
  <1> QED BY <1>1, <1>2, <1>3

LEMMA OccurrencesStay ==
    ASSUME Typed, OccurrencesSound, RunsGoOn, UNCHANGED occurrences
    PROVE  OccurrencesSound'
  BY RowByRow DEF Typed, RestTyped

\* Only a delivery between "running" and its result makes a run succeed.
NobodySucceeds ==
    \A r \in Runs : runs'[r].status = "succeeded" => runs[r].status = "succeeded"

LEMMA DeliveryStays ==
    ASSUME Typed, NEW v \in Workers, DeliverySound(v), RunsGoOn, worker'[v] = worker[v],
           worker[v].pc = "apply" => runs'[worker[v].run].status # "succeeded"
    PROVE  DeliverySound(v)'
  <1>1. PICK r \in Runs \cup {NoRun} : r = worker[v].run
    BY DEF Typed, RowsTyped, WorkerRow
  <1>2. \A q : /\ Started(q) => q \in Runs
               /\ SucceededOnce(q) => q \in Runs
    BY DEF Started, SucceededOnce
  <1>3. /\ Started(r) => Started(r)'
        /\ SucceededOnce(r) => SucceededOnce(r)'
    BY <1>2 DEF RunsGoOn
  <1> QED BY <1>1, <1>3 DEF DeliverySound

LEMMA IdleSound ==
    ASSUME NEW w \in Workers, worker'[w].pc = "idle"
    PROVE  DeliverySound(w)'
  BY DEF DeliverySound

LEMMA WorkersStay ==
    ASSUME Typed, WorkersSound, RunsGoOn, NobodySucceeds, UNCHANGED worker
    PROVE  WorkersSound'
  <1> SUFFICES ASSUME NEW v \in Workers PROVE DeliverySound(v)'
    BY DEF WorkersSound
  <1>1. DeliverySound(v)
    BY DEF WorkersSound
  <1>2. worker[v].pc = "apply" => runs'[worker[v].run].status # "succeeded"
    BY <1>1 DEF DeliverySound, NobodySucceeds
  <1> QED BY <1>1, <1>2, DeliveryStays

\* What a result, or an edit of the schedule, may do to an occurrence while the
\* scheduler holds it.
Reported(o) ==
    /\ occurrences'[o].run \in {occurrences[o].run, NoRun}
    /\ occurrences'[o].run = NoRun
         => \/ occurrences'[o] = occurrences[o]
            \/ occurrences'[o].status \in {"pending", "skipped"}

LEMMA HeldStays ==
    ASSUME RunsGoOn, NEW i \in Item, Held(i), Reported(i.occ)
    PROVE  Held(i)'
  <1>1. i.run # NoRun => Exists(i.run)'
    BY DEF Held, RunsGoOn, Exists
  <1> QED BY <1>1 DEF Held, Reported

LEMMA TickStays ==
    ASSUME Typed, TickSound, RunsGoOn, UNCHANGED tick,
           \A o \in Occurrences : Reported(o)
    PROVE  TickSound'
  <1>0. tick.list \in SUBSET Item /\ tick.item \in Item
    BY DEF Typed, RestTyped, TickRow
  <1>h. ASSUME NEW i \in Item, Held(i) PROVE Held(i)'
    BY <1>h, HeldStays DEF Held
  <1>1. ReconcileSound'
    <2> SUFFICES ASSUME tick.pc = "reconcile", NEW i \in tick.list
                 PROVE  /\ i.run \in Runs
                        /\ i.status \in TerminalRunStatuses => Started(i.run)'
                        /\ i.status = "succeeded" => SucceededOnce(i.run)'
      BY DEF ReconcileSound
    <2>1. /\ i.run \in Runs
          /\ i.status \in TerminalRunStatuses => Started(i.run)
          /\ i.status = "succeeded" => SucceededOnce(i.run)
      BY DEF TickSound, ReconcileSound
    <2> QED BY <2>1 DEF RunsGoOn
  <1>2. ListSound'
    <2> SUFFICES ASSUME tick.pc \in DispatchPcs
                 PROVE  /\ \A i \in tick.list : Held(i)'
                        /\ \A i, j \in tick.list : i.occ = j.occ => i = j
      BY DEF ListSound
    <2> QED BY <1>0, <1>h DEF TickSound, ListSound
  <1>3. ItemSound'
    <2>1. tick.pc \in {"create", "attach", "enqueue", "queued"} =>
            Held(tick.item) /\ Held(tick.item)'
      <3>1. PICK i \in Item : i = tick.item
        BY <1>0
      <3>2. Held(i) => Held(i)'
        BY <1>h
      <3> QED BY <3>1, <3>2 DEF TickSound, ItemSound, Held
    <2>2. tick.pc \in {"enqueue", "queued"} =>
            (occurrences'[tick.item.occ].status = "dispatching"
               => occurrences'[tick.item.occ].run # NoRun)
      <3> SUFFICES ASSUME tick.pc \in {"enqueue", "queued"},
                          occurrences'[tick.item.occ].status = "dispatching"
                   PROVE  occurrences'[tick.item.occ].run # NoRun
        OBVIOUS
      <3>1. Reported(tick.item.occ)
        BY <2>1 DEF Held
      <3> QED BY <3>1 DEF Reported, TickSound, ItemSound
    <2> QED BY <2>1, <2>2 DEF TickSound, ItemSound
  <1> QED BY <1>1, <1>2, <1>3 DEF TickSound

\* A step that touches neither the occurrences nor the list.
LEMMA SoundStays ==
    ASSUME Typed, SoundInv, RunsGoOn, NobodySucceeds, UNCHANGED <<worker, tick>>,
           UNCHANGED occurrences, RestTyped'
    PROVE  SoundInv'
  BY OccurrencesStay, WorkersStay, TickStays DEF SoundInv, Reported

-----------------------------------------------------------------------------
\* Every step keeps the fourth invariant

LEMMA CompleteSound ==
    ASSUME Typed, OccurrencesSound, RunsGoOn, NEW r \in Runs, NEW succeeded \in BOOLEAN,
           NEW code, Started(r)', succeeded => SucceededOnce(r)',
           completeScheduleOccurrence(r, succeeded, code)
    PROVE  OccurrencesSound' /\ \A o \in Occurrences : Reported(o)
  <1>0. occurrences' \in [Occurrences -> OccurrenceRow] /\ r # NoRun /\ Exists(r)'
    BY CompleteTyped, ScheduleAssumption DEF Typed, Exists, Started
  <1>1. ASSUME NEW o \in Occurrences, occurrences[o].run # r
        PROVE  occurrences'[o] = occurrences[o]
    BY <1>1 DEF completeScheduleOccurrence
  <1>2. ASSUME NEW o \in Occurrences, occurrences[o].run = r
        PROVE  /\ \E row \in OccurrenceRow : occurrences'[o] = row /\ RowSound(row)'
               /\ Reported(o)
    <2>1. occurrences[o] \in OccurrenceRow
      BY DEF Typed, RestTyped
    <2>2. PICK row \in OccurrenceRow : row = completed(occurrences[o], succeeded, code)
      BY <2>1, CompletedTyped
    <2>3. occurrences'[o] = row
      BY <1>2, <2>2 DEF completeScheduleOccurrence
    <2>4. \/ row.run = NoRun /\ row.status = "pending"
          \/ row.run = r /\ row.status \in {"failed", "skipped"}
          \/ row.run = r /\ row.status = "succeeded" /\ succeeded
      BY <1>2, <2>1, <2>2 DEF completed, OccurrenceRow
    <2>5. RowSound(row)'
      BY <1>0, <2>4 DEF RowSound
    <2>6. Reported(o)
      BY <1>0, <1>2, <2>3, <2>4 DEF Reported
    <2> QED BY <2>3, <2>5, <2>6
  <1>3. \A o \in Occurrences : occurrences'[o] = occurrences[o] => Reported(o)
    BY DEF Reported
  <1> QED BY <1>0, <1>1, <1>2, <1>3, RowByRow

\* An occurrence whose status alone changes.
LEMMA StatusSound ==
    ASSUME Typed, OccurrencesSound, RunsGoOn, NEW o, NEW status \in OccurrenceStatuses,
           occurrences' = [occurrences EXCEPT ![o].status = status],
           o \in Occurrences =>
             /\ status # "succeeded"
             /\ status = "queued" => occurrences[o].run # NoRun
             /\ \A r \in Runs : status = "failed" /\ occurrences[o].run = r => Started(r)'
    PROVE  /\ OccurrencesSound'
           /\ \A p \in Occurrences : p # o => occurrences'[p] = occurrences[p]
           /\ \A p \in Occurrences : occurrences'[p].run = occurrences[p].run
           /\ o \in Occurrences => occurrences'[o].status = status
  <1>1. /\ \A p \in Occurrences : p # o => occurrences'[p] = occurrences[p]
        /\ \A p \in Occurrences : occurrences'[p].run = occurrences[p].run
        /\ o \in Occurrences => occurrences'[o].status = status
    BY DEF Typed, RestTyped, OccurrenceRow
  <1>2. occurrences' \in [Occurrences -> OccurrenceRow]
    BY OccurrenceWritten DEF Typed
  <1>3. ASSUME o \in Occurrences
        PROVE  \E row \in OccurrenceRow : occurrences'[o] = row /\ RowSound(row)'
    <2>1. PICK row \in OccurrenceRow : row = occurrences'[o]
      BY <1>2, <1>3
    <2>2. PICK old \in OccurrenceRow : old = occurrences[o]
      BY <1>3 DEF Typed, RestTyped
    <2>3. row.run = old.run /\ row.status = status /\ RowSound(old)
      BY <1>1, <1>3, <2>1, <2>2 DEF OccurrencesSound
    <2>4. RowSound(old)' /\ old.run \in Runs \cup {NoRun}
      BY <2>3, RowStays DEF OccurrenceRow
    <2>5. RowSound(row)'
      BY <1>3, <2>2, <2>3, <2>4 DEF RowSound
    <2> QED BY <2>1, <2>5
  <1>4. OccurrencesSound'
    BY <1>1, <1>2, <1>3, RowByRow
  <1> QED BY <1>1, <1>4

LEMMA TickAway ==
    ASSUME tick'.pc \in {"idle", "list", "recover", "resume"}
    PROVE  TickSound'
  BY DEF TickSound, ReconcileSound, ListSound, ItemSound, DispatchPcs

LEMMA InitSoundInv == SystemInit => SoundInv
  <1> SUFFICES ASSUME SystemInit PROVE SoundInv
    OBVIOUS
  <1>1. OccurrencesSound
    BY DEF SystemInit, Init, OccurrencesSound, RowSound
  <1>2. WorkersSound
    BY IdleRow DEF SystemInit, WorkersSound, DeliverySound
  <1>3. TickSound
    BY DEF SystemInit, IdleTick, TickSound, ReconcileSound, ListSound, ItemSound, DispatchPcs
  <1> QED BY <1>1, <1>2, <1>3, InitRestTyped DEF SoundInv

\* Steps that leave the run rows and the deliveries alone.
LEMMA QuietStep ==
    ASSUME Typed, SoundInv, UNCHANGED <<runs, worker>>,
           spent.replayed \subseteq spent'.replayed
    PROVE  RunsGoOn /\ WorkersSound'
  <1>1. RunsGoOn /\ NobodySucceeds
    BY RunsUntouched DEF NobodySucceeds
  <1> QED BY <1>1, WorkersStay DEF SoundInv

LEMMA TickStartsSound ==
    ASSUME Typed, SoundInv, TickStarts
    PROVE  OccurrencesSound' /\ WorkersSound' /\ TickSound'
  <1>1. RunsGoOn /\ WorkersSound'
    BY QuietStep DEF TickStarts, TickOnly
  <1>2. TickSound'
    <2>1. "list" \in TickPcs
      BY DEF TickPcs
    <2> QED BY <2>1, TickAway, GoToTyped DEF TickStarts, Typed
  <1>3. \/ occurrences' = occurrences
        \/ \E o \in InStatus("none") :
             occurrences' = [occurrences EXCEPT ![o].status = "pending"]
    BY Zenon DEF TickStarts, materializeDueConnectorSchedules
  <1>4. "pending" \in OccurrenceStatuses
    BY DEF OccurrenceStatuses
  <1>5. OccurrencesSound'
    BY <1>1, <1>3, <1>4, StatusSound, OccurrencesStay DEF SoundInv
  <1> QED BY <1>1, <1>2, <1>5

LEMMA ListQueuedSound ==
    ASSUME Typed, SoundInv, listQueuedConnectorOccurrences
    PROVE  OccurrencesSound' /\ WorkersSound' /\ TickSound'
  <1> DEFINE read(o) == [NoItem EXCEPT !.occ = o, !.run = occurrences[o].run,
                           !.status = runs[occurrences[o].run].status,
                           !.code = runs[occurrences[o].run].code,
                           !.enabled = schedule.enabled]
             listed == {read(o) : o \in {p \in InStatus("queued") :
                           runs[occurrences[p].run].status # "running"}}
  <1>1. RunsGoOn /\ WorkersSound' /\ UNCHANGED occurrences
    BY QuietStep DEF listQueuedConnectorOccurrences, tableVars, TickOnly
  <1>2. OccurrencesSound'
    BY <1>1, OccurrencesStay DEF SoundInv
  <1>3. tick' = [tick EXCEPT !.pc = "reconcile", !.list = listed]
    BY DEF listQueuedConnectorOccurrences
  <1>4. ASSUME NEW i \in listed
        PROVE  /\ i.run \in Runs
               /\ i.status \in TerminalRunStatuses => Started(i.run)'
               /\ i.status = "succeeded" => SucceededOnce(i.run)'
    <2>1. PICK o \in InStatus("queued") : i = read(o)
      OBVIOUS
    <2>2. o \in Occurrences /\ RowSound(occurrences[o]) /\ occurrences[o].status = "queued"
      BY <2>1 DEF InStatus, SoundInv, OccurrencesSound
    <2>3. i.run = occurrences[o].run /\ i.status = runs[i.run].status
      BY <2>1 DEF NoItem
    <2>4. i.run \in Runs
      BY <2>2, <2>3 DEF RowSound, Exists
    <2>5. PICK r \in Runs : r = i.run
      BY <2>4
    <2>6. i.status \in TerminalRunStatuses => Started(r)
      BY <2>3, <2>5 DEF Started, TerminalRunStatuses
    <2>7. i.status = "succeeded" => SucceededOnce(r)
      BY <2>3, <2>5 DEF SucceededOnce
    <2>8. (Started(r) => Started(r)') /\ (SucceededOnce(r) => SucceededOnce(r)')
      BY <1>1 DEF RunsGoOn
    <2>9. i.run = r
      BY <2>5
    <2> QED BY <2>6, <2>7, <2>8, <2>9
  <1> HIDE DEF listed
  <1>5. tick'.pc = "reconcile" /\ tick'.list = listed
    BY <1>3 DEF Typed, RestTyped, TickRow
  <1>6. TickSound'
    BY <1>4, <1>5 DEF TickSound, ReconcileSound, ListSound, ItemSound, DispatchPcs
  <1> QED BY <1>1, <1>2, <1>6

LEMMA ReconcileKeepsSound ==
    ASSUME Typed, SoundInv, NEW item \in tick.list, Reconcile(item)
    PROVE  OccurrencesSound' /\ WorkersSound' /\ TickSound'
  <1>0. tick.pc = "reconcile" /\ UNCHANGED <<runs, worker>>
    BY DEF Reconcile, At
  <1>1. spent.replayed \subseteq spent'.replayed
    BY FaultTyped DEF Reconcile, Typed
  <1>2. RunsGoOn /\ WorkersSound'
    BY <1>0, <1>1, QuietStep
  <1>3. tick'.pc = "reconcile" /\ tick'.list \subseteq tick.list
    BY <1>0 DEF Reconcile, Typed, RestTyped, TickRow
  <1>4. TickSound'
    <2> SUFFICES ASSUME NEW i \in tick.list
                 PROVE  /\ i.run \in Runs
                        /\ i.status \in TerminalRunStatuses => Started(i.run)'
                        /\ i.status = "succeeded" => SucceededOnce(i.run)'
      BY <1>3 DEF TickSound, ReconcileSound, ListSound, ItemSound, DispatchPcs
    <2>1. /\ i.run \in Runs
          /\ i.status \in TerminalRunStatuses => Started(i.run)
          /\ i.status = "succeeded" => SucceededOnce(i.run)
      BY <1>0 DEF SoundInv, TickSound, ReconcileSound
    <2>2. PICK r \in Runs : r = i.run
      BY <2>1
    <2>3. (Started(r) => Started(r)') /\ (SucceededOnce(r) => SucceededOnce(r)')
      BY <1>2 DEF RunsGoOn
    <2> QED BY <2>1, <2>2, <2>3
  <1>5. OccurrencesSound'
    <2>1. CASE UNCHANGED occurrences
      BY <1>2, <2>1, OccurrencesStay DEF SoundInv
    <2>2. CASE /\ item.status \in TerminalRunStatuses
               /\ completeScheduleOccurrence(item.run, item.status = "succeeded",
                                             item.code)
      <3>1. PICK r \in Runs, succeeded \in BOOLEAN, code \in {item.code} :
              r = item.run /\ succeeded = (item.status = "succeeded") /\ code = item.code
        BY <1>0 DEF SoundInv, TickSound, ReconcileSound
      <3>2. Started(r) /\ (succeeded => SucceededOnce(r))
        BY <1>0, <2>2, <3>1 DEF SoundInv, TickSound, ReconcileSound
      <3>3. Started(r)' /\ (succeeded => SucceededOnce(r)')
        BY <1>2, <3>2 DEF RunsGoOn
      <3>4. completeScheduleOccurrence(r, succeeded, code)
        BY <2>2, <3>1
      <3> QED BY <1>2, <3>3, <3>4, CompleteSound DEF SoundInv
    <2> QED BY <2>1, <2>2, Zenon DEF Reconcile
  <1> QED BY <1>2, <1>4, <1>5

\* Steps to a program counter that promises nothing, with the occurrences as they
\* were.
LEMMA AwayStep ==
    ASSUME Typed, SoundInv, UNCHANGED <<runs, worker, occurrences>>,
           spent.replayed \subseteq spent'.replayed,
           tick'.pc \in {"idle", "list", "recover", "resume"}
    PROVE  OccurrencesSound' /\ WorkersSound' /\ TickSound'
  BY QuietStep, OccurrencesStay, TickAway DEF SoundInv

LEMMA RecoverStaleSound ==
    ASSUME Typed, SoundInv, NEW item \in tick.list, RecoverStale(item)
    PROVE  OccurrencesSound' /\ WorkersSound' /\ TickSound'
  <1> DEFINE o == item.occ
             r == item.run
  <1>0. tick.pc = "recover" /\ UNCHANGED <<worker, spent>>
    BY DEF RecoverStale, At, TickOnly
  <1>1. TickSound'
    BY <1>0, TickAway DEF RecoverStale, Typed, RestTyped, TickRow
  <1>2. CASE UNCHANGED <<occurrences, runs>>
    BY <1>0, <1>1, <1>2, QuietStep, OccurrencesStay DEF SoundInv
  <1>3. CASE /\ runs[r].status = "running"
             /\ runs' = [runs EXCEPT ![r].status = "failed", ![r].code = "transient"]
             /\ occurrences' =
                  IF occurrences[o].run = r /\ occurrences[o].status = "queued"
                  THEN [occurrences EXCEPT ![o].status = "pending", ![o].run = NoRun]
                  ELSE occurrences
    <2>1. RunsGoOn /\ NobodySucceeds
      <3>1. CASE r \in Runs
        BY <1>0, <1>3, <3>1, RunFailed DEF ActiveRunStatuses, NobodySucceeds
      <3>2. CASE r \notin Runs
        <4>1. runs' = runs
          BY <1>3, <3>2 DEF Typed
        <4> QED BY <1>0, <4>1, RunsUntouched DEF NobodySucceeds
      <3> QED BY <3>1, <3>2
    <2>2. WorkersSound'
      BY <1>0, <2>1, WorkersStay DEF SoundInv
    <2>3. CASE occurrences' = occurrences
      BY <1>1, <2>1, <2>2, <2>3, OccurrencesStay DEF SoundInv
    <2>4. CASE o \in Occurrences /\
               occurrences' = [occurrences EXCEPT ![o].status = "pending", ![o].run = NoRun]
      <3>1. PICK row \in OccurrenceRow :
              row = [occurrences[o] EXCEPT !.status = "pending", !.run = NoRun]
        BY <2>4 DEF Typed, RestTyped, OccurrenceRow, OccurrenceStatuses
      <3>2. row.status = "pending" /\ row.run = NoRun
        BY <2>4, <3>1 DEF Typed, RestTyped, OccurrenceRow
      <3>3. RowSound(row)'
        BY <3>2 DEF RowSound
      <3>4. /\ occurrences' \in [Occurrences -> OccurrenceRow] /\ occurrences'[o] = row
            /\ \A p \in Occurrences : p # o => occurrences'[p] = occurrences[p]
        BY <2>4, <3>1 DEF Typed, RestTyped
      <3>5. OccurrencesSound'
        BY <2>1, <3>3, <3>4, RowByRow DEF SoundInv
      <3> QED BY <1>1, <2>2, <3>5
    <2>5. CASE o \notin Occurrences /\
               occurrences' = [occurrences EXCEPT ![o].status = "pending", ![o].run = NoRun]
      <3>1. occurrences' = occurrences
        BY <2>5 DEF Typed, RestTyped
      <3> QED BY <2>3, <3>1
    <2> QED BY <1>3, <2>3, <2>4, <2>5
  <1> QED
    BY <1>2, <1>3, Zenon DEF RecoverStale, recoverLostScheduleOccurrence

LEMMA ClaimSound ==
    ASSUME Typed, SoundInv, ClaimOccurrences
    PROVE  OccurrencesSound' /\ WorkersSound' /\ TickSound'
  <1>0. UNCHANGED <<runs, worker, spent>>
    BY DEF ClaimOccurrences, TickOnly
  <1>1. RunsGoOn /\ WorkersSound'
    BY <1>0, QuietStep
  <1>2. PICK active \in IF ActiveRuns = {} THEN {NoRun} ELSE ActiveRuns :
          LET claimed == {o \in Occurrences : Claimable(o, active)} IN
          /\ claimDispatchable(claimed)
          /\ tick' = [tick EXCEPT !.pc = "dispatch", !.list =
               {[NoItem EXCEPT !.occ = o, !.run = occurrences[o].run,
                               !.attempts = occurrences[o].attempts + 1] :
                  o \in claimed}]
    BY DEF ClaimOccurrences
  <1> DEFINE claimed == {o \in Occurrences : Claimable(o, active)}
             read(o) == [NoItem EXCEPT !.occ = o, !.run = occurrences[o].run,
                                       !.attempts = occurrences[o].attempts + 1]
             listed == {read(o) : o \in claimed}
  <1>3. claimDispatchable(claimed) /\ tick' = [tick EXCEPT !.pc = "dispatch", !.list = listed]
    BY <1>2
  <1>4. tick'.pc = "dispatch" /\ tick'.list = listed
    BY <1>3 DEF Typed, RestTyped, TickRow
  <1>5. ASSUME NEW o \in Occurrences
        PROVE  /\ read(o).occ = o /\ read(o).run = occurrences[o].run
               /\ read(o) \in Item
    <2>1. occurrences[o].run \in Runs \cup {NoRun} /\ occurrences[o].attempts + 1 \in Nat
      BY DEF Typed, RestTyped, OccurrenceRow
    <2>2. read(o) \in Item
      BY <2>1, NoItemTyped DEF Item
    <2> QED BY <2>2 DEF NoItem
  <1> HIDE DEF read
  <1>6. \A o \in claimed : o \in Occurrences
    OBVIOUS
  <1>7. ASSUME NEW o \in Occurrences
        PROVE  occurrences'[o] = IF o \in claimed
                 THEN [occurrences[o] EXCEPT !.status = "dispatching", !.attempts = @ + 1]
                 ELSE occurrences[o]
    BY <1>3 DEF claimDispatchable
  <1> HIDE DEF claimed
  <1>8. ASSUME NEW o \in claimed
        PROVE  /\ \E row \in OccurrenceRow : occurrences'[o] = row /\ RowSound(row)'
               /\ occurrences'[o].status = "dispatching"
               /\ occurrences'[o].run = occurrences[o].run
               /\ occurrences'[o] \in OccurrenceRow
    <2>1. PICK old \in OccurrenceRow, n \in Nat :
            old = occurrences[o] /\ n = occurrences[o].attempts + 1
      BY <1>6 DEF Typed, RestTyped, OccurrenceRow
    <2>2. PICK row \in OccurrenceRow :
            row = [old EXCEPT !.status = "dispatching", !.attempts = n]
      BY DEF OccurrenceRow, OccurrenceStatuses
    <2>3. row.status = "dispatching" /\ row.run = old.run
      BY <2>2 DEF OccurrenceRow
    <2>4. occurrences'[o] = row
      BY <1>6, <1>7, <2>1, <2>2
    <2>5. RowSound(old)'
      BY <1>1, <1>6, <2>1, RowStays DEF SoundInv, OccurrencesSound
    <2>6. RowSound(row)'
      BY <2>3, <2>5 DEF RowSound
    <2> QED BY <2>1, <2>3, <2>4, <2>6
  <1>9. occurrences' \in [Occurrences -> OccurrenceRow]
    BY <1>3, <1>7, <1>8 DEF claimDispatchable, Typed, RestTyped
  <1>10. OccurrencesSound'
    BY <1>1, <1>7, <1>8, <1>9, RowByRow DEF SoundInv
  <1>11. ASSUME NEW i \in listed PROVE Held(i)'
    <2>1. PICK o \in claimed : i = read(o)
      OBVIOUS
    <2>2. i.occ = o /\ i.run = occurrences[o].run /\ i \in Item /\ o \in Occurrences
      BY <1>5, <1>6, <2>1
    <2>3. i.run # NoRun => Exists(i.run)
      BY <2>2 DEF SoundInv, OccurrencesSound, RowSound
    <2>4. i.run # NoRun => Exists(i.run)'
      BY <1>1, <2>3 DEF RunsGoOn, Exists
    <2>5. i.occ \in Occurrences /\ occurrences'[i.occ].run = i.run
          /\ occurrences'[i.occ].status = "dispatching"
      BY <1>8, <2>2
    <2> QED BY <2>4, <2>5 DEF Held
  <1>12. \A i, j \in listed : i.occ = j.occ => i = j
    BY <1>5, <1>6
  <1> HIDE DEF listed
  <1>13. TickSound'
    BY <1>4, <1>11, <1>12 DEF TickSound, ReconcileSound, ListSound, ItemSound, DispatchPcs
  <1> QED BY <1>1, <1>10, <1>13

LEMMA CheckSound ==
    ASSUME Typed, SoundInv, NEW item \in tick.list, CheckConnector(item)
    PROVE  OccurrencesSound' /\ WorkersSound' /\ TickSound'
  <1>0. tick.pc = "dispatch" /\ UNCHANGED <<runs, worker, spent, occurrences>>
    BY DEF CheckConnector, At, TickOnly
  <1>1. RunsGoOn /\ WorkersSound' /\ OccurrencesSound'
    BY <1>0, QuietStep, OccurrencesStay DEF SoundInv
  <1>2. item \in Item /\ tick.list \in SUBSET Item
    BY DEF Typed, RestTyped, TickRow
  <1>3. PICK pc \in {"create", "skip", "pause", "retry"} :
          tick' = [pc |-> pc, list |-> tick.list \ {item},
                   item |-> [item EXCEPT !.seen = connector.status]]
    BY Zenon DEF CheckConnector
  <1>4. PICK seen : seen = [item EXCEPT !.seen = connector.status]
    OBVIOUS
  <1>5. seen.occ = item.occ /\ seen.run = item.run
    BY <1>2, <1>4 DEF Item
  <1>6. \A i \in tick.list : \A o \in {i.occ} : Reported(o)
    BY <1>0 DEF Reported
  <1>7. ASSUME NEW i \in tick.list PROVE Held(i)'
    <2>1. Held(i)
      BY <1>0 DEF SoundInv, TickSound, ListSound, DispatchPcs
    <2> QED BY <1>1, <1>2, <1>6, <2>1, HeldStays
  <1>8. Held(seen)'
    BY <1>5, <1>7 DEF Held
  <1>9. \A i, j \in tick.list : i.occ = j.occ => i = j
    BY <1>0 DEF SoundInv, TickSound, ListSound, DispatchPcs
  <1>10. tick'.pc = pc /\ tick'.list = tick.list \ {item} /\ tick'.item = seen
    BY <1>3, <1>4
  <1>11. \A i \in tick.list \ {item} : i.occ # seen.occ
    BY <1>5, <1>9
  <1>12. tick'.pc \in {"create", "skip", "pause", "retry"}
    BY <1>10
  <1>13. Held(tick.item)' /\ \A i \in tick'.list : Held(i)'
    BY <1>7, <1>8, <1>10 DEF Held
  <1>14. TickSound'
    BY <1>9, <1>10, <1>11, <1>12, <1>13
       DEF TickSound, ReconcileSound, ListSound, ItemSound, DispatchPcs
  <1> QED BY <1>1, <1>14

LEMMA CreateSound ==
    ASSUME Typed, SoundInv, CreateScheduledRun
    PROVE  OccurrencesSound' /\ WorkersSound' /\ TickSound'
  <1>0. tick.pc = "create" /\ UNCHANGED <<worker, spent, occurrences>>
    BY DEF CreateScheduledRun, At, TickOnly
  <1>1. /\ Held(tick.item)
        /\ \A i \in tick.list : i.occ # tick.item.occ
        /\ \A i \in tick.list : Held(i)
        /\ \A i, j \in tick.list : i.occ = j.occ => i = j
        /\ tick.item \in Item /\ tick.list \in SUBSET Item /\ tick \in TickRow
    BY <1>0 DEF SoundInv, TickSound, ListSound, ItemSound, DispatchPcs, Typed, RestTyped, TickRow
  <1>h. ASSUME RunsGoOn, NEW i \in Item, Held(i) PROVE Held(i)'
    BY <1>0, <1>h, HeldStays DEF Reported
  <1>l. ASSUME RunsGoOn, tick'.list = tick.list, tick'.pc \in {"attach", "retry"}
        PROVE  ListSound' /\ ReconcileSound'
    BY <1>1, <1>h, <1>l DEF ListSound, ReconcileSound
  <1>2. CASE UNCHANGED runs /\ tick.item.run \in Runs /\ GoTo("attach")
    <2>1. RunsGoOn /\ WorkersSound' /\ OccurrencesSound'
      BY <1>0, <1>2, QuietStep, OccurrencesStay DEF SoundInv
    <2>2. tick'.list = tick.list /\ tick'.pc = "attach" /\ tick'.item = tick.item
      BY <1>1, <1>2 DEF GoTo, TickRow
    <2>3. PICK i \in Item : i = tick.item
      BY <1>1
    <2>4. Held(i)'
      BY <1>1, <1>h, <2>1, <2>3
    <2>5. Held(tick.item)'
      BY <2>2, <2>3, <2>4 DEF Held
    <2>6. ItemSound'
      BY <1>1, <1>2, <2>2, <2>5, ScheduleAssumption DEF ItemSound
    <2> QED BY <1>l, <2>1, <2>2, <2>6 DEF TickSound
  <1>3. CASE UNCHANGED runs /\ GoTo("retry")
    <2>1. RunsGoOn /\ WorkersSound' /\ OccurrencesSound'
      BY <1>0, <1>3, QuietStep, OccurrencesStay DEF SoundInv
    <2>2. tick'.list = tick.list /\ tick'.pc = "retry" /\ tick'.item = tick.item
      BY <1>1, <1>3 DEF GoTo, TickRow
    <2>3. ItemSound'
      BY <1>1, <2>2 DEF ItemSound
    <2> QED BY <1>l, <2>1, <2>2, <2>3 DEF TickSound
  <1>4. ASSUME NEW r \in FreeRuns, createSyncRunRecord(r, "scheduled"),
               tick.item.run \notin Runs,
               tick' = [tick EXCEPT !.pc = "attach", !.item.run = r]
        PROVE  OccurrencesSound' /\ WorkersSound' /\ TickSound'
    <2>0. r \in Runs /\ spent.replayed \subseteq spent'.replayed
      BY <1>0, <1>4 DEF FreeRuns
    <2>1. RunsGoOn /\ Exists(r)'
      BY <1>4, <2>0, RunInserted
    <2>2. NobodySucceeds
      <3>1. runs'[r].status = "queued" /\ \A q \in Runs \ {r} : runs'[q] = runs[q]
        BY <1>4, <2>0 DEF createSyncRunRecord, Typed, RunRow
      <3> QED BY <3>1 DEF NobodySucceeds
    <2>3. WorkersSound' /\ OccurrencesSound'
      BY <1>0, <2>1, <2>2, WorkersStay, OccurrencesStay DEF SoundInv
    <2>4. PICK i \in Item : i = [tick.item EXCEPT !.run = r]
      BY <1>1, <2>0 DEF Item
    <2>5. tick'.list = tick.list /\ tick'.pc = "attach" /\ tick'.item = i
      BY <1>1, <1>4, <2>4 DEF TickRow
    <2>6. i.occ = tick.item.occ /\ i.run = r
      BY <1>1, <2>4 DEF Item
    <2>7. tick.item.run = NoRun
      BY <1>1, <1>4 DEF Item
    <2>8. Held(i)'
      BY <1>0, <1>1, <2>1, <2>6, <2>7 DEF Held
    <2>9. Held(tick.item)' /\ r # NoRun
      BY <2>0, <2>5, <2>8, ScheduleAssumption DEF Held
    <2>10. ItemSound'
      BY <1>1, <2>5, <2>6, <2>9 DEF ItemSound
    <2> QED BY <1>l, <2>1, <2>3, <2>5, <2>10 DEF TickSound
  <1> QED
    BY <1>2, <1>3, <1>4, Zenon DEF CreateScheduledRun

LEMMA AttachSound ==
    ASSUME Typed, SoundInv, AttachRun
    PROVE  OccurrencesSound' /\ WorkersSound' /\ TickSound'
  <1>0. tick.pc = "attach" /\ UNCHANGED <<runs, worker, spent>>
    BY DEF AttachRun, At, TickOnly
  <1>1. RunsGoOn /\ WorkersSound'
    BY <1>0, QuietStep
  <1>2. PICK i \in Item : i = tick.item
    BY DEF Typed, RestTyped, TickRow
  <1>3. /\ Held(i) /\ i.run # NoRun
        /\ \A j \in tick.list : Held(j) /\ j.occ # i.occ
        /\ \A j, k \in tick.list : j.occ = k.occ => j = k
        /\ tick.list \in SUBSET Item /\ tick \in TickRow
    BY <1>0, <1>2 DEF SoundInv, TickSound, ListSound, ItemSound, DispatchPcs, Held, Typed, RestTyped, TickRow
  <1>4. i.occ \in Occurrences /\ i.run \in Runs /\ Exists(i.run)'
    BY <1>1, <1>3 DEF Held, RunsGoOn, Exists
  <1>5. PICK old \in OccurrenceRow : old = occurrences[i.occ]
    BY <1>4 DEF Typed, RestTyped
  <1>6. PICK row \in OccurrenceRow : row = [old EXCEPT !.run = i.run]
    BY <1>4 DEF OccurrenceRow
  <1>7. row.run = i.run /\ row.status = old.status /\ old.run \in {i.run, NoRun}
    BY <1>3, <1>5, <1>6 DEF OccurrenceRow, Held
  <1>8. occurrences' = [occurrences EXCEPT ![i.occ] = row]
    BY <1>2, <1>5, <1>6 DEF AttachRun, attachScheduleOccurrenceRun
  <1>9. /\ occurrences' \in [Occurrences -> OccurrenceRow]
        /\ occurrences'[i.occ] = row
        /\ \A o \in Occurrences : o # i.occ => occurrences'[o] = occurrences[o]
    BY <1>4, <1>8 DEF Typed, RestTyped
  \* Only the run that was read, or an occurrence that is not settled.
  <1>10. RowSound(row)'
    <2>1. RowSound(old) /\ RowSound(old)'
      BY <1>1, <1>4, <1>5, RowStays DEF SoundInv, OccurrencesSound
    <2>2. CASE old.run = i.run
      BY <1>3, <1>4, <1>7, <2>1, <2>2 DEF RowSound
    <2>3. CASE old.run = NoRun
      <3>1. old.status \in {"pending", "dispatching", "skipped"}
        BY <1>3, <1>5, <2>3 DEF Held
      <3> QED BY <1>4, <1>7, <3>1 DEF RowSound
    <2> QED BY <1>7, <2>2, <2>3
  <1>11. OccurrencesSound'
    BY <1>1, <1>9, <1>10, RowByRow DEF SoundInv
  <1>12. tick'.pc = "enqueue" /\ tick'.list = tick.list /\ tick'.item = i
    BY <1>2, <1>3 DEF AttachRun, GoTo, TickRow
  <1>13. ASSUME NEW j \in tick.list PROVE Held(j)'
    <2>1. occurrences'[j.occ] = occurrences[j.occ]
      BY <1>3, <1>9 DEF Held
    <2> QED BY <1>1, <1>3, <2>1, HeldStays DEF Reported
  <1>14. Held(i)'
    BY <1>3, <1>4, <1>7, <1>9 DEF Held
  <1>15. Held(tick.item)' /\ occurrences'[i.occ].run # NoRun
    BY <1>3, <1>7, <1>9, <1>12, <1>14 DEF Held
  <1>16. ItemSound'
    BY <1>3, <1>12, <1>15 DEF ItemSound
  <1>17. ListSound' /\ ReconcileSound'
    BY <1>3, <1>12, <1>13 DEF ListSound, ReconcileSound
  <1> QED BY <1>1, <1>11, <1>16, <1>17 DEF TickSound

LEMMA EnqueueSound ==
    ASSUME Typed, SoundInv, EnqueueScheduledRun
    PROVE  OccurrencesSound' /\ WorkersSound' /\ TickSound'
  <1>0. /\ tick.pc = "enqueue" /\ UNCHANGED <<runs, worker, occurrences>>
        /\ spent.replayed \subseteq spent'.replayed
    BY FaultTyped DEF EnqueueScheduledRun, At, tableVars, Typed
  <1>1. RunsGoOn /\ WorkersSound' /\ OccurrencesSound'
    BY <1>0, QuietStep, OccurrencesStay DEF SoundInv
  <1>2. PICK i \in Item : i = tick.item
    BY DEF Typed, RestTyped, TickRow
  <1>3. /\ Held(i) /\ i.run # NoRun
        /\ occurrences[i.occ].status = "dispatching" => occurrences[i.occ].run # NoRun
        /\ \A j \in tick.list : Held(j) /\ j.occ # i.occ
        /\ \A j, k \in tick.list : j.occ = k.occ => j = k
        /\ tick.list \in SUBSET Item /\ tick \in TickRow
    BY <1>0, <1>2 DEF SoundInv, TickSound, ListSound, ItemSound, DispatchPcs, Held, Typed, RestTyped, TickRow
  <1>4. /\ tick'.pc \in {"queued", "retry"} /\ tick'.list = tick.list
        /\ tick'.item = i
    BY <1>2, <1>3 DEF EnqueueScheduledRun, GoTo, TickRow
  <1>5. ASSUME NEW j \in Item, Held(j) PROVE Held(j)'
    BY <1>0, <1>1, <1>5, HeldStays DEF Reported
  <1>6. Held(tick.item)'
    BY <1>3, <1>4, <1>5 DEF Held
  <1>7. ItemSound'
    BY <1>0, <1>3, <1>4, <1>6 DEF ItemSound
  <1>8. ListSound' /\ ReconcileSound'
    BY <1>3, <1>4, <1>5 DEF ListSound, ReconcileSound
  <1> QED BY <1>1, <1>7, <1>8 DEF TickSound

\* The current item is done and its occurrence is nobody else's.
LEMMA NextItemSound ==
    ASSUME Typed, SoundInv, RunsGoOn, NextItem, tick.pc \in DispatchPcs \ {"dispatch"},
           \A o \in Occurrences : o # tick.item.occ => Reported(o)
    PROVE  TickSound'
  <1>1. /\ tick'.pc = "dispatch" /\ tick'.list = tick.list /\ tick.list \in SUBSET Item
    BY DEF NextItem, Typed, RestTyped, TickRow
  <1>2. /\ \A j \in tick.list : Held(j) /\ j.occ # tick.item.occ
        /\ \A j, k \in tick.list : j.occ = k.occ => j = k
    BY DEF SoundInv, TickSound, ListSound, ItemSound, DispatchPcs
  <1>3. ASSUME NEW j \in tick.list PROVE Held(j)'
    <2>1. Reported(j.occ)
      BY <1>2 DEF Held
    <2> QED BY <1>1, <1>2, <2>1, HeldStays
  <1> QED BY <1>1, <1>2, <1>3 DEF TickSound, ReconcileSound, ListSound, ItemSound, DispatchPcs

LEMMA MarkSound ==
    ASSUME Typed, SoundInv, MarkDispatched
    PROVE  OccurrencesSound' /\ WorkersSound' /\ TickSound'
  <1> DEFINE o == tick.item.occ
  <1>0. UNCHANGED <<runs, worker, spent>> /\ tick.pc \in DispatchPcs \ {"dispatch"} /\ NextItem
    BY DEF MarkDispatched, At, TickOnly, DispatchPcs
  <1>1. RunsGoOn /\ WorkersSound'
    BY <1>0, QuietStep
  <1>2. \/ occurrences' = occurrences
        \/ \E status \in {"queued", "skipped"} :
             /\ status = "queued" => tick.pc = "queued"
             /\ occurrences[o].status = "dispatching"
             /\ occurrences' = [occurrences EXCEPT ![o].status = status]
    BY Zenon DEF MarkDispatched, markScheduleOccurrence, At
  <1>3. OccurrencesSound' /\ \A p \in Occurrences : p # o => Reported(p)
    <2>1. CASE occurrences' = occurrences
      BY <1>1, <2>1, OccurrencesStay DEF SoundInv, Reported
    <2>2. ASSUME NEW status \in {"queued", "skipped"},
                 status = "queued" => tick.pc = "queued",
                 occurrences[o].status = "dispatching",
                 occurrences' = [occurrences EXCEPT ![o].status = status]
          PROVE  OccurrencesSound' /\ \A p \in Occurrences : p # o => Reported(p)
      <3>1. status = "queued" => occurrences[o].run # NoRun
        BY <2>2 DEF SoundInv, TickSound, ItemSound
      <3>2. status \in OccurrenceStatuses
        BY DEF OccurrenceStatuses
      <3>3. PICK p : p = o
        OBVIOUS
      <3>4. /\ OccurrencesSound'
            /\ \A q \in Occurrences : q # p => occurrences'[q] = occurrences[q]
        BY <1>1, <2>2, <3>1, <3>2, <3>3, StatusSound DEF SoundInv
      <3> QED BY <3>3, <3>4 DEF Reported
    <2> QED BY <1>2, <2>1, <2>2
  <1> QED BY <1>0, <1>1, <1>3, NextItemSound

LEMMA RetrySound ==
    ASSUME Typed, SoundInv, RetryDispatch
    PROVE  OccurrencesSound' /\ WorkersSound' /\ TickSound'
  <1>o. PICK o : o = tick.item.occ
    OBVIOUS
  <1>l. PICK last \in BOOLEAN : last <=> tick.item.attempts >= DispatchAttempts
    OBVIOUS
  <1>r. PICK r : r = occurrences[o].run
    OBVIOUS
  <1>0. UNCHANGED <<worker, spent>> /\ tick.pc \in DispatchPcs \ {"dispatch"} /\ NextItem
    BY DEF RetryDispatch, At, TickOnly, DispatchPcs
  <1>1. CASE UNCHANGED <<occurrences, runs>>
    <2>1. RunsGoOn /\ WorkersSound' /\ OccurrencesSound'
      BY <1>0, <1>1, QuietStep, OccurrencesStay DEF SoundInv
    <2> QED BY <1>0, <1>1, <2>1, NextItemSound DEF Reported
  <1>2. CASE /\ occurrences' = [occurrences EXCEPT ![o].status =
                                  IF last THEN "failed" ELSE "pending"]
             /\ runs' = IF last /\ r \in Runs /\ runs[r].status = "queued"
                        THEN [runs EXCEPT ![r].status = "failed", ![r].code = "transient"]
                        ELSE runs
    \* A run that is still queued is failed; any other has been started.
    <2>1. /\ RunsGoOn /\ NobodySucceeds
          /\ last /\ r \in Runs /\ o \in Occurrences => Started(r)'
      <3>1. CASE last /\ r \in Runs /\ runs[r].status = "queued"
        <4>1. RunsGoOn /\ Started(r)' /\ runs'[r].status = "failed"
              /\ \A s \in Runs \ {r} : runs'[s] = runs[s]
          BY <1>0, <1>2, <3>1, RunFailed DEF ActiveRunStatuses
        <4> QED BY <4>1 DEF NobodySucceeds
      <3>2. CASE ~(last /\ r \in Runs /\ runs[r].status = "queued")
        <4>1. runs' = runs
          BY <1>2, <3>2
        <4>2. RunsGoOn /\ NobodySucceeds
          BY <1>0, <4>1, RunsUntouched DEF NobodySucceeds
        <4>3. ASSUME last, r \in Runs, o \in Occurrences PROVE Started(r)'
          <5>1. Exists(r)
            BY <1>r, <4>3, ScheduleAssumption DEF SoundInv, OccurrencesSound, RowSound
          <5> QED BY <3>2, <4>1, <4>3, <5>1 DEF Started, Exists
        <4> QED BY <4>2, <4>3
      <3> QED BY <3>1, <3>2
    <2>2. WorkersSound'
      BY <1>0, <2>1, WorkersStay DEF SoundInv
    <2>3. PICK status \in {"failed", "pending"} : status = IF last THEN "failed" ELSE "pending"
      OBVIOUS
    <2>4. status \in OccurrenceStatuses
      BY DEF OccurrenceStatuses
    <2>5. /\ occurrences' = [occurrences EXCEPT ![o].status = status]
          /\ o \in Occurrences =>
               /\ status # "succeeded"
               /\ status = "queued" => occurrences[o].run # NoRun
               /\ \A q \in Runs : status = "failed" /\ occurrences[o].run = q => Started(q)'
      BY <1>r, <1>2, <2>1, <2>3
    <2>6. /\ OccurrencesSound'
          /\ \A p \in Occurrences : p # o => occurrences'[p] = occurrences[p]
      BY <2>1, <2>4, <2>5, StatusSound DEF SoundInv
    <2>7. \A p \in Occurrences : p # tick.item.occ => Reported(p)
      BY <1>o, <2>6 DEF Reported
    <2> QED BY <1>0, <2>1, <2>2, <2>6, <2>7, NextItemSound
  <1>3. \/ UNCHANGED <<occurrences, runs>>
        \/ LET again == tick.item.attempts >= DispatchAttempts
               q == occurrences[tick.item.occ].run
           IN /\ occurrences' = [occurrences EXCEPT ![tick.item.occ].status =
                                   IF again THEN "failed" ELSE "pending"]
              /\ runs' = IF again /\ q \in Runs /\ runs[q].status = "queued"
                         THEN [runs EXCEPT ![q].status = "failed", ![q].code = "transient"]
                         ELSE runs
    BY Zenon DEF RetryDispatch, retryScheduleOccurrence
  <1> QED
    BY <1>o, <1>l, <1>r, <1>1, <1>2, <1>3

LEMMA PauseSound ==
    ASSUME Typed, SoundInv, PauseForAuth
    PROVE  OccurrencesSound' /\ WorkersSound' /\ TickSound'
  <1>0. tick.pc = "pause" /\ UNCHANGED <<runs, worker, spent, occurrences>>
    BY DEF PauseForAuth, At, TickOnly
  <1>1. RunsGoOn /\ WorkersSound' /\ OccurrencesSound'
    BY <1>0, QuietStep, OccurrencesStay DEF SoundInv
  <1>2. /\ \A j \in tick.list : Held(j) /\ j.occ # tick.item.occ
        /\ \A j, k \in tick.list : j.occ = k.occ => j = k
        /\ tick.list \in SUBSET Item
    BY <1>0 DEF SoundInv, TickSound, ListSound, ItemSound, DispatchPcs, Typed, RestTyped, TickRow
  <1>3. tick'.pc = "skip" /\ tick'.list = tick.list /\ tick'.item = tick.item
    BY DEF PauseForAuth, GoTo, Typed, RestTyped, TickRow
  <1>4. ASSUME NEW j \in Item, Held(j) PROVE Held(j)'
    BY <1>0, <1>1, <1>4, HeldStays DEF Reported
  <1>5. ItemSound'
    BY <1>2, <1>3 DEF ItemSound
  <1>6. ListSound' /\ ReconcileSound'
    BY <1>2, <1>3, <1>4 DEF ListSound, ReconcileSound
  <1> QED BY <1>1, <1>5, <1>6 DEF TickSound

LEMMA ResumeSound ==
    ASSUME Typed, SoundInv, ResumeQuotaBlocked
    PROVE  OccurrencesSound' /\ WorkersSound' /\ TickSound'
  <1>0. UNCHANGED <<worker, occurrences>> /\ tick'.pc \in {"idle", "resume"}
    <2>1. \/ tick' = IdleTick
          \/ \E r \in FreeRuns : tick' = [IdleTick EXCEPT !.pc = "resume", !.item.run = r]
      BY DEF ResumeQuotaBlocked
    <2>2. tick'.pc \in {"idle", "resume"}
      <3>1. IdleTick.pc = "idle"
        BY DEF IdleTick
      <3>2. \A r : [IdleTick EXCEPT !.pc = "resume", !.item.run = r].pc = "resume"
        BY DEF IdleTick
      <3> QED BY <2>1, <3>1, <3>2
    <2>3. UNCHANGED <<worker, occurrences>>
      BY DEF ResumeQuotaBlocked
    <2> QED BY <2>2, <2>3
  <1>1. CASE UNCHANGED <<runs, spent>>
    BY <1>0, <1>1, AwayStep
  <1>2. ASSUME Other, NEW r \in FreeRuns, createSyncRunRecord(r, "backfill")
        PROVE  OccurrencesSound' /\ WorkersSound' /\ TickSound'
    <2>0. r \in Runs /\ spent.replayed \subseteq spent'.replayed
      BY <1>2, OtherTyped DEF FreeRuns, Typed
    <2>1. RunsGoOn
      BY <1>2, <2>0, RunInserted
    <2>2. runs'[r].status = "queued" /\ \A q \in Runs \ {r} : runs'[q] = runs[q]
      BY <1>2, <2>0 DEF createSyncRunRecord, Typed, RunRow
    <2>3. NobodySucceeds
      BY <2>2 DEF NobodySucceeds
    <2> QED BY <1>0, <2>1, <2>3, WorkersStay, OccurrencesStay, TickAway DEF SoundInv
  <1> QED BY <1>1, <1>2, Zenon DEF ResumeQuotaBlocked

LEMMA TickStepSound ==
    ASSUME Typed, SoundInv, TickStep
    PROVE  OccurrencesSound' /\ WorkersSound' /\ TickSound'
  <1>0. tick \in TickRow /\ spent.replayed \subseteq spent.replayed
    BY DEF Typed, RestTyped
  <1>1. CASE listStaleRunningConnectorOccurrences
    <2>1. tick'.pc = "recover" /\ UNCHANGED <<runs, worker, occurrences, spent>>
      BY <1>0, <1>1 DEF listStaleRunningConnectorOccurrences, TickRow, tableVars, TickOnly
    <2> QED BY <2>1, AwayStep
  <1>2. CASE EnqueueResumedRun
    <2>1. /\ tick'.pc = "idle" /\ UNCHANGED <<runs, worker, occurrences>>
          /\ spent.replayed \subseteq spent'.replayed
      BY <1>2, FaultTyped DEF EnqueueResumedRun, IdleTick, tableVars, Typed
    <2> QED BY <2>1, AwayStep
  <1> QED
    BY <1>1, <1>2, TickStartsSound, ListQueuedSound, ReconcileKeepsSound,
       RecoverStaleSound, ClaimSound, CheckSound, CreateSound, AttachSound,
       EnqueueSound, MarkSound, RetrySound, PauseSound, ResumeSound, Zenon DEF TickStep

\* One delivery moves; the others and the scheduler find what they believed.
LEMMA OneMoves ==
    ASSUME Typed, SoundInv, RunsGoOn, NEW w \in Workers, DeliverySound(w)',
           \A v \in Workers \ {w} : worker'[v] = worker[v],
           \A v \in Workers \ {w} : worker[v].pc = "apply"
             => runs'[worker[v].run].status # "succeeded"
    PROVE  WorkersSound'
  BY DeliveryStays DEF WorkersSound, SoundInv

LEMMA RowsUnread ==
    ASSUME Typed, SoundInv, NobodySucceeds, NEW v \in Workers, worker[v].pc = "apply"
    PROVE  runs'[worker[v].run].status # "succeeded"
  BY DEF SoundInv, WorkersSound, DeliverySound, NobodySucceeds

\* A delivery that goes on without writing anything that others read.
LEMMA QuietMove ==
    ASSUME Typed, SoundInv, NEW w \in Workers, UNCHANGED <<runs, occurrences, tick, spent>>,
           DeliverySound(w)', \A v \in Workers \ {w} : worker'[v] = worker[v]
    PROVE  OccurrencesSound' /\ WorkersSound' /\ TickSound'
  <1>1. RunsGoOn /\ NobodySucceeds
    BY RunsUntouched DEF NobodySucceeds
  <1>2. WorkersSound'
    BY <1>1, OneMoves, RowsUnread
  <1> QED BY <1>1, <1>2, OccurrencesStay, TickStays DEF SoundInv, Reported

LEMMA WorkerStepSound ==
    ASSUME Typed, SoundInv, HoldsLock, NEW w \in Workers, WorkerStep(w)
    PROVE  OccurrencesSound' /\ WorkersSound' /\ TickSound'
  <1>0. /\ RowsTyped /\ DeliverySound(w)
        /\ \A pc \in {"skip_occurrence", "unlock", "complete", "apply"} : pc \in WorkerPcs
    BY DEF Typed, SoundInv, WorkersSound, WorkerPcs
  <1>d. worker[w] \in WorkerRow
    BY <1>0 DEF RowsTyped
  <1>l. ASSUME Leave(w)
        PROVE  DeliverySound(w)' /\ \A v \in Workers \ {w} : worker'[v] = worker[v]
    BY <1>0, <1>l, LeaveRow, IdleSound
  <1>1. ASSUME NEW r \in Runs, TakeJob(w, r)
        PROVE  OccurrencesSound' /\ WorkersSound' /\ TickSound'
    <2>1. /\ worker'[w].pc = "read" /\ worker'[w].run = r
          /\ \A v \in Workers \ {w} : worker'[v] = worker[v]
      BY <1>0, <1>1 DEF TakeJob, RowsTyped, IdleWorker
    <2>2. DeliverySound(w)'
      BY <2>1 DEF DeliverySound
    <2> QED BY <1>1, <2>1, <2>2, QuietMove DEF TakeJob, tableVars, WorkerOnly
  <1>2. CASE ReadRun(w)
    <2>0. UNCHANGED <<runs, occurrences, tick, spent>> /\ worker[w].pc = "read"
      BY <1>2 DEF ReadRun, tableVars, WorkerOnly, AtW
    <2>1. CASE Leave(w)
      BY <1>l, <2>0, <2>1, QuietMove
    <2>2. CASE \/ GoToW(w, "skip_run")
               \/ worker' = [worker EXCEPT ![w].pc = "lock", ![w].seen = connector.status]
      <3>1. /\ worker'[w].pc \in {"skip_run", "lock"} /\ worker'[w].run = worker[w].run
            /\ \A v \in Workers \ {w} : worker'[v] = worker[v]
        BY <1>0, <2>2 DEF GoToW, RowsTyped, WorkerRow
      <3>2. DeliverySound(w)'
        BY <1>0, <2>0, <3>1 DEF DeliverySound
      <3> QED BY <2>0, <3>1, <3>2, QuietMove
    <2> QED BY <1>2, <2>1, <2>2, Zenon DEF ReadRun
  <1>3. CASE SkipRun(w)
    <2>0. UNCHANGED tick
      BY <1>3 DEF SkipRun
    <2>1. CASE /\ AtW(w, "skip_run") /\ NoteReplay(w) /\ GoToW(w, "skip_occurrence")
               /\ updateSyncRunRecord(worker[w].run, "skipped", "paused")
               /\ UNCHANGED occurrences
      <3>1. PICK r \in Runs : r = worker[w].run
        BY <1>0, <2>1 DEF DeliverySound, AtW
      <3>2. /\ spent.replayed \subseteq spent'.replayed
            /\ runs[r].status = "succeeded" => r \in spent'.replayed
        BY <2>1, <3>1, Replayed
      <3>3. /\ RunsGoOn /\ Started(r)' /\ runs'[r].status = "skipped"
            /\ \A q \in Runs \ {r} : runs'[q] = runs[q]
        BY <2>1, <3>1, <3>2, RunWritten
      <3>4. NobodySucceeds
        BY <3>3 DEF NobodySucceeds
      <3>5. /\ worker'[w].pc = "skip_occurrence" /\ worker'[w].run = r
            /\ \A v \in Workers \ {w} : worker'[v] = worker[v]
        BY <1>0, <2>1, <3>1 DEF GoToW, RowsTyped, WorkerRow
      <3>6. DeliverySound(w)'
        BY <3>3, <3>5 DEF DeliverySound
      <3>7. WorkersSound'
        BY <3>3, <3>4, <3>5, <3>6, OneMoves, RowsUnread
      <3> QED BY <2>0, <2>1, <3>3, <3>7, OccurrencesStay, TickStays DEF SoundInv, Reported
    <2>2. CASE /\ AtW(w, "skip_occurrence") /\ Leave(w) /\ UNCHANGED <<runs, spent>>
               /\ skipScheduleOccurrenceByRunId(worker[w].run)
      <3>1. RunsGoOn /\ NobodySucceeds
        BY <2>2, RunsUntouched DEF NobodySucceeds
      <3>2. WorkersSound'
        BY <1>l, <2>2, <3>1, OneMoves, RowsUnread
      <3>3. worker[w].run \in Runs /\ worker[w].run # NoRun
        BY <1>0, <2>2, ScheduleAssumption DEF DeliverySound, AtW
      <3>4. ASSUME NEW o \in Occurrences
            PROVE  /\ \/ occurrences'[o] = occurrences[o]
                      \/ \E row \in OccurrenceRow : occurrences'[o] = row /\ RowSound(row)'
                   /\ Reported(o)
                   /\ occurrences'[o] \in OccurrenceRow
        <4>1. PICK old \in OccurrenceRow : old = occurrences[o]
          BY DEF Typed, RestTyped
        <4>2. CASE old.run # worker[w].run
          BY <2>2, <4>1, <4>2 DEF skipScheduleOccurrenceByRunId, Reported
        <4>3. CASE old.run = worker[w].run
          <5>1. PICK row \in OccurrenceRow : row = [old EXCEPT !.status = "skipped"]
            BY DEF OccurrenceRow, OccurrenceStatuses
          <5>2. row.run = old.run /\ row.status = "skipped"
            BY <5>1 DEF OccurrenceRow
          <5>3. occurrences'[o] = row
            BY <2>2, <4>1, <4>3, <5>1 DEF skipScheduleOccurrenceByRunId
          <5>4. RowSound(old)'
            BY <3>1, <4>1, RowStays DEF SoundInv, OccurrencesSound
          <5>5. RowSound(row)'
            BY <5>2, <5>4 DEF RowSound
          <5> QED BY <4>1, <5>2, <5>3, <5>5 DEF Reported
        <4> QED BY <4>2, <4>3
      <3>5. occurrences' \in [Occurrences -> OccurrenceRow]
        BY <2>2, <3>4 DEF skipScheduleOccurrenceByRunId
      <3>6. OccurrencesSound'
        BY <3>1, <3>4, <3>5, RowByRow DEF SoundInv
      <3> QED BY <2>0, <3>1, <3>2, <3>4, <3>6, TickStays DEF SoundInv
    <2> QED BY <1>3, <2>1, <2>2, Zenon DEF SkipRun
  <1>4. CASE tryAcquireConnectorSyncLock(w)
    <2>0. UNCHANGED <<runs, occurrences, tick, spent>> /\ worker[w].pc = "lock"
      BY <1>4 DEF tryAcquireConnectorSyncLock, tableVars, WorkerOnly, AtW
    <2>1. CASE Leave(w)
      BY <1>l, <2>0, <2>1, QuietMove
    <2>2. CASE GoToW(w, "start")
      <3>1. /\ worker'[w].pc = "start" /\ worker'[w].run = worker[w].run
            /\ \A v \in Workers \ {w} : worker'[v] = worker[v]
        BY <1>0, <2>2 DEF GoToW, RowsTyped, WorkerRow
      <3>2. DeliverySound(w)'
        BY <1>0, <2>0, <3>1 DEF DeliverySound
      <3> QED BY <2>0, <3>1, <3>2, QuietMove
    <2> QED BY <1>4, <2>1, <2>2, Zenon DEF tryAcquireConnectorSyncLock
  <1>5. CASE StartRun(w)
    <2>1. PICK r \in Runs : r = worker[w].run
      BY <1>0, <1>5 DEF DeliverySound, AtW, StartRun
    <2>2. /\ spent.replayed \subseteq spent'.replayed
          /\ runs[r].status = "succeeded" => r \in spent'.replayed
      BY <1>5, <2>1, Replayed DEF StartRun
    <2>3. PICK code : updateSyncRunRecord(r, "running", code)
      BY <1>5, <2>1 DEF StartRun
    <2>4. /\ RunsGoOn /\ Started(r)' /\ runs'[r].status = "running"
          /\ \A q \in Runs \ {r} : runs'[q] = runs[q]
      BY <2>2, <2>3, RunWritten
    <2>5. NobodySucceeds
      BY <2>4 DEF NobodySucceeds
    <2>6. /\ worker'[w].pc = "apply" /\ worker'[w].run = r
          /\ \A v \in Workers \ {w} : worker'[v] = worker[v]
      BY <1>0, <1>5, <2>1 DEF StartRun, GoToW, RowsTyped, WorkerRow
    <2>7. DeliverySound(w)'
      BY <2>4, <2>6 DEF DeliverySound
    <2>8. WorkersSound'
      BY <2>4, <2>5, <2>6, <2>7, OneMoves, RowsUnread
    <2> QED BY <1>5, <2>4, <2>8, OccurrencesStay, TickStays DEF SoundInv, StartRun, Reported
  <1>6. ASSUME NEW result \in Results, FinishRun(w, result)
        PROVE  OccurrencesSound' /\ WorkersSound' /\ TickSound'
    <2>0. UNCHANGED <<occurrences, tick, spent>> /\ worker[w].pc = "apply"
      BY <1>6 DEF FinishRun, WorkerOnly, AtW
    <2>1. PICK r \in Runs : r = worker[w].run
      BY <1>0, <2>0 DEF DeliverySound
    <2>2. runs[r].status # "succeeded"
      BY <1>0, <2>0, <2>1 DEF DeliverySound
    <2>3. PICK status, code : status = result[1] /\ updateSyncRunRecord(r, status, code)
      BY <1>6, <2>1 DEF FinishRun
    <2>4. status \in {"succeeded", "failed", "blocked"}
      BY <2>3 DEF Results
    <2>5. /\ RunsGoOn /\ Started(r)' /\ runs'[r].status = status
          /\ \A q \in Runs \ {r} : runs'[q] = runs[q]
      BY <2>0, <2>2, <2>3, <2>4, RunWritten
    <2>6. /\ worker'[w].pc = "touch" /\ worker'[w].run = r /\ worker'[w].out = status
          /\ \A v \in Workers \ {w} : worker'[v] = worker[v]
      BY <1>0, <1>6, <2>1, <2>3 DEF FinishRun, RowsTyped, WorkerRow
    <2>7. status = "succeeded" => SucceededOnce(r)'
      BY <2>5 DEF SucceededOnce
    <2>8. DeliverySound(w)'
      BY <2>5, <2>6, <2>7 DEF DeliverySound
    \* The advisory lock: no other delivery is executing a run.
    <2>9. \A v \in Workers \ {w} : worker[v].pc # "apply"
      BY <2>0 DEF HoldsLock, Critical
    <2>10. WorkersSound'
      BY <2>5, <2>6, <2>8, <2>9, OneMoves
    <2> QED BY <2>0, <2>5, <2>10, OccurrencesStay, TickStays DEF SoundInv, Reported
  <1>7. ASSUME NEW itemsFailed \in BOOLEAN, NEW targeted \in BOOLEAN,
               touchConnectorAfterSync(w, itemsFailed, targeted)
        PROVE  OccurrencesSound' /\ WorkersSound' /\ TickSound'
    <2>0. UNCHANGED <<runs, occurrences, tick, spent>> /\ worker[w].pc = "touch"
      BY <1>7 DEF touchConnectorAfterSync, WorkerOnly, AtW
    <2>1. /\ worker'[w].pc = "complete" /\ worker'[w].run = worker[w].run
          /\ worker'[w].out = worker[w].out
          /\ \A v \in Workers \ {w} : worker'[v] = worker[v]
      BY <1>0, <1>7 DEF touchConnectorAfterSync, GoToW, RowsTyped, WorkerRow
    <2>2. PICK r \in Runs : r = worker[w].run
      BY <1>0, <2>0 DEF DeliverySound
    <2>3. (Started(r) <=> Started(r)') /\ (SucceededOnce(r) <=> SucceededOnce(r)')
      BY <2>0 DEF Started, SucceededOnce
    <2>4. DeliverySound(w)'
      BY <1>0, <2>0, <2>1, <2>2, <2>3 DEF DeliverySound
    <2> QED BY <2>0, <2>1, <2>4, QuietMove
  <1>8. CASE CompleteOccurrence(w)
    <2>0. UNCHANGED <<runs, tick, spent>> /\ worker[w].pc = "complete"
      BY <1>8 DEF CompleteOccurrence, WorkerOnly, AtW
    <2>1. PICK r \in Runs : r = worker[w].run
      BY <1>0, <2>0 DEF DeliverySound
    <2>2. PICK succeeded \in BOOLEAN : succeeded <=> worker[w].out = "succeeded"
      OBVIOUS
    <2>3. PICK code : completeScheduleOccurrence(r, succeeded, code)
      BY <1>8, <2>1, <2>2 DEF CompleteOccurrence
    <2>4. RunsGoOn /\ NobodySucceeds
      BY <2>0, RunsUntouched DEF NobodySucceeds
    <2>5. Started(r)' /\ (succeeded => SucceededOnce(r)')
      <3>1. Started(r) /\ (succeeded => SucceededOnce(r))
        BY <1>0, <2>0, <2>1, <2>2 DEF DeliverySound
      <3> QED BY <2>4, <3>1 DEF RunsGoOn
    <2>6. OccurrencesSound' /\ \A o \in Occurrences : Reported(o)
      BY <2>3, <2>4, <2>5, CompleteSound DEF SoundInv
    <2>7. /\ worker'[w].pc = "unlock" /\ worker'[w].run = r
          /\ \A v \in Workers \ {w} : worker'[v] = worker[v]
      BY <1>0, <1>8, <2>1 DEF CompleteOccurrence, GoToW, RowsTyped, WorkerRow
    <2>8. DeliverySound(w)'
      BY <2>5, <2>7 DEF DeliverySound
    <2>9. WorkersSound'
      BY <2>4, <2>7, <2>8, OneMoves, RowsUnread
    <2> QED BY <2>0, <2>4, <2>6, <2>9, TickStays DEF SoundInv
  <1>9. CASE ReleaseLock(w)
    BY <1>9, <1>l, QuietMove DEF ReleaseLock, tableVars, WorkerOnly
  <1> QED
    BY <1>1, <1>2, <1>3, <1>4, <1>5, <1>6, <1>7, <1>8, <1>9, Zenon DEF WorkerStep

LEMMA OthersSound ==
    ASSUME Typed, SoundInv,
           \/ SchedulerCrashes \/ SlotDue
           \/ \E w \in Workers : WorkerCrashes(w)
           \/ \E r \in Runs : JobStalls(r) \/ JobEvicted(r) \/ HeartbeatStops(r)
                              \/ RequestManualRun(r) \/ ReceiveWebhook(r) \/ SendRun(r)
           \/ \E status \in {"keep", "active", "paused", "disabled"},
                 periodic \in BOOLEAN : EditConnector(status, periodic)
           \/ \E otherInterval \in BOOLEAN : EditSchedule(otherInterval)
    PROVE  OccurrencesSound' /\ WorkersSound' /\ TickSound'
  <1>q. ASSUME UNCHANGED <<runs, worker, occurrences, tick>>,
               spent.replayed \subseteq spent'.replayed
        PROVE  OccurrencesSound' /\ WorkersSound' /\ TickSound'
    <2>1. RunsGoOn /\ WorkersSound'
      BY <1>q, QuietStep
    <2> QED BY <1>q, <2>1, OccurrencesStay, TickStays DEF SoundInv, Reported
  <1>n. ASSUME NEW r \in Runs, NEW trigger, createSyncRunRecord(r, trigger), Other,
               UNCHANGED <<worker, occurrences, tick>>
        PROVE  OccurrencesSound' /\ WorkersSound' /\ TickSound'
    <2>1. spent.replayed \subseteq spent'.replayed
      BY <1>n, OtherTyped DEF Typed
    <2>2. RunsGoOn
      BY <1>n, <2>1, RunInserted
    <2>3. runs'[r].status = "queued" /\ \A q \in Runs \ {r} : runs'[q] = runs[q]
      BY <1>n DEF createSyncRunRecord, Typed, RunRow
    <2>4. NobodySucceeds
      BY <2>3 DEF NobodySucceeds
    <2> QED BY <1>n, <2>2, <2>4, OccurrencesStay, WorkersStay, TickStays DEF SoundInv, Reported
  <1>1. CASE SchedulerCrashes
    <2>1. /\ tick'.pc = "idle" /\ UNCHANGED <<runs, worker, occurrences>>
          /\ spent.replayed \subseteq spent'.replayed
      BY <1>1, FaultTyped DEF SchedulerCrashes, IdleTick, tableVars, Typed
    <2> QED BY <2>1, AwayStep
  <1>2. CASE SlotDue
    BY <1>2, <1>q DEF SlotDue, SlotComesDue
  <1>3. ASSUME NEW w \in Workers, WorkerCrashes(w)
        PROVE  OccurrencesSound' /\ WorkersSound' /\ TickSound'
    <2>1. spent.replayed \subseteq spent'.replayed
      BY <1>3, FaultTyped DEF WorkerCrashes, Typed
    <2>2. RunsGoOn /\ NobodySucceeds
      BY <1>3, <2>1, RunsUntouched DEF WorkerCrashes, tableVars, NobodySucceeds
    <2>3. DeliverySound(w)' /\ \A v \in Workers \ {w} : worker'[v] = worker[v]
      BY <1>3, LeaveRow, IdleSound DEF WorkerCrashes, Typed
    <2>4. WorkersSound'
      BY <2>2, <2>3, OneMoves, RowsUnread
    <2> QED BY <1>3, <2>2, <2>4, OccurrencesStay, TickStays
            DEF SoundInv, WorkerCrashes, tableVars, Reported
  <1>4. ASSUME NEW r \in Runs, JobStalls(r) \/ JobEvicted(r) \/ SendRun(r)
        PROVE  OccurrencesSound' /\ WorkersSound' /\ TickSound'
    <2>1. spent.replayed \subseteq spent'.replayed
      BY <1>4, FaultTyped DEF JobStalls, JobEvicted, SendRun, Typed
    <2> QED BY <1>4, <1>q, <2>1 DEF JobStalls, JobEvicted, SendRun, tableVars
  <1>5. ASSUME NEW r \in Runs, HeartbeatStops(r)
        PROVE  OccurrencesSound' /\ WorkersSound' /\ TickSound'
    <2>0. UNCHANGED <<occurrences, worker, tick, spent>>
      BY <1>5 DEF HeartbeatStops, WorkerOnly
    <2>1. \A q \in Runs : runs'[q].status = runs[q].status
      BY <1>5 DEF HeartbeatStops, HeartbeatLapses, Typed, RunRow
    <2>2. RunsGoOn /\ NobodySucceeds
      BY <2>0, <2>1 DEF RunsGoOn, NobodySucceeds, Exists, Started, SucceededOnce
    <2> QED BY <2>0, <2>2, OccurrencesStay, WorkersStay, TickStays DEF SoundInv, Reported
  <1>6. ASSUME NEW r \in Runs, RequestManualRun(r)
        PROVE  OccurrencesSound' /\ WorkersSound' /\ TickSound'
    BY <1>6, <1>n DEF RequestManualRun
  <1>7. ASSUME NEW r \in Runs, ReceiveWebhook(r)
        PROVE  OccurrencesSound' /\ WorkersSound' /\ TickSound'
    BY <1>7, <1>n DEF ReceiveWebhook
  <1>8. ASSUME NEW status, NEW periodic, EditConnector(status, periodic)
        PROVE  OccurrencesSound' /\ WorkersSound' /\ TickSound'
    <2>1. spent.replayed \subseteq spent'.replayed
      BY <1>8 DEF EditConnector, Typed, RestTyped, SpentRow
    <2> QED BY <1>8, <1>q, <2>1 DEF EditConnector
  <1>9. ASSUME NEW otherInterval \in BOOLEAN, EditSchedule(otherInterval)
        PROVE  OccurrencesSound' /\ WorkersSound' /\ TickSound'
    <2>0. UNCHANGED <<runs, worker, tick, spent>>
      BY <1>9 DEF EditSchedule
    <2>1. RunsGoOn /\ WorkersSound'
      BY <2>0, QuietStep
    <2>2. ASSUME NEW o \in Occurrences
          PROVE  /\ \/ occurrences'[o] = occurrences[o]
                    \/ \E row \in OccurrenceRow : occurrences'[o] = row /\ RowSound(row)'
                 /\ Reported(o)
                 /\ occurrences'[o] \in OccurrenceRow
      <3>1. PICK old \in OccurrenceRow : old = occurrences[o]
        BY DEF Typed, RestTyped
      <3>2. PICK row \in OccurrenceRow : row = [old EXCEPT !.status = "skipped"]
        BY DEF OccurrenceRow, OccurrenceStatuses
      <3>3. occurrences'[o] \in {old, row}
        BY <1>9, <3>1, <3>2 DEF EditSchedule, putConnectorSchedule
      <3>4. row.run = old.run /\ row.status = "skipped"
        BY <3>2 DEF OccurrenceRow
      <3>5. RowSound(old)'
        BY <2>1, <3>1, RowStays DEF SoundInv, OccurrencesSound
      <3>6. RowSound(row)'
        BY <3>4, <3>5 DEF RowSound
      <3> QED BY <3>1, <3>3, <3>4, <3>6 DEF Reported
    <2>3. occurrences' \in [Occurrences -> OccurrenceRow]
      BY <1>9, <2>2 DEF EditSchedule, putConnectorSchedule
    <2>4. OccurrencesSound'
      BY <2>1, <2>2, <2>3, RowByRow DEF SoundInv
    <2> QED BY <2>0, <2>1, <2>2, <2>4, TickStays DEF SoundInv
  <1> QED
    BY <1>1, <1>2, <1>3, <1>4, <1>5, <1>6, <1>7, <1>8, <1>9

\* The four invariants together.
AllInv == IInv /\ RunsInv /\ SoundInv

LEMMA AllIsTyped == AllInv => Typed /\ HoldsLock
  BY DEF AllInv, IInv, RunsInv, SoundInv, Typed

LEMMA InitAllInv == SystemInit => AllInv
  BY InitIInv, InitRunsInv, InitSoundInv DEF AllInv

LEMMA NextSoundInv == AllInv /\ [SystemNext]_vars => SoundInv'
  <1> SUFFICES ASSUME AllInv, [SystemNext]_vars PROVE SoundInv'
    OBVIOUS
  <1>0. Typed /\ HoldsLock /\ SoundInv
    BY AllIsTyped DEF AllInv
  <1>1. CASE TickStep
    <2>1. \A o \in InStatus("queued") : occurrences[o].run \in Runs
      BY <1>0 DEF InStatus, SoundInv, OccurrencesSound, RowSound, Exists
    <2> QED BY <1>0, <1>1, <2>1, TickTyped, TickStepSound DEF SoundInv
  <1>2. ASSUME NEW w \in Workers, WorkerStep(w) PROVE SoundInv'
    <2>1. worker[w].pc # "idle" => worker[w].run \in Runs
      BY <1>0 DEF SoundInv, WorkersSound, DeliverySound
    <2> QED BY <1>0, <1>2, <2>1, WorkerTyped, WorkerStepSound DEF SoundInv
  <1>3. CASE \/ SchedulerCrashes \/ SlotDue
             \/ \E w \in Workers : WorkerCrashes(w)
             \/ \E r \in Runs : JobStalls(r) \/ JobEvicted(r) \/ HeartbeatStops(r)
                                \/ RequestManualRun(r) \/ ReceiveWebhook(r) \/ SendRun(r)
             \/ \E status \in {"keep", "active", "paused", "disabled"},
                   periodic \in BOOLEAN : EditConnector(status, periodic)
             \/ \E otherInterval \in BOOLEAN : EditSchedule(otherInterval)
    BY <1>0, <1>3, OthersTyped, OthersSound DEF SoundInv
  <1>4. CASE UNCHANGED vars
    <2>1. UNCHANGED <<runs, worker, occurrences, tick, spent>> /\ RestTyped'
      BY <1>0, <1>4 DEF vars, SoundInv, RestTyped
    <2>2. RunsGoOn /\ NobodySucceeds
      BY <2>1, RunsUntouched DEF NobodySucceeds
    <2> QED BY <1>0, <2>1, <2>2, SoundStays
  <1> QED
    BY <1>1, <1>2, <1>3, <1>4, Zenon DEF SystemNext

LEMMA NextAllInv == AllInv /\ [SystemNext]_vars => AllInv'
  <1> SUFFICES ASSUME AllInv, [SystemNext]_vars PROVE AllInv'
    OBVIOUS
  <1>1. IInv /\ RowsTyped /\ RunsInv
    BY DEF AllInv, IInv
  <1> QED BY <1>1, NextIInv, NextRunsInv, NextSoundInv DEF AllInv

\* Everything the scheduler, the deliveries, the queue and the tables hold has
\* its type in every state; in particular every queued occurrence whose run
\* listQueuedConnectorOccurrences reads has a run to read.
THEOREM TypeCorrect == SystemSpec => []SystemTypeOK
  <1>1. AllInv => SystemTypeOK
    BY AllIsTyped, TypedIsTypeOK
  <1> QED
    BY <1>1, InitAllInv, NextAllInv, PTL DEF SystemSpec

\* For any number of deliveries, ticks, crashes and edits: an occurrence is
\* reported as succeeded only for a run whose row said so, by the delivery that
\* executed it or by the scheduler's reconciliation, and the row still says so
\* unless a second delivery executed the run again.
THEOREM SuccessIsReal == SystemSpec => []SuccessIsARunsSuccess
  <1>1. SoundInv => SuccessIsARunsSuccess
    BY DEF SoundInv, OccurrencesSound, RowSound, SucceededOnce, SuccessIsARunsSuccess
  <1> QED
    BY <1>1, InitAllInv, NextAllInv, PTL DEF SystemSpec, AllInv

\* An occurrence is failed only together with its run or after it: by
\* retryScheduleOccurrence, which fails a run that is still queued in the same
\* transaction, or for the result of a run that was started.
THEOREM GivenUpOver == SystemSpec => []GivenUpRunIsOver
  <1>1. SoundInv => GivenUpRunIsOver
    BY ScheduleAssumption
       DEF SoundInv, OccurrencesSound, RowSound, Started, GivenUpRunIsOver
  <1> QED
    BY <1>1, InitAllInv, NextAllInv, PTL DEF SystemSpec, AllInv
=============================================================================
