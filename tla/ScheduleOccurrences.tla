------------------------ MODULE ScheduleOccurrences ------------------------
(***************************************************************************)
(* The tables behind one connector's periodic sync: its row in             *)
(* task_schedules, the occurrences materialised from it, the sync runs and *)
(* the connector's status (connectors/repository/schedule.ts,              *)
(* schedule-occurrence.ts, sync-run.ts, connector.ts).  Each operator is   *)
(* one transaction or one statement of those files; who calls it, and what *)
(* happens between two of them, is ConnectorScheduler's.                   *)
(*                                                                         *)
(* Time is abstract.  A slot comes due, a retry delay passes and a dispatch*)
(* lease expires whenever the environment likes.                           *)
(***************************************************************************)
EXTENDS Naturals, FiniteSets

CONSTANTS
    Occurrences,         \* ids of schedule_occurrences rows
    Runs,                \* ids of connector_sync_runs rows
    NoRun,
    RunAttempts,         \* attempts after which a failed run is not retried (3)
    DispatchAttempts     \* attempts after which a dispatch is given up (5)

ASSUME ScheduleAssumption ==
    /\ NoRun \notin Runs
    /\ RunAttempts \in Nat \ {0}
    /\ DispatchAttempts \in Nat \ {0}

VARIABLES
    schedule,    \* enabled, and whether nextDueAt has passed
    connector,   \* status and syncBlock of the source_connectors row
    occurrences, \* status "none" until inserted
    runs         \* status "none" until inserted

tableVars == <<schedule, connector, occurrences, runs>>

ConnectorStatuses == {"active", "paused", "error", "disabled"}
OccurrenceStatuses ==
    {"none", "pending", "dispatching", "queued", "succeeded", "failed", "skipped"}
TerminalRunStatuses == {"succeeded", "failed", "skipped", "blocked"}
ActiveRunStatuses == {"queued", "running"}
RunStatuses == {"none"} \cup ActiveRunStatuses \cup TerminalRunStatuses
Triggers == {"scheduled", "manual", "webhook", "backfill"}
\* Outcomes an error code tells apart: a transient error, a provider account to
\* reconnect, a quota or billing block, a paused schedule.
Codes == {"none", "transient", "reauth", "block", "paused"}

OccurrenceRow == [status : OccurrenceStatuses, run : Runs \cup {NoRun},
                  attempts : Nat]
RunRow == [status : RunStatuses, trigger : Triggers, code : Codes,
           silent : BOOLEAN]

TypeOK ==
    /\ schedule \in [enabled : BOOLEAN, due : BOOLEAN]
    /\ connector \in [status : ConnectorStatuses, blocked : BOOLEAN]
    /\ occurrences \in [Occurrences -> OccurrenceRow]
    /\ runs \in [Runs -> RunRow]

\* A connector just created with periodic indexing on.
Init ==
    /\ schedule = [enabled |-> TRUE, due |-> FALSE]
    /\ connector = [status |-> "active", blocked |-> FALSE]
    /\ occurrences = [o \in Occurrences |->
                       [status |-> "none", run |-> NoRun, attempts |-> 0]]
    /\ runs = [r \in Runs |-> [status |-> "none", trigger |-> "scheduled",
                               code |-> "none", silent |-> FALSE]]

Settled(o) == occurrences[o].status \in {"succeeded", "failed", "skipped"}
ActiveRuns == {r \in Runs : runs[r].status \in ActiveRunStatuses}
InStatus(status) == {o \in Occurrences : occurrences[o].status = status}
FreeRuns == {r \in Runs : runs[r].status = "none"}

-----------------------------------------------------------------------------
\* task_schedules

SlotComesDue ==
    /\ schedule.enabled /\ ~schedule.due
    /\ InStatus("none") # {}
    /\ schedule' = [schedule EXCEPT !.due = TRUE]
    /\ UNCHANGED <<connector, occurrences, runs>>

\* A change of the schedule skips what is pending and restarts the interval.
putConnectorSchedule(enabled, otherInterval) ==
    LET changed == enabled # schedule.enabled \/ otherInterval IN
    /\ schedule' = IF changed THEN [enabled |-> enabled, due |-> FALSE] ELSE schedule
    /\ occurrences' = [o \in Occurrences |->
         IF changed /\ occurrences[o].status = "pending"
         THEN [occurrences[o] EXCEPT !.status = "skipped"] ELSE occurrences[o]]

\* One slot per tick: a pending occurrence absorbs the newly due slot.
materializeDueConnectorSchedules ==
    IF schedule.enabled /\ schedule.due
    THEN /\ schedule' = [schedule EXCEPT !.due = FALSE]
         /\ IF InStatus("pending") # {} THEN UNCHANGED occurrences
            ELSE \E o \in InStatus("none") :
                   occurrences' = [occurrences EXCEPT ![o].status = "pending"]
    ELSE UNCHANGED <<schedule, occurrences>>

\* Mutation: an expired dispatch lease is not taken over.
M_claimPendingOnly(o, active) ==
    /\ schedule.enabled
    /\ occurrences[o].status = "pending"
    /\ active \in {NoRun, occurrences[o].run}

\* The query for an active run has no order: with several it returns any one.
Claimable(o, active) ==
    /\ schedule.enabled
    /\ occurrences[o].status \in {"pending", "dispatching"}
    /\ active \in {NoRun, occurrences[o].run}

claimDispatchable(claimed) ==
    occurrences' = [o \in Occurrences |->
        IF o \in claimed
        THEN [occurrences[o] EXCEPT !.status = "dispatching", !.attempts = @ + 1]
        ELSE occurrences[o]]

pauseConnectorScheduleForAuth ==
    /\ schedule' = [enabled |-> FALSE, due |-> FALSE]
    /\ connector' = [connector EXCEPT !.status = "error"]

-----------------------------------------------------------------------------
\* schedule_occurrences

attachScheduleOccurrenceRun(o, r) ==
    occurrences' = [occurrences EXCEPT ![o].run = r]

markScheduleOccurrence(o, status) ==
    occurrences' = IF occurrences[o].status = "dispatching"
                   THEN [occurrences EXCEPT ![o].status = status]
                   ELSE occurrences

\* Mutation: the run of a given-up dispatch stays queued.
M_leaveRunQueued(o, attempts) ==
    /\ markScheduleOccurrence(o, IF attempts >= DispatchAttempts
                                 THEN "failed" ELSE "pending")
    /\ UNCHANGED runs

\* A dispatch that did not reach the queue.  The last attempt also fails the
\* occurrence's run if no worker has started it.
retryScheduleOccurrence(o, attempts) ==
    LET last == attempts >= DispatchAttempts
        r == occurrences[o].run
    IN IF occurrences[o].status # "dispatching" THEN UNCHANGED <<occurrences, runs>>
       ELSE /\ occurrences' = [occurrences EXCEPT ![o].status =
                                 IF last THEN "failed" ELSE "pending"]
            /\ runs' = IF last /\ r \in Runs /\ runs[r].status = "queued"
                       THEN [runs EXCEPT ![r].status = "failed", ![r].code = "transient"]
                       ELSE runs

\* Mutation: a run that ended in a block is reported as done.
M_blockIsSuccess(row, succeeded, code) ==
    [row EXCEPT !.status = IF succeeded \/ code = "block" THEN "succeeded" ELSE "failed"]

\* The occurrence of a finished run, as its row says after the result.
completed(row, succeeded, code) ==
    LET retry == ~succeeded /\ code \notin {"reauth", "block"}
                 /\ row.attempts < RunAttempts
    IN [row EXCEPT
         !.status = IF succeeded THEN "succeeded"
                    ELSE IF code = "block" THEN "skipped"
                    ELSE IF retry THEN "pending" ELSE "failed",
         !.run = IF retry THEN NoRun ELSE @]

completeScheduleOccurrence(r, succeeded, code) ==
    /\ occurrences' = [o \in Occurrences |->
         IF occurrences[o].run = r THEN completed(occurrences[o], succeeded, code)
         ELSE occurrences[o]]
    /\ schedule' = IF code = "reauth" /\ \E o \in Occurrences : occurrences[o].run = r
                   THEN [enabled |-> FALSE, due |-> FALSE] ELSE schedule

skipScheduleOccurrenceByRunId(r) ==
    occurrences' = [o \in Occurrences |->
        IF occurrences[o].run = r THEN [occurrences[o] EXCEPT !.status = "skipped"]
        ELSE occurrences[o]]

\* The worker of a running run is gone: fail the run, offer the occurrence again.
recoverLostScheduleOccurrence(o, r) ==
    IF runs[r].status # "running" THEN UNCHANGED <<occurrences, runs>>
    ELSE /\ runs' = [runs EXCEPT ![r].status = "failed", ![r].code = "transient"]
         /\ occurrences' =
              IF occurrences[o].run = r /\ occurrences[o].status = "queued"
              THEN [occurrences EXCEPT ![o].status = "pending", ![o].run = NoRun]
              ELSE occurrences

-----------------------------------------------------------------------------
\* connector_sync_runs and source_connectors

createSyncRunRecord(r, trigger) ==
    /\ runs[r].status = "none"
    /\ runs' = [runs EXCEPT ![r].status = "queued", ![r].trigger = trigger]

\* updateSyncRunRecord writes the row whatever its status is.
updateSyncRunRecord(r, status, code) ==
    runs' = [runs EXCEPT ![r].status = status, ![r].code = code,
                         ![r].silent = FALSE]

\* A running run's heartbeat is older than ten minutes.
HeartbeatLapses(r) ==
    /\ runs[r].status = "running" /\ ~runs[r].silent
    /\ runs' = [runs EXCEPT ![r].silent = TRUE]

\* Mutation: the run's status is written to the connector's row.
M_runStatus(status) == IF status = "paused" THEN "paused" ELSE "succeeded"

finalConnectorStatusAfterSync(status) ==
    IF status = "paused" THEN "paused" ELSE "active"
canRunConnectorStatus(status) == status \in {"active", "paused", "error"}
=============================================================================
