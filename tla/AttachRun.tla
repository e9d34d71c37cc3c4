------------------------------ MODULE AttachRun ------------------------------
(***************************************************************************)
(* A client attached to a run: attachRunEvents polls the run's Redis list  *)
(* and, between polls, the run row; resolveAttachRunState reconstructs the *)
(* terminal events that were never pushed (durable/service.ts,             *)
(* run-results.ts).                                                        *)
(*                                                                         *)
(* The loop's failRunIfStale is the readRun of a caller of DurableRun: the *)
(* reader is idle at "resolve" while it runs.                              *)
(***************************************************************************)
EXTENDS DurableRun

CONSTANT Readers

VARIABLE reader

attachVars == <<vars, reader>>

\* run     the attached run
\* offset  list entries consumed
\* seen    the events gone through, those of the list and those synthesized after
\*         them; the client is sent all but the stop markers, which are no SSE
\*         events.  sawErrorEvent is that there is an error among them.
Reader == [pc : {"idle", "poll", "resolve", "drain", "done"},
           run : Runs \cup {NoRun}, offset : Nat, seen : Seq(Events)]

Detached == [pc |-> "idle", run |-> NoRun, offset |-> 0, seen |-> <<>>]

AttachInit == SystemInit /\ reader = [v \in Readers |-> Detached]

ErrorEvent(code) == [type |-> "error", code |-> code]
FinishEvent == [type |-> "finish", code |-> "none"]

sawErrorEvent(seen) == \E i \in DOMAIN seen : seen[i].type = "error"

\* A paused turn's finish is a finish to the client.
isFinish(event) == event.type \in {"finish", "paused_finish"}

\* How far a list of events is gone through: to the first finish.
delivered(events) ==
    LET ends == {i \in DOMAIN events : isFinish(events[i])}
        last == IF ends = {} THEN Len(events)
                ELSE CHOOSE i \in ends : \A j \in ends : i <= j
    IN  SubSeq(events, 1, last)

endsWithFinish(events) ==
    events # <<>> /\ isFinish(events[Len(events)])

newEvents(v) ==
    SubSeq(stream[reader[v].run], reader[v].offset + 1, Len(stream[reader[v].run]))

\* Mutation: an error the client has already seen is sent again.
M_repeatError(run, sawError) ==
    IF run.status = "completed" THEN <<FinishEvent>>
    ELSE <<ErrorEvent(toTerminalRunErrorCode(run)), FinishEvent>>

synthesizeTerminalRunEvents(run, sawError) ==
    IF run.status = "completed" \/ sawError THEN <<FinishEvent>>
    ELSE <<ErrorEvent(toTerminalRunErrorCode(run)), FinishEvent>>

-----------------------------------------------------------------------------
attach(v, r) ==
    /\ reader[v].pc = "idle" /\ Exists(r)
    /\ reader' = [reader EXCEPT ![v].pc = "poll", ![v].run = r]
    /\ UNCHANGED vars

\* getEvents from the offset; a finish ends the stream.
pollEvents(v) ==
    /\ reader[v].pc = "poll"
    /\ LET events == delivered(newEvents(v)) IN
       reader' = [reader EXCEPT
                    ![v].pc = IF endsWithFinish(events) THEN "done" ELSE "resolve",
                    ![v].offset = Len(stream[reader[v].run]),
                    ![v].seen = @ \o events]
    /\ UNCHANGED vars

\* resolveAttachRunState: back to the list unless the row is terminal.
resolveAttachRunState(v) ==
    /\ reader[v].pc = "resolve"
    /\ reader' = [reader EXCEPT ![v].pc =
                    IF isTerminalRunStatus(runs[reader[v].run].status)
                    THEN "drain" ELSE "poll"]
    /\ UNCHANGED vars

\* ... then what is left of the list, completed from the row if it has no finish.
drainAndSynthesize(v) ==
    /\ reader[v].pc = "drain"
    /\ LET remaining == delivered(newEvents(v))
           seen == reader[v].seen \o remaining
       IN  reader' = [reader EXCEPT
                        ![v].pc = "done",
                        ![v].seen =
                          IF endsWithFinish(remaining) THEN seen
                          ELSE seen \o synthesizeTerminalRunEvents(
                                         runs[reader[v].run], sawErrorEvent(seen))]
    /\ UNCHANGED vars

ReaderStep(v) ==
    \/ pollEvents(v)
    \/ resolveAttachRunState(v)
    \/ drainAndSynthesize(v)

AttachNext ==
    \/ SystemNext /\ UNCHANGED reader
    \/ \E v \in Readers : ReaderStep(v) \/ \E r \in Runs : attach(v, r)

AttachSpec == AttachInit /\ [][AttachNext]_attachVars

-----------------------------------------------------------------------------
\* Properties

\* Whatever was pushed before, while or after the client read, and whichever push
\* was lost, a client that is told the run ended receives one finish, last, and
\* one error, with the committed code, exactly when the run did not complete.
ClientLearnsCommittedOutcome ==
    \A v \in Readers : reader[v].pc = "done" =>
        LET seen == reader[v].seen
            run == runs[reader[v].run]
            errors == {i \in DOMAIN seen : seen[i].type = "error"}
        IN  /\ \A i \in DOMAIN seen : isFinish(seen[i]) <=> i = Len(seen)
            /\ \A i \in errors : seen[i].code = run.errorCode
            /\ seen[Len(seen)].type = "finish" =>
                  /\ isTerminalRunStatus(run.status)
                  /\ Cardinality(errors) = IF run.status = "completed" THEN 0 ELSE 1
=============================================================================
