---------------------------- MODULE RunLifecycle ----------------------------
(***************************************************************************)
(* What the durable-run component promises about a run's life, as the     *)
(* threads module documents it: one active run per thread, the states a   *)
(* run may move between, and outcomes that are final.  No heartbeats,      *)
(* workers, jobs or recovery: those are how the promise is kept.           *)
(***************************************************************************)
EXTENDS RunState, FiniteSets

CONSTANTS Runs, Threads

VARIABLES
    status,  \* of each run, "absent" before it is created
    thread   \* the thread a run was created on

lifecycleVars == <<status, thread>>

Busy(t) == \E r \in Runs : thread[r] = t /\ status[r] \in ACTIVE_RUN_STATUSES

Init ==
    /\ status = [r \in Runs |-> "absent"]
    /\ thread \in [Runs -> Threads]

\* A thread takes a new run only when it has no active one.
Create(r, t) ==
    /\ status[r] = "absent" /\ ~Busy(t)
    /\ status' = [status EXCEPT ![r] = "queued"]
    /\ thread' = [thread EXCEPT ![r] = t]

Move(r, sources, target) ==
    /\ status[r] \in sources
    /\ status' = [status EXCEPT ![r] = target]
    /\ UNCHANGED thread

Start(r) == Move(r, {"queued"}, "running")

Pause(r) == Move(r, {"running"}, "waiting_for_approval")

AcknowledgeStop(r) ==
    Move(r, {"queued", "running", "waiting_for_approval"}, "cancel_requested")

\* An acknowledged stop can no longer turn into a completed run.
Complete(r) == Move(r, {"running", "waiting_for_approval"}, "completed")

Fail(r) == Move(r, ACTIVE_RUN_STATUSES, "failed")

Cancel(r) == Move(r, ACTIVE_RUN_STATUSES, "cancelled")

Next ==
    \E r \in Runs :
        \/ \E t \in Threads : Create(r, t)
        \/ Start(r)
        \/ Pause(r)
        \/ AcknowledgeStop(r)
        \/ Complete(r)
        \/ Fail(r)
        \/ Cancel(r)

Spec == Init /\ [][Next]_lifecycleVars
=============================================================================
