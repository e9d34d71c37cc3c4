-------------------------- MODULE DurableRunProofs --------------------------
(***************************************************************************)
(* Theorems about DurableRun, for any number of workers, requests, sweeps, *)
(* runs and faults.  A handler is judged alone: what its local state       *)
(* promises about itself (LocalSound) and about the row of its run         *)
(* (CommitSeen).  Every step of every handler keeps both, and its effect   *)
(* on the table is a step of ChatThreadRuns, whose invariant of            *)
(* ChatThreadRunsProofs therefore holds here too.                          *)
(***************************************************************************)
EXTENDS DurableRun, ChatThreadRunsProofs, SequenceTheorems, FiniteSetTheorems

-----------------------------------------------------------------------------
\* What a handler promises about itself

\* Where a delivery is while it executes a turn that is not committed yet.
ExecPcs == TurnPcs \cup {"lost", "catch", "flush", "persist"}

\* Where a handler may be sent when its recovery or its effects are done.
Backs == {"idle", "recheck", "return", "force_cancel"}

\* An outcome and the error code that goes with it.
Ending(out, code) == out \in TerminalStatuses /\ code \in FinishCodes(out)

\* local executes a turn, or finishes the effects of the turn's own commit.
Turning(local) ==
    local.pc \in ExecPcs \/ (local.pc = "effects" /\ local.out # "open")

\* No effect is listed twice.
Once(todo) == \A i, j \in DOMAIN todo : todo[i] = todo[j] => i = j

\* Every run a handler works on exists as an id, only deliveries execute turns, a
\* handler that is not in a turn never returns into one, and whatever is about to
\* be committed as an outcome has the error code that belongs to it.
LocalSound(p, local) ==
    /\ local.pc \notin {"idle", "recheck", "insert"} => local.run \in Runs
    /\ local.pc \in {"recheck", "insert"} \/ local.back = "recheck"
          => local.want \in Runs /\ p \notin Workers
    /\ Turning(local) \/ local.pc \in {"job", "claim", "cancel_before", "boundary"}
          => p \in Workers
    /\ local.pc \notin ExecPcs \cup {"boundary"} => local.back \in Backs
    /\ local.pc = "effects" => local.todo # <<>> /\ Once(local.todo)
    /\ local.pc \in {"push", "progress"} => local.back \in {"turn", "tail", "persist"}
    /\ local.pc \in {"expire", "fail_stale", "catch", "flush", "persist", "boundary"}
          => local.code # "none"
    /\ local.pc \in {"push", "progress"} /\ local.back = "persist" => local.code # "none"
    /\ local.pc = "finish_snapshot" => Ending(local.out, local.code)
    /\ \/ local.pc \in {"tail", "commit"}
       \/ local.pc \in {"push", "progress"} /\ local.back = "tail"
       => local.out = "paused" \/ Ending(local.out, local.code)

LocalsSound ==
    /\ proc \in [Procs -> Local]
    /\ \A p \in Procs : LocalSound(p, proc[p])

\* Run r of these rows has been claimed.
Begun(rows, r) == rows[r].status \notin {"absent", "queued"}

\* Run r of these rows ended without completing.
GivenUp(rows, r) == rows[r].status \in {"failed", "cancelled"}

\* The effects still to do give up the sandbox lease.
Releases(todo) == \E i \in DOMAIN todo : todo[i] = "release"

\* The effects that tell a run's outcome, and those of todo.
Announcements == {"error", "finish"}

Announces(todo) == {e \in Announcements : \E i \in DOMAIN todo : todo[i] = e}

\* What local will announce is the outcome of its run.
Told(rows, local) ==
    Announces(local.todo) # {} => /\ rows[local.run].status \in TerminalStatuses
                                  /\ rows[local.run].errorCode = local.code

\* What local does is covered by the table: the run it executes or announces was
\* claimed, the run whose lease it will release failed or was cancelled, and the
\* outcome it will announce is committed.
Covered(rows, local) ==
    /\ local.pc \in ExecPcs \cup {"effects"} => Begun(rows, local.run)
    /\ local.pc = "effects" /\ Releases(local.todo) => GivenUp(rows, local.run)
    /\ local.pc = "effects" => Told(rows, local)

CommitSeen == \A p \in Procs : Covered(runs, proc[p])

\* p goes on with effects it already had to do.
KeepsEffects(p) ==
    /\ proc[p].pc = "effects" /\ proc'[p].run = proc[p].run
    /\ Announces(proc'[p].todo) \subseteq Announces(proc[p].todo)

\* p has something to announce only because this very step ends the run.
WinsNow(p) ==
    Announces(proc'[p].todo) # {} => runs[proc'[p].run].status \notin TerminalStatuses

\* The step ends run r with code.
WinsOutcome(r, code) ==
    /\ runs[r].status \notin TerminalStatuses
    /\ runs'[r].status \in TerminalStatuses /\ runs'[r].errorCode = code

\* The effect of a step of p on the processes: p alone moves, it stays sound, it
\* announces nothing that is not committed, it is in a turn only if it was or if
\* nobody has claimed the run before, and it has an outcome to announce only if it
\* had or if it has just committed it.
ProcStep(p) ==
    /\ proc' \in [Procs -> Local]
    /\ \A q \in Procs \ {p} : proc'[q] = proc[q]
    /\ LocalSound(p, proc'[p])
    /\ Covered(runs', proc'[p])
    /\ Turning(proc'[p]) =>
          \/ Turning(proc[p]) /\ proc'[p].run = proc[p].run
          \/ ~Begun(runs, proc'[p].run)
    /\ proc'[p].pc = "effects" => KeepsEffects(p) \/ WinsNow(p)

-----------------------------------------------------------------------------
\* Moves a handler makes in many places

\* Every literal place, reason and code of the handlers is one of its type.
LEMMA Places ==
    /\ Backs \subseteq Pcs /\ ExecPcs \subseteq Pcs /\ RecoveryPcs \subseteq Pcs
    /\ {"recheck", "insert", "enqueue", "mark_queued", "start_failed",
         "request_cancel", "record", "job", "claim", "cancel_before", "boundary",
         "effects"} \subseteq Pcs
    /\ {"none", "CLIENT_CANCELLED", "TOOL_APPROVAL_EXPIRED", "CHAT_RUN_STALE",
         "CHAT_RUN_START_FAILED", "CHAT_RUN_WORKER_SHUTDOWN",
         "CHAT_RUN_OWNERSHIP_LOST", "CHAT_RUN_FAILED", "MODEL_UPSTREAM"}
          \subseteq ErrorCodes
    /\ "open" \in SnapshotOutcomes /\ TerminalStatuses \subseteq SnapshotOutcomes
  BY DEF Backs, Pcs, TurnPcs, ExecPcs, RecoveryPcs, ErrorCodes, SnapshotOutcomes

LEMMA IdleSound ==
    ASSUME NEW p \in Procs
    PROVE  Idle \in Local /\ LocalSound(p, Idle) /\ ~Turning(Idle)
                          /\ Idle.pc \notin ExecPcs \cup {"effects"}
  <1>1. <<>> \in Seq(Effects)
    OBVIOUS
  <1> QED
    BY <1>1 DEF Idle, Local, LocalSound, Turning, ExecPcs, TurnPcs, Pcs, Backs,
       SnapshotOutcomes, ErrorCodes

\* What Resume keeps: the run and the request.
LEMMA ResumeFields ==
    ASSUME NEW local, NEW pc, pc # "idle"
    PROVE  Resume(local, pc) =
              [pc |-> pc, run |-> local.run, want |-> local.want, out |-> "open",
               why |-> "none", code |-> "none", todo |-> <<>>, back |-> "idle"]
  BY DEF Resume, Idle

\* Wherever a handler is resumed its local state has its type.
LEMMA ResumeType ==
    ASSUME NEW local \in Local, NEW pc \in Pcs, pc # "idle"
    PROVE  Resume(local, pc) \in Local
  <1>1. <<>> \in Seq(Effects)
    OBVIOUS
  <1>2. "idle" \in Pcs /\ "none" \in ErrorCodes /\ "open" \in SnapshotOutcomes
    BY Places DEF Backs
  <1>3. [pc |-> pc, run |-> local.run, want |-> local.want, out |-> "open",
         why |-> "none", code |-> "none", todo |-> <<>>, back |-> "idle"] \in Local
    BY <1>1, <1>2 DEF Local
  <1> QED
    BY <1>3, ResumeFields, Zenon

\* Going on at a place outside the turn leaves a sound handler.
LEMMA ResumeSound ==
    ASSUME NEW p \in Procs, NEW local \in Local, NEW pc \in Backs,
           pc # "idle" => local.run \in Runs,
           pc = "recheck" => local.want \in Runs /\ p \notin Workers
    PROVE  /\ Resume(local, pc) \in Local
           /\ LocalSound(p, Resume(local, pc))
           /\ Resume(local, pc).pc = pc
           /\ pc # "idle" => Resume(local, pc).run = local.run
           /\ ~Turning(Resume(local, pc))
           /\ pc \notin ExecPcs \cup {"effects"}
  <1>2. CASE pc = "idle"
    BY <1>2, IdleSound DEF Resume, Idle
  <1>3. CASE pc # "idle"
    <2>1. Resume(local, pc) \in Local
      BY <1>3, ResumeType, Places
    <2>2. /\ Resume(local, pc).pc = pc /\ Resume(local, pc).back = "idle"
          /\ Resume(local, pc).run = local.run /\ Resume(local, pc).want = local.want
      BY <1>3, ResumeFields
    <2>3. LocalSound(p, Resume(local, pc)) /\ ~Turning(Resume(local, pc))
      BY <1>3, <2>2 DEF LocalSound, Turning, ExecPcs, TurnPcs, Backs
    <2> QED
      BY <1>3, <2>1, <2>2, <2>3 DEF ExecPcs, TurnPcs, Backs
  <1> QED
    BY <1>2, <1>3

\* A handler that replaces its local state by a sound one outside the turn.
LEMMA LeavesTurn ==
    ASSUME LocalsSound, NEW p \in Procs, NEW local \in Local,
           proc' = [proc EXCEPT ![p] = local], LocalSound(p, local),
           local.pc \notin ExecPcs \cup {"effects"}
    PROVE  ProcStep(p)
  <1>1. ~Turning(local) /\ Covered(runs', local)
    BY DEF Turning, Covered
  <1> QED
    BY <1>1 DEF LocalsSound, ProcStep

\* The end of a handler.
LEMMA EndStep ==
    ASSUME LocalsSound, NEW p \in Procs, proc[p].run \in Runs \/ p \notin Workers, End(p)
    PROVE  ProcStep(p)
  <1>1. proc[p] \in Local /\ Home(p) \in {"idle", "return"}
    BY DEF LocalsSound, Home
  <1>2. Home(p) # "idle" => proc[p].run \in Runs
    BY DEF Home
  <1>3. /\ Resume(proc[p], Home(p)) \in Local
        /\ LocalSound(p, Resume(proc[p], Home(p)))
        /\ Resume(proc[p], Home(p)).pc \notin ExecPcs \cup {"effects"}
    BY <1>1, <1>2, ResumeSound DEF Backs
  <1>4. proc' = [proc EXCEPT ![p] = Resume(proc[p], Home(p))]
    BY DEF End
  <1> QED
    BY <1>3, <1>4, LeavesTurn

\* The effects after a commit.
LEMMA DoStep ==
    ASSUME LocalsSound, NEW p \in Procs, proc[p].run \in Runs,
           NEW todo \in Seq(Effects), NEW code \in ErrorCodes, NEW back \in Backs,
           back = "recheck" => proc[p].want \in Runs /\ p \notin Workers,
           Begun(runs', proc[p].run), Releases(todo) => GivenUp(runs', proc[p].run),
           Once(todo), Announces(todo) # {} => WinsOutcome(proc[p].run, code),
           Do(p, todo, code, back)
    PROVE  ProcStep(p)
  <1>0. proc[p] \in Local
    BY DEF LocalsSound
  <1>1. CASE todo = <<>>
    <2>1. proc' = [proc EXCEPT ![p] = Resume(proc[p], back)]
      BY <1>1 DEF Do
    <2> QED
      BY <1>0, <2>1, ResumeSound, LeavesTurn DEF Backs
  <1>2. CASE todo # <<>>
    <2>1. PICK start : start = Resume(proc[p], "effects")
      OBVIOUS
    <2>3. /\ start \in Local /\ start.pc = "effects" /\ start.run = proc[p].run
          /\ start.want = proc[p].want /\ start.out = "open"
      BY <1>0, <2>1, ResumeFields, ResumeType, Places
    <2>4. PICK local : local = [start EXCEPT !.todo = todo, !.code = code, !.back = back]
      OBVIOUS
    <2>5. local \in Local
      BY <2>3, <2>4, Places DEF Local
    <2>6. /\ local.pc = "effects" /\ local.run = proc[p].run /\ local.out = "open"
          /\ local.want = proc[p].want /\ local.back = back /\ local.todo = todo
          /\ local.code = code
      BY <2>3, <2>4 DEF Local
    <2>7. LocalSound(p, local) /\ ~Turning(local)
      BY <1>2, <2>6 DEF LocalSound, Turning, ExecPcs, TurnPcs
    <2>8. proc' = [proc EXCEPT ![p] = local]
      BY <1>2, <2>1, <2>4 DEF Do
    <2>9. Covered(runs', local)
      BY <2>6 DEF Covered, Told, WinsOutcome
    <2>10. proc'[p] = local
      BY <2>8 DEF LocalsSound
    <2>11. WinsNow(p)
      BY <2>6, <2>10 DEF WinsNow, WinsOutcome
    <2> QED
      BY <2>5, <2>6, <2>7, <2>8, <2>9, <2>11 DEF LocalsSound, ProcStep
  <1> QED
    BY <1>1, <1>2

\* The local state of a throw.
LEMMA Thrown ==
    ASSUME NEW local \in Local, NEW reason \in ErrorCodes
    PROVE  LET new == [local EXCEPT !.pc = "catch", !.why = "none", !.code = reason]
           IN  /\ new \in Local /\ new.pc = "catch" /\ new.run = local.run
               /\ new.code = reason /\ new.want = local.want /\ new.back = local.back
  BY Places DEF Local, ExecPcs

\* A turn throws into its catch block.
LEMMA ThrowStep ==
    ASSUME LocalsSound, NEW p \in Procs, Turning(proc[p]), Begun(runs', proc[p].run),
           NEW code \in ErrorCodes \ {"none"}, Throw(p, code)
    PROVE  ProcStep(p)
  <1>0. /\ proc[p] \in Local /\ LocalSound(p, proc[p]) /\ p \in Workers
        /\ proc[p].run \in Runs
    BY DEF LocalsSound, LocalSound, Turning, ExecPcs, TurnPcs
  <1> DEFINE reason == IF proc[p].why # "none" THEN proc[p].why ELSE code
             local == [proc[p] EXCEPT !.pc = "catch", !.why = "none", !.code = reason]
  <1>1. reason \in ErrorCodes \ {"none"}
    BY <1>0 DEF Local
  <1>2. proc' = [proc EXCEPT ![p] = local]
    BY <1>0 DEF Throw, LocalsSound, Local
  <1> HIDE DEF reason
  <1>3. /\ local \in Local /\ local.pc = "catch" /\ local.run = proc[p].run
        /\ local.code = reason /\ local.want = proc[p].want /\ local.back = proc[p].back
    BY <1>0, <1>1, Thrown
  <1>4. LocalSound(p, local)
    BY <1>0, <1>1, <1>3 DEF LocalSound, ExecPcs, TurnPcs
  <1>5. Covered(runs', local)
    BY <1>3 DEF Covered
  <1> HIDE DEF local
  <1> QED
    BY <1>0, <1>2, <1>3, <1>4, <1>5 DEF LocalsSound, ProcStep

\* A handler that goes to another place with all its other state.
LEMMA Goes ==
    ASSUME LocalsSound, NEW p \in Procs, NEW pc \in Pcs, GoTo(p, pc)
    PROVE  \E new \in Local :
              /\ proc' = [proc EXCEPT ![p] = new]
              /\ new.pc = pc /\ new.run = proc[p].run /\ new.want = proc[p].want
              /\ new.out = proc[p].out /\ new.why = proc[p].why
              /\ new.code = proc[p].code /\ new.todo = proc[p].todo
              /\ new.back = proc[p].back
  <1>1. PICK old \in Local : old = proc[p]
    BY DEF LocalsSound
  <1>2. PICK new : new = [old EXCEPT !.pc = pc]
    OBVIOUS
  <1>3. /\ new \in Local
        /\ new.pc = pc /\ new.run = old.run /\ new.want = old.want
        /\ new.out = old.out /\ new.why = old.why /\ new.code = old.code
        /\ new.todo = old.todo /\ new.back = old.back
    BY <1>1, <1>2 DEF Local
  <1>4. proc' = [proc EXCEPT ![p] = new]
    BY <1>1, <1>2 DEF GoTo
  <1> QED
    BY <1>1, <1>3, <1>4

\* A handler in a turn that moves on inside it, its run still claimed.
LEMMA StaysInTurn ==
    ASSUME LocalsSound, NEW p \in Procs, Turning(proc[p]), NEW new \in Local,
           proc' = [proc EXCEPT ![p] = new], LocalSound(p, new),
           new.run = proc[p].run, Covered(runs', new),
           new.pc = "effects" => WinsNow(p)
    PROVE  ProcStep(p)
  BY DEF LocalsSound, ProcStep

-----------------------------------------------------------------------------
\* Transactions of the table

\* What every step relies on.
SystemBase == IInv /\ LocalsSound /\ CommitSeen

\* A claimed run stays claimed.
LEMMA BegunStays ==
    ASSUME IInv, [Next]_tableVars, NEW r \in Runs, Begun(runs, r)
    PROVE  Begun(runs', r)
  <1> USE DEF IInv
  <1>1. ASSUME NEW s \in Runs, NEW t \in Threads, createChatThreadRun(s, t)
        PROVE  Begun(runs', r)
    BY <1>1 DEF createChatThreadRun, CanCreate, Exists, Begun, TypeOK
  <1>2. CASE Still
    BY <1>2 DEF Still, Begun
  <1>3. ASSUME NEW s \in Runs, Moved(s)
        PROVE  Begun(runs', r)
    BY <1>3 DEF Moved, Moves, Begun, ACTIVE_RUN_STATUSES
  <1> QED
    BY <1>1, <1>2, <1>3, NextMoves

LEMMA ReadOnlyStep == ASSUME ReadOnly PROVE [Next]_tableVars
  BY DEF ReadOnly

\* A terminal commit with the code of its outcome is a step of the table.
LEMMA Finishes ==
    ASSUME TypeOK, NEW r \in Runs, NEW status \in TerminalStatuses,
           NEW code \in FinishCodes(status), NEW ifStale \in BOOLEAN,
           finishChatThreadRun(r, status, code, ifStale)
    PROVE  /\ Next /\ Begun(runs', r) /\ runs'[r].status = status
           /\ WinsOutcome(r, code)
  <1>1. Next
    BY DEF Next
  <1>2. runs'[r].status = status /\ runs'[r].errorCode = code
    BY DEF finishChatThreadRun, ended, TypeOK, Row
  <1>3. runs[r].status \notin TerminalStatuses
    BY DEF finishChatThreadRun, CanFinish, allowedSourceStatuses, TerminalStatuses,
       ACTIVE_RUN_STATUSES
  <1> QED
    BY <1>1, <1>2, <1>3 DEF Begun, TerminalStatuses, WinsOutcome

\* A transaction of a turn, issued by a handler that is in one.
LEMMA TurnWrites ==
    ASSUME SystemBase, NEW p \in Procs, proc[p].pc \in ExecPcs,
           TurnTransaction(proc[p].run)
    PROVE  Next
  <1>1. proc[p].run \in Runs /\ Claimed(proc[p].run)
    BY DEF SystemBase, LocalsSound, LocalSound, CommitSeen, Covered, Begun, Claimed, Exists,
       ExecPcs, TurnPcs
  <1> QED
    BY <1>1 DEF Next

\* What is left to do after a commit is a list of effects.
LEMMA EffectLists ==
    /\ <<"error", "finish", "release">> \in Seq(Effects)
    /\ <<"stop">> \in Seq(Effects) /\ <<"paused_finish">> \in Seq(Effects)
    /\ <<>> \in Seq(Effects)
    /\ \A c : ReleaseIf(c) \in Seq(Effects)
    /\ \A status : /\ TerminalEvents(status) \in Seq(Effects)
                   /\ TerminalEvents(status) # <<>>
                   /\ ~Releases(TerminalEvents(status))
    /\ ~Releases(<<>>) /\ ~Releases(<<"stop">>) /\ ~Releases(<<"paused_finish">>)
    /\ \A c : Releases(ReleaseIf(c)) => c
    /\ Once(<<"error", "finish", "release">>) /\ Once(<<>>)
    /\ Once(<<"stop">>) /\ Once(<<"paused_finish">>) /\ Once(<<"release">>)
    /\ \A c : Once(ReleaseIf(c)) /\ Announces(ReleaseIf(c)) = {}
    /\ Announces(<<>>) = {} /\ Announces(<<"stop">>) = {}
    /\ Announces(<<"paused_finish">>) = {} /\ Announces(<<"release">>) = {}
  <1>1. /\ <<"error", "finish", "release">> \in Seq(Effects)
        /\ <<"stop">> \in Seq(Effects) /\ <<"paused_finish">> \in Seq(Effects)
        /\ <<>> \in Seq(Effects) /\ <<"release">> \in Seq(Effects)
        /\ <<"finish">> \in Seq(Effects) /\ <<"error", "finish">> \in Seq(Effects)
    BY DEF Effects
  <1>2. <<"finish">> # <<>> /\ <<"error", "finish">> # <<>>
    OBVIOUS
  <1>3. /\ ~Releases(<<>>) /\ ~Releases(<<"stop">>) /\ ~Releases(<<"paused_finish">>)
        /\ ~Releases(<<"finish">>) /\ ~Releases(<<"error", "finish">>)
    BY DEF Releases
  <1>4. /\ Once(<<"error", "finish", "release">>) /\ Once(<<>>)
        /\ Once(<<"stop">>) /\ Once(<<"paused_finish">>) /\ Once(<<"release">>)
    BY DEF Once
  <1>5. /\ Announces(<<>>) = {} /\ Announces(<<"stop">>) = {}
        /\ Announces(<<"paused_finish">>) = {} /\ Announces(<<"release">>) = {}
    BY DEF Announces, Announcements
  <1> QED
    BY <1>1, <1>2, <1>3, <1>4, <1>5 DEF ReleaseIf, TerminalEvents

LEMMA EffectsOfEnd ==
    ASSUME NEW c, NEW status
    PROVE  /\ ReleaseIf(c) \o TerminalEvents(status) \in Seq(Effects)
           /\ ReleaseIf(c) \o TerminalEvents(status) # <<>>
           /\ Releases(ReleaseIf(c) \o TerminalEvents(status)) => c
           /\ Once(ReleaseIf(c) \o TerminalEvents(status))
  <1>1. PICK a, b : a = ReleaseIf(c) /\ b = TerminalEvents(status)
    OBVIOUS
  <1>2. a \in Seq(Effects) /\ b \in Seq(Effects) /\ b # <<>>
    BY <1>1, EffectLists
  <1>3. a \o b \in Seq(Effects) /\ Len(a \o b) = Len(a) + Len(b) /\ Len(b) > 0
    BY <1>2
  <1>4. a \o b # <<>>
    BY <1>2, <1>3
  <1>5. ASSUME Releases(a \o b) PROVE c
    <2>1. ~Releases(b)
      BY <1>1, EffectLists
    <2>2. Releases(a)
      BY <1>2, <1>3, <1>5, <2>1 DEF Releases
    <2> QED
      BY <1>1, <2>2, EffectLists
  <1>6. Once(a \o b)
    <2>1. CASE a = <<>>
      BY <1>1, <2>1 DEF TerminalEvents, Once
    <2>2. CASE a = <<"release">> /\ b = <<"finish">>
      BY <2>2 DEF Once
    <2>3. CASE a = <<"release">> /\ b = <<"error", "finish">>
      BY <2>3 DEF Once
    <2> QED
      BY <1>1, <2>1, <2>2, <2>3 DEF ReleaseIf, TerminalEvents
  <1> QED
    BY <1>1, <1>3, <1>4, <1>5, <1>6

-----------------------------------------------------------------------------
\* Recovery

\* A handler that is not in a turn: sound places to go on at.
Outside(p, local) ==
    /\ local \in Local /\ local.run \in Runs /\ local.back \in Backs
    /\ local.back = "recheck" => local.want \in Runs /\ p \notin Workers

LEMMA AfterRecoverySound ==
    ASSUME NEW p \in Procs, NEW local, Outside(p, local), NEW row
    PROVE  LET new == AfterRecovery(local, row)
           IN  new \in Local /\ LocalSound(p, new) /\ new.pc \notin ExecPcs \cup {"effects"}
  <1>1. CASE local.back = "recheck" /\ row.status \notin TerminalStatuses
    BY <1>1, IdleSound DEF AfterRecovery
  <1>2. CASE ~(local.back = "recheck" /\ row.status \notin TerminalStatuses)
    <2>1. AfterRecovery(local, row) = Resume(local, local.back)
      BY <1>2 DEF AfterRecovery
    <2>2. PICK back \in Backs : back = local.back
      BY DEF Outside
    <2> QED
      BY <2>1, <2>2, ResumeSound DEF Outside
  <1> QED
    BY <1>1, <1>2

\* What recovery decides about a row has the type and the code it needs.
LEMMA VerdictSound ==
    ASSUME NEW row \in Row
    PROVE  /\ snapshotVerdict(row) \in SnapshotOutcomes
           /\ recoveryCode(row) \in ErrorCodes
           /\ recoveryOf(row) \in (RecoveryPcs \ {"recover_stale"}) \cup {"none"}
           /\ recoveryOf(row) \in {"expire", "fail_stale"} => recoveryCode(row) # "none"
           /\ recoveryOf(row) = "finish_snapshot" =>
                 Ending(snapshotVerdict(row), recoveryCode(row))
  <1>1. snapshotVerdict(row) \in SnapshotOutcomes
    BY DEF snapshotVerdict, Row, SnapshotOutcomes, TerminalStatuses
  <1>2. recoveryOf(row) \in (RecoveryPcs \ {"recover_stale"}) \cup {"none"}
    BY DEF recoveryOf, RecoveryPcs
  <1>3. CASE recoveryOf(row) = "expire"
    <2>1. recoveryCode(row) = "TOOL_APPROVAL_EXPIRED"
      BY <1>3 DEF recoveryCode
    <2> QED
      BY <1>1, <1>2, <1>3, <2>1, Places
  <1>4. CASE recoveryOf(row) = "fail_stale"
    <2>1. recoveryCode(row) = staleCode(row)
      BY <1>4 DEF recoveryCode
    <2> QED
      BY <1>1, <1>2, <1>4, <2>1, Places DEF staleCode
  <1>5. CASE recoveryOf(row) = "finish_snapshot"
    <2>1. snapshotVerdict(row) \in TerminalStatuses
      BY <1>1, <1>5 DEF recoveryOf, SnapshotOutcomes
    <2>2. CASE snapshotVerdict(row) = "completed"
      <3>1. recoveryCode(row) = "none"
        BY <1>5, <2>2 DEF recoveryCode
      <3> QED
        BY <1>1, <1>2, <1>5, <2>1, <2>2, <3>1, Places DEF Ending, FinishCodes
    <2>3. CASE snapshotVerdict(row) # "completed"
      <3> DEFINE judged == [row EXCEPT !.status = snapshotVerdict(row)]
      <3>1. recoveryCode(row) = toTerminalRunErrorCode(judged)
        BY <1>5, <2>3 DEF recoveryCode
      <3>2. judged.errorCode \in ErrorCodes
        BY DEF Row
      <3> HIDE DEF judged
      <3>3. recoveryCode(row) \in ErrorCodes \ {"none"}
        BY <3>1, <3>2, Places DEF toTerminalRunErrorCode
      <3> QED
        BY <1>1, <1>2, <1>5, <2>1, <2>3, <3>3 DEF Ending, FinishCodes
    <2> QED
      BY <2>2, <2>3
  <1>6. CASE recoveryOf(row) \notin {"expire", "fail_stale", "finish_snapshot"}
    <2>1. recoveryCode(row) = "none"
      BY <1>6 DEF recoveryCode
    <2> QED
      BY <1>1, <1>2, <1>6, <2>1, Places
  <1> QED
    BY <1>3, <1>4, <1>5, <1>6

\* Whoever starts a recovery knows the run and comes back to a place outside a turn.
LEMMA RecoverySound ==
    ASSUME TypeOK, NEW p \in Procs, NEW r \in Runs, NEW local \in Local,
           local.back \in Backs, local.back = "recheck" => local.want \in Runs /\ p \notin Workers
    PROVE  LET new == failRunIfStale(local, r)
           IN  new \in Local /\ LocalSound(p, new) /\ new.pc \notin ExecPcs \cup {"effects"}
  <1>0. runs[r] \in Row
    BY DEF TypeOK
  <1>1. CASE recoveryOf(runs[r]) = "none"
    <2>1. PICK known : known = [local EXCEPT !.run = r]
      OBVIOUS
    <2>2. Outside(p, known)
      BY <2>1 DEF Outside, Local
    <2>3. failRunIfStale(local, r) = AfterRecovery(known, runs[r])
      BY <1>1, <2>1 DEF failRunIfStale
    <2> QED
      BY <2>2, <2>3, AfterRecoverySound
  <1>2. CASE recoveryOf(runs[r]) # "none"
    <2>1. PICK pc, out, code : /\ pc = recoveryOf(runs[r])
                               /\ out = snapshotVerdict(runs[r])
                               /\ code = recoveryCode(runs[r])
      OBVIOUS
    <2>2. PICK new : new = [local EXCEPT !.pc = pc, !.run = r, !.out = out, !.code = code]
      OBVIOUS
    <2>3. /\ pc \in RecoveryPcs \ {"recover_stale"}
          /\ out \in SnapshotOutcomes /\ code \in ErrorCodes
          /\ pc \in {"expire", "fail_stale"} => code # "none"
          /\ pc = "finish_snapshot" => Ending(out, code)
      BY <1>0, <1>2, <2>1, VerdictSound
    <2>4. pc \in Pcs
      BY <2>3, Places
    <2>5. /\ new \in Local /\ new.pc = pc /\ new.run = r /\ new.out = out
          /\ new.code = code /\ new.want = local.want /\ new.back = local.back
      BY <2>2, <2>3, <2>4 DEF Local
    <2>6. new.pc \notin ExecPcs \cup {"effects"}
      BY <2>3, <2>5 DEF RecoveryPcs, ExecPcs, TurnPcs
    <2>7. LocalSound(p, new)
      BY <2>3, <2>5, <2>6 DEF LocalSound, Turning, RecoveryPcs
    <2>8. failRunIfStale(local, r) = new
      BY <1>2, <2>1, <2>2 DEF failRunIfStale
    <2> QED
      BY <2>5, <2>6, <2>7, <2>8
  <1> QED
    BY <1>1, <1>2

\* A handler at a place outside the turn.
LEMMA IsOutside ==
    ASSUME LocalsSound, NEW p \in Procs,
           proc[p].pc \notin ExecPcs \cup {"boundary", "idle", "recheck", "insert"}
    PROVE  Outside(p, proc[p])
  BY DEF LocalsSound, LocalSound, Outside

LEMMA RecoveredStep ==
    ASSUME LocalsSound, NEW p \in Procs, Outside(p, proc[p]), Recovered(p)
    PROVE  ProcStep(p)
  <1>1. PICK new : new = AfterRecovery(proc[p], runs[proc[p].run])
    OBVIOUS
  <1>2. new \in Local /\ LocalSound(p, new) /\ new.pc \notin ExecPcs \cup {"effects"}
    BY <1>1, AfterRecoverySound
  <1>3. proc' = [proc EXCEPT ![p] = new]
    BY <1>1 DEF Recovered
  <1> QED
    BY <1>2, <1>3, LeavesTurn

LEMMA RecoveryStarts ==
    ASSUME TypeOK, LocalsSound, NEW p \in Procs, NEW r \in Runs, NEW local \in Local,
           local.back \in Backs, local.back = "recheck" => local.want \in Runs /\ p \notin Workers,
           proc' = [proc EXCEPT ![p] = failRunIfStale(local, r)]
    PROVE  ProcStep(p)
  <1>1. PICK new : new = failRunIfStale(local, r)
    OBVIOUS
  <1>2. new \in Local /\ LocalSound(p, new) /\ new.pc \notin ExecPcs \cup {"effects"}
    BY <1>1, RecoverySound
  <1> QED
    BY <1>1, <1>2, LeavesTurn

\* The terminal commits of recovery are followed by their effects.
LEMMA CommitThenDo ==
    ASSUME SystemBase, NEW p \in Procs, Outside(p, proc[p]),
           NEW status \in TerminalStatuses, NEW code \in FinishCodes(status),
           code \in ErrorCodes, NEW ifStale \in BOOLEAN,
           NEW todo \in Seq(Effects), Releases(todo) => status # "completed", Once(todo),
           NEW back \in Backs,
           back = "recheck" => proc[p].want \in Runs /\ p \notin Workers,
           finishChatThreadRun(proc[p].run, status, code, ifStale),
           Do(p, todo, code, back)
    PROVE  ProcStep(p) /\ Next
  <1>1. proc[p].run \in Runs /\ LocalsSound /\ TypeOK
    BY DEF Outside, SystemBase, IInv
  <1>2. /\ Next /\ Begun(runs', proc[p].run) /\ WinsOutcome(proc[p].run, code)
        /\ status # "completed" => GivenUp(runs', proc[p].run)
    BY <1>1, Finishes DEF GivenUp, TerminalStatuses
  <1> QED
    BY <1>1, <1>2, DoStep

\* Each step of recovery is a sound step of the handler that runs it.
LEMMA RecoveryStepSound ==
    ASSUME SystemBase, NEW p \in Procs, RecoveryStep(p)
    PROVE  ProcStep(p) /\ [Next]_tableVars
  <1>0. TypeOK /\ LocalsSound /\ proc[p] \in Local /\ LocalSound(p, proc[p])
    BY DEF SystemBase, IInv, LocalsSound
  <1>a. Outside(p, proc[p])
    BY <1>0, IsOutside DEF RecoveryStep, expireApprovalWaitingRun, At,
       completeApprovalRunIfNoPendingConfirmations, finishRunIfSnapshotIsTerminal,
       recoverIfStillStale, failStaleActiveRun, ExecPcs, TurnPcs
  <1>b. /\ proc[p].run \in Runs /\ proc[p].back \in Backs /\ proc[p].code \in ErrorCodes
        /\ proc[p].back = "recheck" => proc[p].want \in Runs /\ p \notin Workers
    BY <1>0, <1>a DEF Outside, Local
  <1>c. \A c \in ErrorCodes \ {"none"} : c \in FinishCodes("failed") \cap FinishCodes("cancelled")
    BY DEF FinishCodes
  <1>d. "failed" \in TerminalStatuses /\ "cancelled" \in TerminalStatuses
        /\ "completed" \in TerminalStatuses /\ "none" \in FinishCodes("completed")
    BY DEF TerminalStatuses, FinishCodes
  <1>1. CASE expireApprovalWaitingRun(p)
    <2>1. proc[p].code # "none"
      BY <1>0, <1>1 DEF expireApprovalWaitingRun, At, LocalSound
    <2>2. CASE /\ finishChatThreadRun(proc[p].run, "cancelled", proc[p].code, FALSE)
               /\ Do(p, <<"error", "finish", "release">>, proc[p].code, proc[p].back)
      BY <1>a, <1>b, <1>c, <1>d, <2>1, <2>2, EffectLists, CommitThenDo
    <2>3. CASE ReadOnly /\ Recovered(p)
      BY <1>0, <1>a, <2>3, RecoveredStep, ReadOnlyStep
    <2> QED
      BY <1>1, <2>2, <2>3 DEF expireApprovalWaitingRun, Run
  <1>2. CASE completeApprovalRunIfNoPendingConfirmations(p)
    <2>1. CASE /\ finishChatThreadRun(proc[p].run, "completed", "none", FALSE)
               /\ Do(p, <<>>, "none", proc[p].back)
      <3>1. "none" \in ErrorCodes
        BY Places
      <3> QED
        BY <1>a, <1>b, <1>d, <2>1, <3>1, EffectLists, CommitThenDo
    <2>2. CASE /\ ReadOnly
               /\ proc' = [proc EXCEPT ![p] = failRunIfStale(@, @.run)]
      <3>1. proc' = [proc EXCEPT ![p] = failRunIfStale(proc[p], proc[p].run)]
        BY <2>2
      <3> QED
        BY <1>0, <1>b, <2>2, <3>1, RecoveryStarts, ReadOnlyStep
    <2> QED
      BY <1>2, <2>1, <2>2 DEF completeApprovalRunIfNoPendingConfirmations, Run
  <1>3. CASE finishRunIfSnapshotIsTerminal(p)
    <2>1. proc[p].out \in TerminalStatuses /\ proc[p].code \in FinishCodes(proc[p].out)
      BY <1>0, <1>3 DEF finishRunIfSnapshotIsTerminal, At, LocalSound, Ending
    <2>2. CASE /\ finishChatThreadRun(proc[p].run, proc[p].out, proc[p].code, FALSE)
               /\ Do(p, ReleaseIf(proc[p].out # "completed"), proc[p].code, proc[p].back)
      BY <1>a, <1>b, <2>1, <2>2, EffectLists, CommitThenDo
    <2>3. CASE ReadOnly /\ GoTo(p, "recover_stale")
      <3>1. "recover_stale" \in Pcs
        BY Places DEF RecoveryPcs
      <3>2. PICK new \in Local :
               /\ proc' = [proc EXCEPT ![p] = new] /\ new.pc = "recover_stale"
               /\ new.run = proc[p].run /\ new.want = proc[p].want
               /\ new.back = proc[p].back
        BY <1>0, <2>3, <3>1, Goes
      <3>3. LocalSound(p, new) /\ new.pc \notin ExecPcs \cup {"effects"}
        BY <1>b, <3>2 DEF LocalSound, Turning, ExecPcs, TurnPcs
      <3> QED
        BY <1>0, <2>3, <3>2, <3>3, LeavesTurn, ReadOnlyStep
    <2> QED
      BY <1>3, <2>2, <2>3 DEF finishRunIfSnapshotIsTerminal, Run
  <1>4. CASE recoverIfStillStale(p)
    <2>1. CASE isStaleActiveRun(runs[proc[p].run])
      <3>1. PICK old, code : old = proc[p] /\ code = staleCode(runs[proc[p].run])
        OBVIOUS
      <3>2. PICK new : new = [old EXCEPT !.pc = "fail_stale", !.code = code]
        OBVIOUS
      <3>3. code \in ErrorCodes /\ code # "none"
        BY <3>1, Places DEF staleCode
      <3>4. "fail_stale" \in Pcs
        BY Places DEF RecoveryPcs
      <3>5. /\ new \in Local /\ new.pc = "fail_stale" /\ new.run = old.run
            /\ new.want = old.want /\ new.back = old.back /\ new.code = code
        BY <1>0, <3>1, <3>2, <3>3, <3>4 DEF Local
      <3>6. LocalSound(p, new) /\ new.pc \notin ExecPcs \cup {"effects"}
        BY <1>b, <3>1, <3>3, <3>5 DEF LocalSound, Turning, ExecPcs, TurnPcs
      <3>7. proc' = [proc EXCEPT ![p] = new]
        BY <1>4, <2>1, <3>1, <3>2 DEF recoverIfStillStale, Run
      <3> QED
        BY <1>0, <1>4, <3>5, <3>6, <3>7, LeavesTurn, ReadOnlyStep DEF recoverIfStillStale
    <2>2. CASE ~isStaleActiveRun(runs[proc[p].run])
      <3>1. Recovered(p)
        BY <1>4, <2>2 DEF recoverIfStillStale, Recovered, Run
      <3> QED
        BY <1>0, <1>4, <1>a, <3>1, RecoveredStep, ReadOnlyStep DEF recoverIfStillStale
    <2> QED
      BY <2>1, <2>2
  <1>5. CASE failStaleActiveRun(p)
    <2>1. proc[p].code # "none"
      BY <1>0, <1>5 DEF failStaleActiveRun, At, LocalSound
    <2>2. CASE /\ finishChatThreadRun(proc[p].run, "failed", proc[p].code, TRUE)
               /\ Do(p, <<"error", "finish", "release">>, proc[p].code, proc[p].back)
      BY <1>a, <1>b, <1>c, <1>d, <2>1, <2>2, EffectLists, CommitThenDo
    <2>3. CASE ReadOnly /\ Recovered(p)
      BY <1>0, <1>a, <2>3, RecoveredStep, ReadOnlyStep
    <2> QED
      BY <1>5, <2>2, <2>3 DEF failStaleActiveRun, Run
  <1> QED
    BY <1>1, <1>2, <1>3, <1>4, <1>5 DEF RecoveryStep

-----------------------------------------------------------------------------
\* Requests, ticks and deliveries

LEMMA IdleFields ==
    /\ Idle \in Local /\ Idle.pc = "idle" /\ Idle.run = NoRun /\ Idle.want = NoRun
    /\ Idle.out = "open" /\ Idle.why = "none" /\ Idle.code = "none"
    /\ Idle.todo = <<>> /\ Idle.back = "idle"
  <1>1. <<>> \in Seq(Effects)
    OBVIOUS
  <1> QED
    BY <1>1 DEF Idle, Local, Pcs, SnapshotOutcomes, ErrorCodes

\* A handler starts on a run outside the turn.
LEMMA StartSound ==
    ASSUME NEW p \in Procs, NEW r \in Runs,
           NEW pc \in {"request_cancel", "record", "enqueue"}
                     \cup (IF p \in Workers THEN {"job"} ELSE {})
    PROVE  LET new == [Idle EXCEPT !.pc = pc, !.run = r]
           IN  new \in Local /\ LocalSound(p, new) /\ new.pc \notin ExecPcs \cup {"effects"}
  <1>1. PICK idle \in Local : idle = Idle
    BY IdleFields
  <1>2. PICK new : new = [idle EXCEPT !.pc = pc, !.run = r]
    OBVIOUS
  <1>3. pc \in Pcs
    BY Places
  <1>4. /\ new \in Local /\ new.pc = pc /\ new.run = r
        /\ new.back = idle.back /\ new.want = idle.want
    BY <1>2, <1>3 DEF Local
  <1>5. LocalSound(p, new) /\ new.pc \notin ExecPcs \cup {"effects"}
    BY <1>1, <1>4, IdleFields DEF LocalSound, Turning, ExecPcs, TurnPcs, Backs
  <1> QED
    BY <1>1, <1>2, <1>4, <1>5

LEMMA BeginSound ==
    ASSUME SystemBase, NEW p \in Procs, Begin(p)
    PROVE  ProcStep(p) /\ [Next]_tableVars
  <1>0. TypeOK /\ LocalsSound
    BY DEF SystemBase, IInv
  <1>a. ReadOnly
    BY DEF Begin, getOrCreateRun, stopRun, validateConfirmationResponse, readRun, sweep,
       Deliver
  <1>b. SUFFICES ProcStep(p)
    BY <1>a, ReadOnlyStep
  <1>c. Idle \in Local /\ Idle.back \in Backs /\ Idle.back # "recheck"
    BY IdleFields DEF Backs
  <1>1. ASSUME NEW r \in Runs, getOrCreateRun(p, r)
        PROVE  ProcStep(p)
    <2>0. p \notin Workers
      BY <1>1, DurableRunAssumption DEF getOrCreateRun
    <2>1. PICK idle \in Local : idle = Idle
      BY IdleFields
    <2>2. PICK request : request = [idle EXCEPT !.pc = "recheck", !.want = r,
                                                !.back = "recheck"]
      OBVIOUS
    <2>3. "recheck" \in Pcs
      BY Places
    <2>4. /\ request \in Local /\ request.pc = "recheck" /\ request.want = r
          /\ request.back = "recheck"
      BY <2>2, <2>3 DEF Local
    <2>5. CASE ActiveOn(ThreadOf[r]) = {}
      <3>1. proc' = [proc EXCEPT ![p] = request]
        BY <1>1, <2>1, <2>2, <2>5 DEF getOrCreateRun
      <3>2. LocalSound(p, request) /\ request.pc \notin ExecPcs \cup {"effects"}
        BY <2>0, <2>4 DEF LocalSound, Turning, ExecPcs, TurnPcs, Backs
      <3> QED
        BY <1>0, <2>4, <3>1, <3>2, LeavesTurn
    <2>6. CASE ActiveOn(ThreadOf[r]) # {}
      <3>1. PICK a : a = CHOOSE b \in ActiveOn(ThreadOf[r]) : TRUE
        OBVIOUS
      <3>2. a \in Runs
        BY <2>6, <3>1 DEF ActiveOn
      <3>3. proc' = [proc EXCEPT ![p] = failRunIfStale(request, a)]
        BY <1>1, <2>1, <2>2, <2>6, <3>1 DEF getOrCreateRun
      <3> QED
        BY <1>0, <2>0, <2>4, <3>2, <3>3, RecoveryStarts DEF Backs
    <2> QED
      BY <2>5, <2>6
  <1>2. ASSUME NEW r \in Runs, stopRun(p, r)
        PROVE  ProcStep(p)
    BY <1>0, <1>2, StartSound, LeavesTurn DEF stopRun
  <1>3. ASSUME NEW r \in Runs, validateConfirmationResponse(p, r)
        PROVE  ProcStep(p)
    <2>1. CASE isApprovalWaitingRunExpired(runs[r])
      <3>1. PICK idle \in Local : idle = Idle
        BY IdleFields
      <3>2. PICK new : new = [idle EXCEPT !.pc = "expire", !.run = r,
                                          !.code = "TOOL_APPROVAL_EXPIRED"]
        OBVIOUS
      <3>3. "expire" \in Pcs /\ "TOOL_APPROVAL_EXPIRED" \in ErrorCodes
        BY Places DEF RecoveryPcs
      <3>4. /\ new \in Local /\ new.pc = "expire" /\ new.run = r
            /\ new.code = "TOOL_APPROVAL_EXPIRED"
            /\ new.back = idle.back /\ new.want = idle.want
        BY <3>2, <3>3 DEF Local
      <3>5. LocalSound(p, new) /\ new.pc \notin ExecPcs \cup {"effects"}
        BY <3>1, <3>4, IdleFields DEF LocalSound, Turning, ExecPcs, TurnPcs, Backs
      <3>6. proc' = [proc EXCEPT ![p] = new]
        BY <1>3, <2>1, <3>1, <3>2 DEF validateConfirmationResponse
      <3> QED
        BY <1>0, <3>4, <3>5, <3>6, LeavesTurn
    <2>2. CASE ~isApprovalWaitingRunExpired(runs[r])
      <3>1. proc' = [proc EXCEPT ![p] = [Idle EXCEPT !.pc = "record", !.run = r]]
        BY <1>3, <2>2 DEF validateConfirmationResponse
      <3> QED
        BY <1>0, <3>1, StartSound, LeavesTurn
    <2> QED
      BY <2>1, <2>2
  <1>4. ASSUME NEW r \in Runs, readRun(p, r) \/ sweep(p, r)
        PROVE  ProcStep(p)
    <2>1. proc' = [proc EXCEPT ![p] = failRunIfStale(Idle, r)]
      BY <1>4 DEF readRun, sweep
    <2> QED
      BY <1>0, <1>c, <2>1, RecoveryStarts
  <1>5. ASSUME NEW r \in Runs, Deliver(p, r)
        PROVE  ProcStep(p)
    BY <1>0, <1>5, StartSound, LeavesTurn DEF Deliver
  <1> QED
    BY <1>1, <1>2, <1>3, <1>4, <1>5 DEF Begin

\* A handler outside the turn that only changes its place.
LEMMA GoesOutside ==
    ASSUME LocalsSound, NEW p \in Procs, NEW pc, GoTo(p, pc),
           pc \in {"insert", "mark_queued", "start_failed", "force_cancel", "job"},
           proc[p].back \in Backs, proc[p].back = "recheck" => proc[p].want \in Runs /\ p \notin Workers,
           pc = "insert" => proc[p].want \in Runs /\ p \notin Workers,
           pc # "insert" => proc[p].run \in Runs,
           pc = "job" => p \in Workers
    PROVE  ProcStep(p)
  <1>1. pc \in Pcs
    BY Places DEF Backs
  <1>2. PICK new \in Local :
           /\ proc' = [proc EXCEPT ![p] = new] /\ new.pc = pc
           /\ new.run = proc[p].run /\ new.want = proc[p].want
           /\ new.back = proc[p].back
    BY <1>1, Goes
  <1>3. LocalSound(p, new) /\ new.pc \notin ExecPcs \cup {"effects"}
    BY <1>2 DEF LocalSound, Turning, ExecPcs, TurnPcs
  <1> QED
    BY <1>2, <1>3, LeavesTurn

LEMMA CreateStepSound ==
    ASSUME SystemBase, NEW p \in Procs, CreateStep(p)
    PROVE  ProcStep(p) /\ [Next]_tableVars
  <1>0. TypeOK /\ LocalsSound /\ proc[p] \in Local /\ LocalSound(p, proc[p])
    BY DEF SystemBase, IInv, LocalsSound
  <1>a. proc[p].back \in Backs /\ (proc[p].back = "recheck" => proc[p].want \in Runs /\ p \notin Workers)
    BY <1>0 DEF LocalSound, CreateStep, recheckActiveRun, insertRun,
       enqueueThreadChatRunJob, enqueueFails, failRunBeforeMessages, markQueued, At,
       ExecPcs, TurnPcs
  <1>1. CASE recheckActiveRun(p)
    <2>1. proc[p].want \in Runs /\ p \notin Workers
      BY <1>0, <1>1 DEF recheckActiveRun, At, LocalSound
    <2>2. CASE GoTo(p, "insert")
      BY <1>0, <1>1, <1>a, <2>1, <2>2, GoesOutside, ReadOnlyStep DEF recheckActiveRun
    <2>3. CASE End(p)
      BY <1>0, <1>1, <2>1, <2>3, EndStep, ReadOnlyStep DEF recheckActiveRun
    <2> QED
      BY <1>1, <2>2, <2>3 DEF recheckActiveRun
  <1>2. CASE insertRun(p)
    <2>1. proc[p].want \in Runs /\ p \notin Workers
      BY <1>0, <1>2 DEF insertRun, At, LocalSound
    <2>2. CASE /\ createChatThreadRun(proc[p].want, ThreadOf[proc[p].want])
               /\ proc' = [proc EXCEPT ![p] = [Idle EXCEPT !.pc = "enqueue",
                                                            !.run = proc[p].want]]
      <3>1. ThreadOf[proc[p].want] \in Threads
        BY <2>1, DurableRunAssumption
      <3>2. Next
        BY <2>1, <2>2, <3>1 DEF Next
      <3> QED
        BY <1>0, <2>1, <2>2, <3>2, StartSound, LeavesTurn
    <2>3. CASE ReadOnly /\ End(p)
      BY <1>0, <2>1, <2>3, EndStep, ReadOnlyStep
    <2> QED
      BY <1>2, <2>2, <2>3 DEF insertRun
  <1>3. CASE enqueueThreadChatRunJob(p) \/ enqueueFails(p)
    <2>1. proc[p].run \in Runs
      BY <1>0, <1>3 DEF enqueueThreadChatRunJob, enqueueFails, At, LocalSound
    <2>2. GoTo(p, "mark_queued") \/ GoTo(p, "start_failed")
      BY <1>3 DEF enqueueThreadChatRunJob, enqueueFails
    <2>3. ReadOnly
      BY <1>3 DEF enqueueThreadChatRunJob, enqueueFails
    <2> QED
      BY <1>0, <1>a, <2>1, <2>2, <2>3, GoesOutside, ReadOnlyStep
  <1>4. CASE failRunBeforeMessages(p)
    <2>1. Outside(p, proc[p])
      BY <1>0, <1>4, IsOutside DEF failRunBeforeMessages, At, ExecPcs, TurnPcs
    <2>2. CASE /\ finishChatThreadRun(proc[p].run, "failed", "CHAT_RUN_START_FAILED", FALSE)
               /\ Do(p, <<"error", "finish", "release">>, "CHAT_RUN_START_FAILED", "idle")
      <3>1. /\ "failed" \in TerminalStatuses /\ "idle" \in Backs
            /\ "CHAT_RUN_START_FAILED" \in ErrorCodes
            /\ "CHAT_RUN_START_FAILED" \in FinishCodes("failed")
        BY Places DEF TerminalStatuses, Backs, FinishCodes
      <3> QED
        BY <2>1, <2>2, <3>1, EffectLists, CommitThenDo
    <2>3. CASE ReadOnly /\ End(p)
      BY <1>0, <2>1, <2>3, EndStep, ReadOnlyStep DEF Outside
    <2> QED
      BY <1>4, <2>2, <2>3 DEF failRunBeforeMessages, Run
  <1>5. CASE markQueued(p)
    <2>1. proc[p].run \in Runs
      BY <1>0, <1>5 DEF markQueued, At, LocalSound
    <2>2. Next
      BY <1>5, <2>1 DEF Next, markQueued, Run
    <2> QED
      BY <1>0, <1>5, <2>1, <2>2, EndStep DEF markQueued
  <1> QED
    BY <1>1, <1>2, <1>3, <1>4, <1>5 DEF CreateStep

LEMMA StopStepSound ==
    ASSUME SystemBase, NEW p \in Procs, StopStep(p)
    PROVE  ProcStep(p) /\ [Next]_tableVars
  <1>0. TypeOK /\ LocalsSound
    BY DEF SystemBase, IInv
  <1>a. Outside(p, proc[p])
    BY <1>0, IsOutside DEF StopStep, requestCancel, forceCancelStoppedRun, At, ExecPcs,
       TurnPcs
  <1>b. /\ "force_cancel" \in Backs /\ "idle" \in Backs /\ "none" \in ErrorCodes
        /\ "cancelled" \in TerminalStatuses /\ "CLIENT_CANCELLED" \in ErrorCodes
        /\ "CLIENT_CANCELLED" \in FinishCodes("cancelled")
    BY Places DEF Backs, TerminalStatuses, FinishCodes
  <1>1. CASE requestCancel(p)
    <2>1. CASE requestChatThreadRunCancel(proc[p].run)
      <3>1. Next
        BY <1>a, <2>1 DEF Next, Outside
      <3>2. CASE End(p)
        BY <1>0, <1>a, <3>1, <3>2, EndStep DEF Outside
      <3>3. CASE /\ ~hasCommittedArtifactPublication(runs[proc[p].run])
                 /\ Do(p, <<"stop">>, "none", "force_cancel")
        <4>1. proc[p].run \in Runs
          BY <1>a DEF Outside
        <4>2. runs'[proc[p].run].status = "cancel_requested"
          BY <1>0, <2>1, <3>3, <4>1 DEF requestChatThreadRunCancel, TypeOK, Row
        <4>3. Begun(runs', proc[p].run)
          BY <4>2 DEF Begun
        <4> QED
          BY <1>0, <1>b, <3>1, <3>3, <4>1, <4>3, EffectLists, DoStep
      <3> QED
        BY <1>1, <1>a, <2>1, <3>2, <3>3 DEF requestCancel, Run, CanRequestCancel,
           requestChatThreadRunCancel
    <2>2. CASE ReadOnly /\ (End(p) \/ GoTo(p, "force_cancel"))
      <3>1. CASE End(p)
        BY <1>0, <1>a, <2>2, <3>1, EndStep, ReadOnlyStep DEF Outside
      <3>2. CASE GoTo(p, "force_cancel")
        BY <1>0, <1>a, <2>2, <3>2, GoesOutside, ReadOnlyStep DEF Outside
      <3> QED
        BY <2>2, <3>1, <3>2
    <2> QED
      BY <1>1, <2>1, <2>2 DEF requestCancel, Run
  <1>2. CASE forceCancelStoppedRun(p)
    <2>1. CASE /\ finishChatThreadRun(proc[p].run, "cancelled", "CLIENT_CANCELLED", FALSE)
               /\ Do(p, <<"error", "finish", "release">>, "CLIENT_CANCELLED", "idle")
      BY <1>a, <1>b, <2>1, EffectLists, CommitThenDo
    <2>2. CASE ReadOnly /\ End(p)
      BY <1>0, <1>a, <2>2, EndStep, ReadOnlyStep DEF Outside
    <2> QED
      BY <1>2, <2>1, <2>2 DEF forceCancelStoppedRun, Run
  <1> QED
    BY <1>1, <1>2 DEF StopStep

LEMMA RecordSound ==
    ASSUME SystemBase, NEW p \in Procs, recordConfirmationResponse(p)
    PROVE  ProcStep(p) /\ [Next]_tableVars
  <1>1. LocalsSound /\ proc[p].run \in Runs /\ End(p)
    BY DEF SystemBase, LocalsSound, LocalSound, recordConfirmationResponse, At
  <1>2. [Next]_tableVars
    BY <1>1, ReadOnlyStep DEF recordConfirmationResponse, Run, Next
  <1> QED
    BY <1>1, <1>2, EndStep

\* The steps of a delivery before and after its turn.  The claim is the one step
\* that enters a turn; it finds the run unclaimed.
LEMMA JobStepSound ==
    ASSUME SystemBase, NEW p \in Procs, JobStep(p)
    PROVE  ProcStep(p) /\ [Next]_tableVars
  <1>0. TypeOK /\ LocalsSound /\ proc[p] \in Local /\ LocalSound(p, proc[p])
    BY DEF SystemBase, IInv, LocalsSound
  <1>a. Outside(p, proc[p])
    BY <1>0, IsOutside DEF JobStep, processRunJob, claimRun, cancelRunBeforeMessages,
       JobReturns, At, ExecPcs, TurnPcs
  <1>b. proc[p].run \in Runs /\ runs[proc[p].run] \in Row
    BY <1>0, <1>a DEF Outside, TypeOK
  <1>1. CASE processRunJob(p)
    <2>0. p \in Workers /\ ReadOnly
      BY <1>0, <1>1 DEF processRunJob, At, LocalSound
    <2>1. PICK old \in Local : old = proc[p]
      BY <1>0
    <2>2. CASE runs[proc[p].run].status \in {"queued", "cancel_requested"}
      <3>1. PICK pc \in {"claim", "cancel_before"} : proc' = [proc EXCEPT ![p].pc = pc]
        BY <1>1, <2>2 DEF processRunJob, Run
      <3>2. pc \in Pcs /\ GoTo(p, pc)
        BY <3>1, Places DEF GoTo
      <3>3. PICK new \in Local :
               /\ proc' = [proc EXCEPT ![p] = new] /\ new.pc = pc
               /\ new.run = proc[p].run /\ new.want = proc[p].want
               /\ new.back = proc[p].back
        BY <1>0, <3>2, Goes
      <3>4. LocalSound(p, new) /\ new.pc \notin ExecPcs \cup {"effects"}
        BY <1>a, <2>0, <3>1, <3>3 DEF LocalSound, Turning, ExecPcs, TurnPcs, Outside
      <3> QED
        BY <1>0, <2>0, <3>3, <3>4, LeavesTurn, ReadOnlyStep
    <2>3. CASE /\ runs[proc[p].run].status = "running"
               /\ isStaleActiveRun(runs[proc[p].run])
      <3>1. PICK local : local = [old EXCEPT !.back = "return"]
        OBVIOUS
      <3>2. "return" \in Pcs /\ "return" \in Backs
        BY Places DEF Backs
      <3>3. local \in Local /\ local.back = "return"
        BY <2>1, <3>1, <3>2 DEF Local
      <3>4. proc' = [proc EXCEPT ![p] = failRunIfStale(local, proc[p].run)]
        BY <1>1, <2>1, <2>3, <3>1 DEF processRunJob, Run
      <3> QED
        BY <1>0, <1>b, <2>0, <3>2, <3>3, <3>4, RecoveryStarts, ReadOnlyStep
    <2>4. CASE /\ runs[proc[p].run].status \notin {"queued", "cancel_requested"}
               /\ ~(runs[proc[p].run].status = "running"
                      /\ isStaleActiveRun(runs[proc[p].run]))
      <3>1. proc' = [proc EXCEPT ![p] = Resume(proc[p], "return")]
        BY <1>1, <2>4 DEF processRunJob, Run
      <3> QED
        BY <1>0, <1>b, <2>0, <3>1, ResumeSound, LeavesTurn, ReadOnlyStep DEF Backs
    <2> QED
      BY <2>2, <2>3, <2>4
  <1>2. CASE claimRun(p)
    <2>0. p \in Workers
      BY <1>0, <1>2 DEF claimRun, At, LocalSound
    <2>1. CASE markChatThreadRunRunning(proc[p].run) /\ GoTo(p, "turn")
      <3>1. Next
        BY <1>b, <2>1 DEF Next
      <3>2. ~Begun(runs, proc[p].run) /\ Begun(runs', proc[p].run)
        BY <1>0, <1>b, <2>1 DEF markChatThreadRunRunning, CanStart, Begun, TypeOK, Row
      <3>3. "turn" \in Pcs
        BY Places DEF ExecPcs, TurnPcs
      <3>4. PICK new \in Local :
               /\ proc' = [proc EXCEPT ![p] = new] /\ new.pc = "turn"
               /\ new.run = proc[p].run /\ new.want = proc[p].want
               /\ new.back = proc[p].back
        BY <1>0, <2>1, <3>3, Goes
      <3>5. LocalSound(p, new)
        BY <1>a, <2>0, <3>4 DEF LocalSound, ExecPcs, TurnPcs, Outside
      <3>6. Covered(runs', new)
        BY <3>2, <3>4 DEF Covered
      <3> QED
        BY <1>0, <3>1, <3>2, <3>4, <3>5, <3>6 DEF LocalsSound, ProcStep
    <2>2. CASE ReadOnly /\ GoTo(p, "job")
      BY <1>0, <1>a, <2>0, <2>2, GoesOutside, ReadOnlyStep DEF Outside
    <2> QED
      BY <1>2, <2>1, <2>2 DEF claimRun, Run
  <1>3. CASE cancelRunBeforeMessages(p)
    <2>1. CASE /\ finishChatThreadRun(proc[p].run, "cancelled", "CLIENT_CANCELLED", FALSE)
               /\ Do(p, <<"error", "finish", "release">>, "CLIENT_CANCELLED", "return")
      <3>1. /\ "return" \in Backs /\ "cancelled" \in TerminalStatuses
            /\ "CLIENT_CANCELLED" \in ErrorCodes
            /\ "CLIENT_CANCELLED" \in FinishCodes("cancelled")
        BY Places DEF Backs, TerminalStatuses, FinishCodes
      <3> QED
        BY <1>a, <2>1, <3>1, EffectLists, CommitThenDo
    <2>2. CASE ReadOnly /\ End(p)
      BY <1>0, <1>b, <2>2, EndStep, ReadOnlyStep
    <2> QED
      BY <1>3, <2>1, <2>2 DEF cancelRunBeforeMessages, Run
  <1>4. CASE JobReturns(p)
    BY <1>0, <1>4, IdleSound, LeavesTurn, ReadOnlyStep DEF JobReturns
  <1> QED
    BY <1>1, <1>2, <1>3, <1>4 DEF JobStep

-----------------------------------------------------------------------------
\* The turn

LEMMA TurnFacts ==
    ASSUME SystemBase, NEW p \in Procs, Turning(proc[p])
    PROVE  /\ TypeOK /\ LocalsSound /\ proc[p] \in Local /\ LocalSound(p, proc[p])
           /\ p \in Workers /\ proc[p].run \in Runs /\ runs[proc[p].run] \in Row
           /\ Begun(runs, proc[p].run)
           /\ [Next]_tableVars => Begun(runs', proc[p].run)
  <1>1. /\ TypeOK /\ LocalsSound /\ proc[p] \in Local /\ LocalSound(p, proc[p])
    BY DEF SystemBase, IInv, LocalsSound
  <1>2. p \in Workers /\ proc[p].run \in Runs
    BY <1>1 DEF LocalSound, Turning, ExecPcs, TurnPcs
  <1>3. Begun(runs, proc[p].run)
    BY DEF SystemBase, CommitSeen, Covered, Turning
  <1>4. [Next]_tableVars => Begun(runs', proc[p].run)
    BY <1>2, <1>3, BegunStays DEF SystemBase
  <1>5. runs[proc[p].run] \in Row
    BY <1>1, <1>2 DEF TypeOK
  <1> QED
    BY <1>1, <1>2, <1>3, <1>4, <1>5

\* Whoever finds a claimed run no longer running has an error to stop with.
LEMMA StopErrors ==
    ASSUME NEW row \in Row
    PROVE  /\ toRunStopError(row) \in ErrorCodes
           /\ row.status # "running" => toRunStopError(row) # "none"
  <1>1. /\ toTerminalRunErrorCode(row) \in ErrorCodes \ {"none"}
    BY Places DEF toTerminalRunErrorCode, Row
  <1> QED
    BY <1>1, Places DEF toRunStopError

\* A turn that ends its handler.
LEMMA TurnEnds ==
    ASSUME SystemBase, NEW p \in Procs, Turning(proc[p]), End(p)
    PROVE  ProcStep(p)
  BY TurnFacts, EndStep

\* A turn that throws while the table takes a step.
LEMMA TurnThrows ==
    ASSUME SystemBase, NEW p \in Procs, Turning(proc[p]), [Next]_tableVars,
           NEW code \in ErrorCodes \ {"none"}, Throw(p, code)
    PROVE  ProcStep(p)
  BY TurnFacts, ThrowStep

\* A turn that changes its place, and keeps what the place needs.
LEMMA TurnGoes ==
    ASSUME SystemBase, NEW p \in Procs, Turning(proc[p]), [Next]_tableVars,
           NEW pc \in ExecPcs, GoTo(p, pc),
           pc \in {"push", "progress"} => /\ proc[p].back \in {"turn", "tail", "persist"}
                                          /\ proc[p].back = "persist" => proc[p].code # "none",
           pc \in {"catch", "flush", "persist"} => proc[p].code # "none",
           \/ pc \in {"tail", "commit"}
           \/ pc \in {"push", "progress"} /\ proc[p].back = "tail"
           => proc[p].out = "paused" \/ Ending(proc[p].out, proc[p].code)
    PROVE  ProcStep(p)
  <1>0. /\ LocalsSound /\ LocalSound(p, proc[p]) /\ p \in Workers
        /\ proc[p].run \in Runs /\ Begun(runs', proc[p].run)
    BY TurnFacts
  <1>1. pc \in Pcs
    BY Places
  <1>2. PICK new \in Local :
           /\ proc' = [proc EXCEPT ![p] = new]
           /\ new.pc = pc /\ new.run = proc[p].run /\ new.want = proc[p].want
           /\ new.out = proc[p].out /\ new.code = proc[p].code
           /\ new.back = proc[p].back
    BY <1>0, <1>1, Goes
  <1>a. proc[p].back = "recheck" => proc[p].want \in Runs /\ p \notin Workers
    BY <1>0 DEF LocalSound
  <1>b. pc \notin {"idle", "recheck", "insert", "effects", "expire", "fail_stale",
                  "boundary", "finish_snapshot"}
    BY DEF ExecPcs, TurnPcs
  <1>3. LocalSound(p, new)
    BY <1>0, <1>2, <1>a, <1>b DEF LocalSound
  <1>4. Covered(runs', new)
    BY <1>0, <1>2, <1>b DEF Covered
  <1> QED
    BY <1>0, <1>2, <1>b, <1>3, <1>4, StaysInTurn

\* A turn that changes its place together with what else the place needs.
LEMMA TurnSets ==
    ASSUME SystemBase, NEW p \in Procs, Turning(proc[p]), [Next]_tableVars,
           NEW new \in Local, proc' = [proc EXCEPT ![p] = new],
           new.run = proc[p].run, new.want = proc[p].want, new.pc \in ExecPcs,
           new.back = "recheck" => new.back = proc[p].back,
           new.pc \in {"push", "progress"} => new.back \in {"turn", "tail", "persist"},
           new.pc \in {"push", "progress"} /\ new.back = "persist" => new.code # "none",
           new.pc \in {"catch", "flush", "persist"} => new.code # "none",
           \/ new.pc \in {"tail", "commit"}
           \/ new.pc \in {"push", "progress"} /\ new.back = "tail"
           => new.out = "paused" \/ Ending(new.out, new.code)
    PROVE  ProcStep(p)
  <1>0. /\ LocalsSound /\ LocalSound(p, proc[p]) /\ p \in Workers
        /\ proc[p].run \in Runs /\ Begun(runs', proc[p].run)
    BY TurnFacts
  <1>1. proc[p].back = "recheck" => proc[p].want \in Runs /\ p \notin Workers
    BY <1>0 DEF LocalSound
  <1>2. new.pc \notin {"idle", "recheck", "insert", "effects", "expire", "fail_stale",
                      "boundary", "finish_snapshot"}
    BY DEF ExecPcs, TurnPcs
  <1>3. LocalSound(p, new)
    BY <1>0, <1>1, <1>2 DEF LocalSound
  <1>4. Covered(runs', new)
    BY <1>0, <1>2 DEF Covered
  <1> QED
    BY <1>0, <1>2, <1>3, <1>4, StaysInTurn

\* The effects of the turn's own commit.
LEMMA CommitEffectsStep ==
    ASSUME SystemBase, NEW p \in Procs, Turning(proc[p]), [Next]_tableVars,
           proc[p].out # "open", NEW todo \in Seq(Effects), todo # <<>>,
           Releases(todo) => GivenUp(runs', proc[p].run),
           Once(todo), Announces(todo) # {} => WinsOutcome(proc[p].run, proc[p].code),
           CommitEffects(p, todo)
    PROVE  ProcStep(p)
  <1>0. /\ LocalsSound /\ LocalSound(p, proc[p]) /\ p \in Workers /\ proc[p] \in Local
        /\ proc[p].run \in Runs /\ Begun(runs', proc[p].run)
    BY TurnFacts
  <1>1. "effects" \in Pcs /\ "return" \in Pcs
    BY Places DEF Backs
  <1>2. PICK old \in Local : old = proc[p]
    BY <1>0
  <1>3. PICK new : new = [old EXCEPT !.pc = "effects", !.todo = todo, !.back = "return"]
    OBVIOUS
  <1>4. /\ new \in Local
        /\ new.pc = "effects" /\ new.run = old.run /\ new.want = old.want
        /\ new.out = old.out /\ new.back = "return" /\ new.todo = todo
        /\ new.code = old.code
    BY <1>1, <1>3 DEF Local
  <1>5. LocalSound(p, new)
    BY <1>0, <1>2, <1>4 DEF LocalSound, ExecPcs, TurnPcs, Backs
  <1>6. proc' = [proc EXCEPT ![p] = new]
    BY <1>0, <1>2, <1>3 DEF CommitEffects, LocalsSound, Local
  <1>7. Covered(runs', new)
    BY <1>0, <1>2, <1>4 DEF Covered, Told, WinsOutcome
  <1>8. proc'[p] = new
    BY <1>0, <1>6 DEF LocalsSound
  <1>9. WinsNow(p)
    BY <1>2, <1>4, <1>8 DEF WinsNow, WinsOutcome
  <1> QED
    BY <1>0, <1>2, <1>4, <1>5, <1>6, <1>7, <1>9, StaysInTurn

LEMMA HeartbeatSound ==
    ASSUME SystemBase, NEW p \in Procs, heartbeat(p)
    PROVE  ProcStep(p) /\ [Next]_tableVars
  <1>1. proc[p].pc \in {"turn", "tail"} /\ proc[p].pc \in ExecPcs /\ Turning(proc[p])
    BY DEF heartbeat, At, Turning, ExecPcs, TurnPcs
  <1>2. /\ LocalsSound /\ LocalSound(p, proc[p]) /\ proc[p] \in Local
        /\ runs[proc[p].run] \in Row
    BY <1>1, TurnFacts
  <1>3. touchChatThreadRunHeartbeat(proc[p].run) => [Next]_tableVars
    BY <1>1, TurnWrites DEF TurnTransaction
  <1>4. CASE /\ touchChatThreadRunHeartbeat(proc[p].run)
             /\ proc' = [proc EXCEPT ![p].pc = "push", ![p].back = proc[p].pc]
    <2>1. PICK old \in Local : old = proc[p]
      BY <1>2
    <2>2. PICK new : new = [old EXCEPT !.pc = "push", !.back = old.pc]
      OBVIOUS
    <2>3. "push" \in Pcs /\ "push" \in ExecPcs /\ old.pc \in Pcs
      BY <2>1, Places DEF ExecPcs, TurnPcs, Local
    <2>4. /\ new \in Local /\ new.pc = "push" /\ new.back = old.pc /\ new.run = old.run
          /\ new.want = old.want /\ new.out = old.out /\ new.code = old.code
      BY <2>2, <2>3 DEF Local
    <2>5. proc' = [proc EXCEPT ![p] = new]
      BY <1>2, <1>4, <2>1, <2>2 DEF LocalsSound, Local
    <2>6. new.back = "tail" => new.out = "paused" \/ Ending(new.out, new.code)
      BY <1>2, <2>1, <2>4 DEF LocalSound
    <2> QED
      BY <1>1, <1>3, <1>4, <2>1, <2>3, <2>4, <2>5, <2>6, TurnSets
  <1>5. CASE /\ runs[proc[p].run].status # "running"
             /\ \/ touchChatThreadRunHeartbeat(proc[p].run)
                \/ ReadOnly
             /\ Throw(p, toRunStopError(runs[proc[p].run]))
    <2>1. PICK code : code = toRunStopError(runs[proc[p].run])
      OBVIOUS
    <2>2. code \in ErrorCodes \ {"none"}
      BY <1>2, <1>5, <2>1, StopErrors
    <2> QED
      BY <1>1, <1>3, <1>5, <2>1, <2>2, TurnThrows, ReadOnlyStep
  <1> QED
    BY <1>4, <1>5 DEF heartbeat, Run

LEMMA EventSound ==
    ASSUME SystemBase, NEW p \in Procs, appendEvent(p) \/ appendRunEvent(p)
    PROVE  ProcStep(p) /\ [Next]_tableVars
  <1>1. proc[p].pc \in {"push", "progress"} /\ proc[p].pc \in ExecPcs /\ Turning(proc[p])
    BY DEF appendEvent, appendRunEvent, At, Turning, ExecPcs, TurnPcs
  <1>2. LocalSound(p, proc[p]) /\ proc[p] \in Local
    BY <1>1, TurnFacts
  <1>3. /\ proc[p].back \in {"turn", "tail", "persist"}
        /\ proc[p].back = "persist" => proc[p].code # "none"
        /\ proc[p].back = "tail" => proc[p].out = "paused" \/ Ending(proc[p].out, proc[p].code)
    BY <1>1, <1>2 DEF LocalSound
  <1>4. "progress" \in ExecPcs /\ proc[p].back \in ExecPcs
    BY <1>3 DEF ExecPcs, TurnPcs
  <1>5. CASE appendEvent(p)
    BY <1>1, <1>3, <1>4, <1>5, TurnGoes, ReadOnlyStep DEF appendEvent
  <1>6. CASE appendRunEvent(p)
    <2>1. [Next]_tableVars
      <3>1. PICK snap : snap = IF proc[p].out = "paused" THEN "open" ELSE proc[p].out
        OBVIOUS
      <3>2. snap \in SnapshotOutcomes
        BY <1>2, <3>1, Places DEF Local
      <3>3. CASE \E knowsCall \in BOOLEAN :
                    updateChatThreadRunProgress(proc[p].run, snap, knowsCall)
        BY <1>1, <3>2, <3>3, TurnWrites DEF TurnTransaction
      <3>4. CASE ReadOnly
        BY <3>4, ReadOnlyStep
      <3> QED
        BY <1>6, <3>1, <3>3, <3>4 DEF appendRunEvent, Run
    <2>2. GoTo(p, proc[p].back)
      BY <1>6 DEF appendRunEvent
    <2>3. PICK back : back = proc[p].back
      OBVIOUS
    <2> QED
      BY <1>1, <1>3, <1>4, <2>1, <2>2, <2>3, TurnGoes
  <1> QED
    BY <1>5, <1>6

LEMMA StreamEndsSound ==
    ASSUME SystemBase, NEW p \in Procs, streamEnds(p) \/ turnThrows(p) \/ startTerminalCommit(p)
    PROVE  ProcStep(p) /\ [Next]_tableVars
  <1>1. proc[p].pc \in {"turn", "tail"} /\ Turning(proc[p]) /\ [Next]_tableVars
    BY ReadOnlyStep DEF streamEnds, turnThrows, startTerminalCommit, At, Turning, ExecPcs,
       TurnPcs
  <1>2. LocalsSound /\ LocalSound(p, proc[p]) /\ proc[p] \in Local
    BY <1>1, TurnFacts
  <1>3. TurnErrors \subseteq ErrorCodes \ {"none"}
    BY DurableRunAssumption DEF ErrorCodes
  <1>4. CASE streamEnds(p)
    <2>1. PICK out, code :
             /\ \/ out = "paused"
                \/ Ending(out, code)
             /\ out \in SnapshotOutcomes \cup {"paused"} /\ code \in ErrorCodes
             /\ proc' = [proc EXCEPT ![p].pc = "tail", ![p].out = out, ![p].code = code]
      <3>1. PICK end \in {<<"completed", "none">>, <<"paused", "none">>,
                          <<"cancelled", "CLIENT_CANCELLED">>}
                            \cup ({"failed"} \X TurnErrors) :
               proc' = [proc EXCEPT ![p].pc = "tail", ![p].out = end[1], ![p].code = end[2]]
        BY <1>4 DEF streamEnds
      <3>2. \/ end[1] = "paused"
            \/ Ending(end[1], end[2])
        BY <1>3, <3>1 DEF Ending, TerminalStatuses, FinishCodes, ErrorCodes
      <3>3. end[1] \in SnapshotOutcomes \cup {"paused"} /\ end[2] \in ErrorCodes
        BY <1>3, <3>1, Places DEF SnapshotOutcomes, TerminalStatuses
      <3> QED
        BY <3>1, <3>2, <3>3
    <2>2. PICK old \in Local : old = proc[p]
      BY <1>2
    <2>3. PICK new : new = [old EXCEPT !.pc = "tail", !.out = out, !.code = code]
      OBVIOUS
    <2>4. "tail" \in Pcs /\ "tail" \in ExecPcs
      BY Places DEF ExecPcs, TurnPcs
    <2>5. /\ new \in Local /\ new.pc = "tail" /\ new.out = out /\ new.code = code
          /\ new.run = old.run /\ new.want = old.want /\ new.back = old.back
      BY <2>1, <2>3, <2>4 DEF Local
    <2>6. proc' = [proc EXCEPT ![p] = new]
      BY <1>2, <2>1, <2>2, <2>3 DEF LocalsSound, Local
    <2> QED
      BY <1>1, <2>1, <2>2, <2>4, <2>5, <2>6, TurnSets
  <1>5. CASE turnThrows(p)
    BY <1>1, <1>3, <1>5, TurnThrows DEF turnThrows
  <1>6. CASE startTerminalCommit(p)
    <2>1. proc[p].out = "paused" \/ Ending(proc[p].out, proc[p].code)
      BY <1>2, <1>6 DEF startTerminalCommit, At, LocalSound
    <2>2. "commit" \in ExecPcs
      BY DEF ExecPcs, TurnPcs
    <2> QED
      BY <1>1, <1>6, <2>1, <2>2, TurnGoes DEF startTerminalCommit
  <1> QED
    BY <1>4, <1>5, <1>6

LEMMA CommitSound ==
    ASSUME SystemBase, NEW p \in Procs, commitTurn(p)
    PROVE  ProcStep(p) /\ [Next]_tableVars
  <1>1. proc[p].pc = "commit" /\ proc[p].pc \in ExecPcs /\ Turning(proc[p])
    BY DEF commitTurn, At, Turning, ExecPcs, TurnPcs
  <1>2. /\ TypeOK /\ LocalSound(p, proc[p]) /\ proc[p] \in Local /\ proc[p].run \in Runs
    BY <1>1, TurnFacts
  <1>3. proc[p].out = "paused" \/ Ending(proc[p].out, proc[p].code)
    BY <1>1, <1>2 DEF LocalSound
  <1>4. CASE /\ proc[p].out = "paused"
             /\ \E ids \in SUBSET Confs, knowsCall \in BOOLEAN :
                   markChatThreadRunWaitingForApproval(proc[p].run, ids, knowsCall)
             /\ CommitEffects(p, <<"paused_finish">>)
    <2>1. Next
      BY <1>1, <1>4, TurnWrites DEF TurnTransaction
    <2>2. /\ <<"paused_finish">> \in Seq(Effects) /\ <<"paused_finish">> # <<>>
          /\ ~Releases(<<"paused_finish">>)
          /\ Once(<<"paused_finish">>) /\ Announces(<<"paused_finish">>) = {}
      BY EffectLists
    <2> QED
      BY <1>1, <1>4, <2>1, <2>2, CommitEffectsStep
  <1>5. CASE /\ proc[p].out # "paused"
             /\ finishChatThreadRun(proc[p].run, proc[p].out, proc[p].code, FALSE)
             /\ CommitEffects(p,
                   ReleaseIf(shouldReleaseSandboxLeaseForFinishedRun(proc[p].out, proc[p].code))
                   \o TerminalEvents(proc[p].out))
    <2>1. /\ proc[p].out \in TerminalStatuses /\ proc[p].code \in FinishCodes(proc[p].out)
      BY <1>3, <1>5 DEF Ending
    <2>2. Next /\ WinsOutcome(proc[p].run, proc[p].code)
      BY <1>2, <1>5, <2>1, Finishes
    <2>3. proc[p].out # "open"
      BY <2>1 DEF TerminalStatuses
    <2>4. PICK todo : todo =
             ReleaseIf(shouldReleaseSandboxLeaseForFinishedRun(proc[p].out, proc[p].code))
             \o TerminalEvents(proc[p].out)
      OBVIOUS
    <2>5. todo \in Seq(Effects) /\ todo # <<>> /\ Once(todo)
      BY <2>4, EffectsOfEnd
    <2>6. Releases(todo) => GivenUp(runs', proc[p].run)
      <3>1. Releases(todo) =>
               shouldReleaseSandboxLeaseForFinishedRun(proc[p].out, proc[p].code)
        BY <2>4, EffectsOfEnd
      <3>2. runs'[proc[p].run].status = proc[p].out
        BY <1>2, <1>5, <2>1, Finishes
      <3> QED
        BY <3>1, <3>2 DEF shouldReleaseSandboxLeaseForFinishedRun, GivenUp
    <2> QED
      BY <1>1, <1>5, <2>2, <2>3, <2>4, <2>5, <2>6, CommitEffectsStep
  <1>6. CASE ReadOnly /\ GoTo(p, "lost")
    <2>1. "lost" \in ExecPcs
      BY DEF ExecPcs
    <2> QED
      BY <1>1, <1>6, <2>1, TurnGoes, ReadOnlyStep
  <1> QED
    BY <1>4, <1>5, <1>6 DEF commitTurn, Run

LEMMA CatchSound ==
    ASSUME SystemBase, NEW p \in Procs, lostCommit(p) \/ catchTurnError(p)
    PROVE  ProcStep(p) /\ [Next]_tableVars
  <1>1. proc[p].pc \in {"lost", "catch"} /\ Turning(proc[p]) /\ [Next]_tableVars
    BY ReadOnlyStep DEF lostCommit, catchTurnError, At, Turning, ExecPcs
  <1>2. LocalsSound /\ LocalSound(p, proc[p]) /\ proc[p] \in Local
    BY <1>1, TurnFacts
  <1>3. CASE End(p)
    BY <1>1, <1>3, TurnEnds
  <1>4. CASE lostCommit(p) /\ ~End(p)
    <2>1. PICK old \in Local : old = proc[p]
      BY <1>2
    <2>2. PICK new : new = [old EXCEPT !.pc = "persist", !.back = "catch",
                                       !.code = "CLIENT_CANCELLED"]
      OBVIOUS
    <2>3. /\ "persist" \in Pcs /\ "persist" \in ExecPcs /\ "catch" \in Pcs
          /\ "CLIENT_CANCELLED" \in ErrorCodes
      BY Places DEF ExecPcs
    <2>4. /\ new \in Local /\ new.pc = "persist" /\ new.code = "CLIENT_CANCELLED"
          /\ new.run = old.run /\ new.want = old.want /\ new.back = "catch"
      BY <2>2, <2>3 DEF Local
    <2>5. proc' = [proc EXCEPT ![p].pc = "persist", ![p].back = "catch",
                               ![p].code = "CLIENT_CANCELLED"]
      BY <1>4 DEF lostCommit
    <2>6. proc' = [proc EXCEPT ![p] = new]
      BY <1>2, <2>1, <2>2, <2>5 DEF LocalsSound, Local
    <2> QED
      BY <1>1, <2>1, <2>3, <2>4, <2>6, TurnSets
  <1>5. CASE catchTurnError(p) /\ ~End(p)
    <2>1. proc[p].code # "none" /\ GoTo(p, "flush")
      BY <1>2, <1>5 DEF catchTurnError, At, LocalSound
    <2>2. "flush" \in ExecPcs
      BY DEF ExecPcs
    <2> QED
      BY <1>1, <2>1, <2>2, TurnGoes
  <1> QED
    BY <1>1, <1>3, <1>4, <1>5

LEMMA FlushSound ==
    ASSUME SystemBase, NEW p \in Procs, flushPendingDelta(p)
    PROVE  ProcStep(p) /\ [Next]_tableVars
  <1>1. proc[p].pc = "flush" /\ proc[p].pc \in ExecPcs /\ Turning(proc[p])
    BY DEF flushPendingDelta, At, Turning, ExecPcs
  <1>2. LocalsSound /\ LocalSound(p, proc[p]) /\ proc[p] \in Local
    BY <1>1, TurnFacts
  <1>3. proc[p].code # "none"
    BY <1>1, <1>2 DEF LocalSound
  <1>4. [Next]_tableVars
    <2>1. CASE ReadOnly
      BY <2>1, ReadOnlyStep
    <2>2. CASE touchChatThreadRunHeartbeat(proc[p].run)
      BY <1>1, <2>2, TurnWrites DEF TurnTransaction
    <2> QED
      BY <2>1, <2>2 DEF flushPendingDelta, Run
  <1>5. PICK pc \in {"push", "persist"} :
           proc' = [proc EXCEPT ![p].pc = pc, ![p].back = "persist"]
    BY DEF flushPendingDelta
  <1>6. PICK old \in Local : old = proc[p]
    BY <1>2
  <1>7. PICK new : new = [old EXCEPT !.pc = pc, !.back = "persist"]
    OBVIOUS
  <1>8. pc \in Pcs /\ pc \in ExecPcs /\ "persist" \in Pcs
    BY Places DEF ExecPcs, TurnPcs
  <1>9. /\ new \in Local /\ new.pc = pc /\ new.code = old.code /\ new.back = "persist"
        /\ new.run = old.run /\ new.want = old.want
    BY <1>7, <1>8 DEF Local
  <1>10. proc' = [proc EXCEPT ![p] = new]
    BY <1>2, <1>5, <1>6, <1>7 DEF LocalsSound, Local
  <1> QED
    BY <1>1, <1>3, <1>4, <1>6, <1>8, <1>9, <1>10, TurnSets

LEMMA PersistSound ==
    ASSUME SystemBase, NEW p \in Procs, persistTerminalFailure(p)
    PROVE  ProcStep(p) /\ [Next]_tableVars
  <1>1. TypeOK /\ LocalsSound /\ LocalSound(p, proc[p]) /\ proc[p] \in Local
    BY DEF SystemBase, IInv, LocalsSound
  <1>2. proc[p].run \in Runs /\ proc[p].code \in ErrorCodes \ {"none"}
    BY <1>1 DEF persistTerminalFailure, LocalSound, Local
  <1>3. PICK status, code : code = proc[p].code /\ status = terminalStatusOf(code)
    OBVIOUS
  <1>4. status \in TerminalStatuses /\ code \in FinishCodes(status) /\ code \in ErrorCodes
    BY <1>2, <1>3 DEF terminalStatusOf, TerminalStatuses, FinishCodes
  <1>5. CASE /\ finishChatThreadRun(proc[p].run, status, code, FALSE)
             /\ Do(p, ReleaseIf(shouldReleaseSandboxLeaseForFinishedRun(status, code))
                      \o TerminalEvents(status), code, "return")
    <2>1. Next /\ Begun(runs', proc[p].run) /\ WinsOutcome(proc[p].run, code)
      BY <1>1, <1>2, <1>4, <1>5, Finishes
    <2>2. PICK todo : todo =
             ReleaseIf(shouldReleaseSandboxLeaseForFinishedRun(status, code))
             \o TerminalEvents(status)
      OBVIOUS
    <2>3. todo \in Seq(Effects) /\ Once(todo) /\ "return" \in Backs
      BY <2>2, EffectsOfEnd DEF Backs
    <2>4. Releases(todo) => GivenUp(runs', proc[p].run)
      <3>1. Releases(todo) => shouldReleaseSandboxLeaseForFinishedRun(status, code)
        BY <2>2, EffectsOfEnd
      <3>2. runs'[proc[p].run].status = status
        BY <1>1, <1>2, <1>4, <1>5, Finishes
      <3> QED
        BY <3>1, <3>2 DEF shouldReleaseSandboxLeaseForFinishedRun, GivenUp
    <2> QED
      BY <1>1, <1>2, <1>4, <1>5, <2>1, <2>2, <2>3, <2>4, DoStep
  <1>6. CASE ReadOnly /\ End(p)
    BY <1>1, <1>2, <1>6, EndStep, ReadOnlyStep
  <1> QED
    BY <1>3, <1>5, <1>6 DEF persistTerminalFailure, Run

LEMMA TurnStepSound ==
    ASSUME SystemBase, NEW p \in Procs, TurnStep(p)
    PROVE  ProcStep(p) /\ [Next]_tableVars
  BY HeartbeatSound, EventSound, StreamEndsSound, CommitSound, CatchSound, FlushSound,
     PersistSound DEF TurnStep

-----------------------------------------------------------------------------
\* Effects, faults and monitors

\* The rest of a list of effects lists none twice and no effect that is not listed.
LEMMA RestOfEffects ==
    ASSUME NEW todo \in Seq(Effects), todo # <<>>
    PROVE  /\ Once(todo) => /\ Once(Tail(todo))
                            /\ Head(todo) \notin Announces(Tail(todo))
           /\ Announces(Tail(todo)) \subseteq Announces(todo)
           /\ Releases(Tail(todo)) => Releases(todo)
  <1>1. /\ Tail(todo) \in Seq(Effects) /\ Len(Tail(todo)) = Len(todo) - 1
        /\ \A i \in DOMAIN Tail(todo) :
              /\ i \in Int /\ i + 1 \in DOMAIN todo /\ i # 0
              /\ Tail(todo)[i] = todo[i + 1]
        /\ 1 \in DOMAIN todo /\ Head(todo) = todo[1]
    OBVIOUS
  <1>2. ASSUME Once(todo) PROVE Once(Tail(todo))
    BY <1>1, <1>2 DEF Once
  <1>3. ASSUME Once(todo), NEW i \in DOMAIN Tail(todo) PROVE Tail(todo)[i] # Head(todo)
    BY <1>1, <1>3 DEF Once
  <1>4. Once(todo) => Head(todo) \notin Announces(Tail(todo))
    BY <1>3 DEF Announces
  <1>5. Announces(Tail(todo)) \subseteq Announces(todo)
    BY <1>1 DEF Announces
  <1>6. Releases(Tail(todo)) => Releases(todo)
    BY <1>1 DEF Releases
  <1> QED
    BY <1>2, <1>4, <1>5, <1>6

\* A handler that works off its effects.
LEMMA AtEffects ==
    ASSUME SystemBase, NEW p \in Procs, proc[p].pc = "effects"
    PROVE  /\ LocalsSound /\ proc[p] \in Local /\ LocalSound(p, proc[p])
           /\ Outside(p, proc[p])
           /\ Begun(runs, proc[p].run)
           /\ Releases(proc[p].todo) => GivenUp(runs, proc[p].run)
           /\ Told(runs, proc[p]) /\ Once(proc[p].todo)
           /\ proc[p].todo \in Seq(Effects) /\ proc[p].todo # <<>>
           /\ Head(proc[p].todo) \in Effects /\ Tail(proc[p].todo) \in Seq(Effects)
  <1>1. /\ LocalsSound /\ proc[p] \in Local /\ LocalSound(p, proc[p])
    BY DEF SystemBase, LocalsSound
  <1>2. Outside(p, proc[p])
    BY <1>1, IsOutside DEF ExecPcs, TurnPcs
  <1>3. /\ Begun(runs, proc[p].run)
        /\ Releases(proc[p].todo) => GivenUp(runs, proc[p].run)
        /\ Told(runs, proc[p])
    BY DEF SystemBase, CommitSeen, Covered
  <1>4. proc[p].todo \in Seq(Effects) /\ proc[p].todo # <<>> /\ Once(proc[p].todo)
    BY <1>1 DEF Local, LocalSound
  <1>5. Head(proc[p].todo) \in Effects /\ Tail(proc[p].todo) \in Seq(Effects)
    BY <1>4
  <1> QED
    BY <1>1, <1>2, <1>3, <1>4, <1>5

\* A handler that keeps working off effects of what it has committed.
LEMMA StaysAtEffects ==
    ASSUME SystemBase, ReadOnly, NEW p \in Procs, proc[p].pc = "effects",
           NEW new \in Local, proc' = [proc EXCEPT ![p] = new], new.pc = "effects",
           new.run = proc[p].run, new.want = proc[p].want, new.out = proc[p].out,
           new.todo # <<>>, new.back \in Backs,
           new.back = "recheck" => new.back = proc[p].back,
           Releases(new.todo) => Releases(proc[p].todo),
           Once(new.todo), new.code = proc[p].code,
           Announces(new.todo) \subseteq Announces(proc[p].todo)
    PROVE  ProcStep(p)
  <1>1. /\ LocalsSound /\ LocalSound(p, proc[p]) /\ Outside(p, proc[p])
        /\ Begun(runs, proc[p].run)
        /\ Releases(proc[p].todo) => GivenUp(runs, proc[p].run)
        /\ Told(runs, proc[p])
    BY AtEffects
  <1>2. Turning(new) => Turning(proc[p])
    BY DEF Turning, ExecPcs, TurnPcs
  <1>3. LocalSound(p, new)
    BY <1>1, <1>2 DEF LocalSound, Outside
  <1>4. Covered(runs', new)
    <2>1. Told(runs', new)
      BY <1>1 DEF ReadOnly, tableVars, Told
    <2> QED
      BY <1>1, <2>1 DEF ReadOnly, tableVars, Covered, Begun, GivenUp
  <1>5. KeepsEffects(p)
    BY <1>1 DEF KeepsEffects, LocalsSound
  <1> QED
    BY <1>1, <1>2, <1>3, <1>4, <1>5 DEF LocalsSound, ProcStep

LEMMA NextEffect ==
    ASSUME SystemBase, ReadOnly, NEW p \in Procs, proc[p].pc = "effects",
           proc' = [proc EXCEPT ![p] = afterEffect(@)]
    PROVE  ProcStep(p)
  <1>1. /\ LocalsSound /\ proc[p] \in Local /\ Outside(p, proc[p])
        /\ Tail(proc[p].todo) \in Seq(Effects)
    BY AtEffects
  <1>2. CASE Tail(proc[p].todo) = <<>>
    <2>1. PICK back \in Backs : back = proc[p].back
      BY <1>1 DEF Outside
    <2>2. proc' = [proc EXCEPT ![p] = Resume(proc[p], back)]
      BY <1>2, <2>1 DEF afterEffect
    <2> QED
      BY <1>1, <2>1, <2>2, ResumeSound, LeavesTurn DEF Outside
  <1>3. CASE Tail(proc[p].todo) # <<>>
    <2>1. PICK old \in Local : old = proc[p]
      BY <1>1
    <2>2. PICK rest \in Seq(Effects) : rest = Tail(old.todo)
      BY <1>1, <2>1
    <2>3. PICK new : new = [old EXCEPT !.todo = rest]
      OBVIOUS
    <2>4. /\ new \in Local /\ new.pc = old.pc /\ new.run = old.run /\ new.want = old.want
          /\ new.out = old.out /\ new.back = old.back /\ new.todo = rest
          /\ new.code = old.code
      BY <2>2, <2>3 DEF Local
    <2>5. proc' = [proc EXCEPT ![p] = new]
      BY <1>3, <2>1, <2>2, <2>3 DEF afterEffect
    <2>6. /\ Releases(rest) => Releases(old.todo)
          /\ Once(rest) /\ Announces(rest) \subseteq Announces(old.todo)
      <3>1. old.todo \in Seq(Effects) /\ old.todo # <<>> /\ Once(old.todo)
        BY <2>1, AtEffects
      <3> QED
        BY <2>2, <3>1, RestOfEffects
    <2> QED
      BY <1>1, <1>3, <2>1, <2>2, <2>4, <2>5, <2>6, StaysAtEffects DEF Outside
  <1> QED
    BY <1>2, <1>3

LEMMA EffectStepSound ==
    ASSUME SystemBase, NEW p \in Procs, EffectStep(p)
    PROVE  ProcStep(p) /\ [Next]_tableVars
  BY NextEffect, ReadOnlyStep DEF EffectStep, At

LEMMA EffectFailsSound ==
    ASSUME SystemBase, NEW p \in Procs, EffectFails(p)
    PROVE  ProcStep(p) /\ [Next]_tableVars
  <1>1. ReadOnly /\ proc[p].pc = "effects" /\ [Next]_tableVars
    BY ReadOnlyStep DEF EffectFails, At
  <1>2. /\ LocalsSound /\ proc[p] \in Local /\ Outside(p, proc[p])
    BY <1>1, AtEffects
  <1>3. CASE proc' = [proc EXCEPT ![p] = afterEffect(@)]
    BY <1>1, <1>3, NextEffect
  <1>4. CASE proc' = [proc EXCEPT ![p] = abandonEffects(@, p)]
    <2>1. PICK home \in {"idle", "return"} : home = Home(p)
      BY DEF Home
    <2>2. home \in Backs /\ home # "recheck"
      BY DEF Backs
    <2>3. CASE \E i \in DOMAIN Tail(proc[p].todo) : Tail(proc[p].todo)[i] = "release"
      <3>1. PICK old \in Local : old = proc[p]
        BY <1>2
      <3>2. PICK new : new = [old EXCEPT !.todo = <<"release">>, !.back = home]
        OBVIOUS
      <3>3. <<"release">> \in Seq(Effects) /\ home \in Pcs
        BY <2>2, Places DEF Effects
      <3>4. /\ new \in Local /\ new.pc = old.pc /\ new.run = old.run
            /\ new.want = old.want /\ new.out = old.out /\ new.back = home
            /\ new.todo = <<"release">> /\ new.code = old.code
        BY <3>2, <3>3 DEF Local
      <3>5. abandonEffects(proc[p], p) = new
        BY <2>1, <2>3, <3>1, <3>2 DEF abandonEffects
      <3>6. proc' = [proc EXCEPT ![p] = new]
        BY <1>4, <3>5
      <3>7. Releases(proc[p].todo)
        <4>1. proc[p].todo \in Seq(Effects) /\ proc[p].todo # <<>>
          BY <1>1, AtEffects
        <4> QED
          BY <2>3, <4>1 DEF Releases
      <3>8. new.todo # <<>> /\ new.back \in Backs /\ new.back # "recheck"
        BY <2>2, <3>4
      <3> QED
        BY <1>1, <3>1, <3>4, <3>6, <3>7, <3>8, EffectLists, StaysAtEffects
    <2>4. CASE ~\E i \in DOMAIN Tail(proc[p].todo) : Tail(proc[p].todo)[i] = "release"
      <3>1. proc' = [proc EXCEPT ![p] = Resume(proc[p], home)]
        BY <1>4, <2>1, <2>4 DEF abandonEffects
      <3>2. PICK pc \in Backs : pc = home /\ pc # "recheck"
        BY <2>2
      <3>3. PICK new : new = Resume(proc[p], pc)
        OBVIOUS
      <3>4. new \in Local /\ LocalSound(p, new) /\ new.pc \notin ExecPcs \cup {"effects"}
        BY <1>2, <3>2, <3>3, ResumeSound DEF Outside
      <3> QED
        BY <1>1, <1>2, <3>1, <3>2, <3>3, <3>4, LeavesTurn
    <2> QED
      BY <2>3, <2>4
  <1>5. CASE proc[p].out # "open" /\ Throw(p, "CHAT_RUN_FAILED")
    <2>1. Turning(proc[p]) /\ "CHAT_RUN_FAILED" \in ErrorCodes \ {"none"}
      BY <1>1, <1>5, Places DEF Turning
    <2> QED
      BY <1>1, <1>5, <2>1, TurnThrows
  <1> QED
    BY <1>1, <1>3, <1>4, <1>5 DEF EffectFails

\* A handler whose try block sends it to the processor boundary.
LEMMA ToBoundary ==
    ASSUME LocalsSound, NEW p \in Workers, p \in Procs, NEW new \in Local,
           proc' = [proc EXCEPT ![p] = new], new.pc = "boundary", new.run \in Runs,
           new.code # "none", new.back = "recheck" => new.want \in Runs /\ p \notin Workers
    PROVE  ProcStep(p)
  <1>1. LocalSound(p, new) /\ new.pc \notin ExecPcs \cup {"effects"}
    BY DEF LocalSound, ExecPcs, TurnPcs
  <1> QED
    BY <1>1, LeavesTurn

LEMMA DatabaseFailsSound ==
    ASSUME SystemBase, NEW p \in Procs, DatabaseFails(p)
    PROVE  ProcStep(p) /\ [Next]_tableVars
  <1>1. ReadOnly /\ [Next]_tableVars
    BY ReadOnlyStep DEF DatabaseFails
  <1>2. /\ LocalsSound /\ proc[p] \in Local /\ LocalSound(p, proc[p])
        /\ proc[p].pc \notin {"idle", "turn", "effects", "enqueue", "return"}
    BY DEF SystemBase, LocalsSound, DatabaseFails
  <1>3. PICK old \in Local : old = proc[p]
    BY <1>2
  <1>4. CASE /\ old.pc \in {"flush", "push", "progress"}
             /\ old.pc = "flush" \/ old.back = "persist"
             /\ GoTo(p, "persist")
    <2>1. Turning(proc[p]) /\ "persist" \in ExecPcs /\ proc[p].code # "none"
      BY <1>2, <1>3, <1>4 DEF Turning, ExecPcs, TurnPcs, LocalSound
    <2> QED
      BY <1>1, <1>4, <2>1, TurnGoes
  <1>5. CASE /\ old.pc \in TurnPcs \cup {"lost"}
             /\ Throw(p, "CHAT_RUN_FAILED")
    <2>1. Turning(proc[p]) /\ "CHAT_RUN_FAILED" \in ErrorCodes \ {"none"}
      BY <1>3, <1>5, Places DEF Turning, ExecPcs
    <2> QED
      BY <1>1, <1>5, <2>1, TurnThrows
  <1>6. CASE old.pc = "persist" /\ Throw(p, old.code)
    <2>1. Turning(proc[p]) /\ old.code \in ErrorCodes \ {"none"}
      BY <1>2, <1>3, <1>6 DEF Turning, ExecPcs, LocalSound, Local
    <2> QED
      BY <1>1, <1>6, <2>1, TurnThrows
  <1>7. CASE old.pc \in {"catch", "persist"} /\ GoTo(p, "boundary")
    <2>1. /\ p \in Workers /\ old.run \in Runs /\ old.code # "none"
          /\ old.back = "recheck" => old.want \in Runs /\ p \notin Workers
      BY <1>2, <1>3, <1>7 DEF LocalSound, Turning, ExecPcs
    <2>2. "boundary" \in Pcs
      BY Places
    <2>3. PICK new \in Local :
             /\ proc' = [proc EXCEPT ![p] = new] /\ new.pc = "boundary"
             /\ new.run = proc[p].run /\ new.want = proc[p].want
             /\ new.back = proc[p].back /\ new.code = proc[p].code
      BY <1>2, <1>7, <2>2, Goes
    <2> QED
      BY <1>1, <1>2, <1>3, <2>1, <2>3, ToBoundary
  <1>8. CASE /\ p \in Workers
             /\ old.pc \in {"job", "claim", "cancel_before"} \cup RecoveryPcs
             /\ proc' = [proc EXCEPT ![p].pc = "boundary", ![p].code = "CHAT_RUN_FAILED"]
    <2>1. /\ old.run \in Runs
          /\ old.back = "recheck" => old.want \in Runs /\ p \notin Workers
      BY <1>2, <1>3, <1>8 DEF LocalSound, RecoveryPcs
    <2>2. "boundary" \in Pcs /\ "CHAT_RUN_FAILED" \in ErrorCodes
      BY Places
    <2>3. PICK new : new = [old EXCEPT !.pc = "boundary", !.code = "CHAT_RUN_FAILED"]
      OBVIOUS
    <2>4. /\ new \in Local /\ new.pc = "boundary" /\ new.run = old.run
          /\ new.want = old.want /\ new.back = old.back /\ new.code = "CHAT_RUN_FAILED"
      BY <2>2, <2>3 DEF Local
    <2>5. proc' = [proc EXCEPT ![p] = new]
      BY <1>2, <1>3, <1>8, <2>3 DEF LocalsSound, Local
    <2> QED
      BY <1>1, <1>2, <1>8, <2>1, <2>4, <2>5, ToBoundary
  <1>9. CASE old.pc \notin TurnPcs \cup {"lost", "catch", "flush", "persist"} /\ End(p)
    <2>1. proc[p].run \in Runs \/ p \notin Workers
      BY <1>2, <1>3, <1>9 DEF LocalSound
    <2> QED
      BY <1>1, <1>2, <1>9, <2>1, EndStep
  <1> QED
    BY <1>3, <1>4, <1>5, <1>6, <1>7, <1>8, <1>9 DEF DatabaseFails, TurnPcs, RecoveryPcs

LEMMA FaultStepSound ==
    ASSUME SystemBase, NEW p \in Procs, FaultStep(p)
    PROVE  ProcStep(p) /\ [Next]_tableVars
  <1>1. CASE Crash(p)
    BY <1>1, IdleSound, LeavesTurn, ReadOnlyStep DEF Crash, SystemBase
  <1> QED
    BY <1>1, EffectFailsSound, DatabaseFailsSound DEF FaultStep

\* A monitor that gives the turn a reason to stop.
LEMMA AbortSound ==
    ASSUME SystemBase, NEW p \in Procs, checkRunOwnership(p) \/ interruptActiveChatRuns(p)
    PROVE  ProcStep(p) /\ [Next]_tableVars
  <1>1. Turning(proc[p]) /\ proc[p].pc \in ExecPcs /\ [Next]_tableVars
    BY ReadOnlyStep DEF checkRunOwnership, interruptActiveChatRuns, Abortable, Turning,
       ExecPcs, TurnPcs
  <1>2. /\ LocalsSound /\ proc[p] \in Local /\ LocalSound(p, proc[p])
        /\ runs[proc[p].run] \in Row
    BY <1>1, TurnFacts
  <1>3. PICK why \in ErrorCodes : proc' = [proc EXCEPT ![p].why = why]
    BY <1>2, StopErrors, Places DEF checkRunOwnership, interruptActiveChatRuns, Run
  <1>4. PICK old \in Local : old = proc[p]
    BY <1>2
  <1>5. PICK new : new = [old EXCEPT !.why = why]
    OBVIOUS
  <1>6. /\ new \in Local /\ new.pc = old.pc /\ new.run = old.run /\ new.want = old.want
        /\ new.out = old.out /\ new.code = old.code /\ new.back = old.back
    BY <1>5 DEF Local
  <1>7. proc' = [proc EXCEPT ![p] = new]
    BY <1>3, <1>4, <1>5
  <1>8. /\ new.pc \in {"push", "progress"} => new.back \in {"turn", "tail", "persist"}
        /\ new.pc \in {"push", "progress"} /\ new.back = "persist" => new.code # "none"
        /\ new.pc \in {"catch", "flush", "persist"} => new.code # "none"
        /\ \/ new.pc \in {"tail", "commit"}
           \/ new.pc \in {"push", "progress"} /\ new.back = "tail"
           => new.out = "paused" \/ Ending(new.out, new.code)
    BY <1>2, <1>4, <1>6 DEF LocalSound
  <1> QED
    BY <1>1, <1>4, <1>6, <1>7, <1>8, TurnSets

\* What happens without a handler moving is a step of the table.
LEMMA QuietSteps ==
    ASSUME SystemBase, EnvironmentStep \/ \E p \in Procs : useProtectedTool(p)
    PROVE  UNCHANGED systemVars /\ Next
  <1>1. ASSUME NEW p \in Procs, useProtectedTool(p)
        PROVE  UNCHANGED systemVars /\ Next
    <2>1. proc[p].pc \in ExecPcs /\ UNCHANGED systemVars
      BY <1>1 DEF useProtectedTool, ExecPcs, TurnPcs
    <2>2. TurnTransaction(proc[p].run)
      BY <1>1 DEF useProtectedTool, TurnTransaction, Run
    <2> QED
      BY <2>1, <2>2, TurnWrites
  <1>2. CASE EnvironmentStep
    BY <1>2 DEF EnvironmentStep, publishArtifact, Next, TurnTransaction
  <1> QED
    BY <1>1, <1>2

-----------------------------------------------------------------------------
\* The inductive invariant

\* Every step is a step of the table, and moves at most one handler, soundly.
LEMMA SystemStep ==
    ASSUME SystemBase, [SystemNext]_vars
    PROVE  /\ [Next]_tableVars
           /\ UNCHANGED proc \/ \E p \in Procs : ProcStep(p)
  <1>1. CASE UNCHANGED vars
    BY <1>1 DEF vars, tableVars
  <1>2. CASE EnvironmentStep \/ \E p \in Procs : useProtectedTool(p)
    BY <1>2, QuietSteps DEF systemVars
  <1>3. ASSUME NEW p \in Procs, HandlerStep(p)
        PROVE  ProcStep(p) /\ [Next]_tableVars
    BY <1>3, RecoveryStepSound, CreateStepSound, StopStepSound, RecordSound, JobStepSound,
       TurnStepSound, EffectStepSound DEF HandlerStep
  <1>4. ASSUME NEW p \in Procs, Begin(p) \/ FaultStep(p)
        PROVE  ProcStep(p) /\ [Next]_tableVars
    BY <1>4, BeginSound, FaultStepSound
  <1>5. ASSUME NEW p \in Procs, checkRunOwnership(p) \/ interruptActiveChatRuns(p)
        PROVE  ProcStep(p) /\ [Next]_tableVars
    BY <1>5, AbortSound
  <1> QED
    BY <1>1, <1>2, <1>3, <1>4, <1>5 DEF SystemNext, MonitorStep

\* What the table says in a handler's favour it says for good.
LEMMA CoverStays ==
    ASSUME IInv, [Next]_tableVars, NEW local \in Local, Covered(runs, local),
           local.pc \in ExecPcs \cup {"effects"} => local.run \in Runs
    PROVE  Covered(runs', local)
  <1>1. ASSUME NEW r \in Runs, GivenUp(runs, r)
        PROVE  GivenUp(runs', r)
    <2>1. Terminal(r) /\ TypeOK /\ runs[r] \in Row
      BY <1>1 DEF GivenUp, Terminal, TerminalStatuses, IInv, TypeOK
    <2>2. runs'[r].status = runs[r].status
      BY <2>1, TerminalRowStep DEF Row
    <2> QED
      BY <1>1, <2>2 DEF GivenUp
  <1>2. ASSUME NEW r \in Runs, runs[r].status \in TerminalStatuses
        PROVE  runs'[r].status = runs[r].status /\ runs'[r].errorCode = runs[r].errorCode
    <2>1. Terminal(r) /\ TypeOK /\ runs[r] \in Row
      BY <1>2 DEF Terminal, IInv, TypeOK
    <2> QED
      BY <2>1, TerminalRowStep DEF Row
  <1>3. local.pc = "effects" => Told(runs', local)
    BY <1>2 DEF Covered, Told
  <1> QED
    BY <1>1, <1>3, BegunStays DEF Covered

LEMMA BaseInit == SystemInit => SystemBase
  <1> SUFFICES ASSUME SystemInit PROVE SystemBase
    OBVIOUS
  <1>1. IInv
    BY InitInv DEF SystemInit
  <1>2. proc \in [Procs -> Local] /\ \A p \in Procs : proc[p] = Idle
    BY IdleFields DEF SystemInit
  <1>3. LocalsSound
    BY <1>2, IdleSound DEF LocalsSound
  <1>4. CommitSeen
    BY <1>2, IdleFields DEF CommitSeen, Covered, ExecPcs, TurnPcs
  <1> QED
    BY <1>1, <1>3, <1>4 DEF SystemBase

LEMMA BaseStep == SystemBase /\ [SystemNext]_vars => SystemBase'
  <1> SUFFICES ASSUME SystemBase, [SystemNext]_vars PROVE SystemBase'
    OBVIOUS
  <1>1. [Next]_tableVars /\ (UNCHANGED proc \/ \E p \in Procs : ProcStep(p))
    BY SystemStep
  <1>2. IInv'
    BY <1>1, NextInv DEF SystemBase
  <1>3. ASSUME NEW p \in Procs
        PROVE  /\ proc[p] \in Local /\ LocalSound(p, proc[p])
               /\ Covered(runs', proc[p])
    <2>1. proc[p] \in Local /\ LocalSound(p, proc[p]) /\ Covered(runs, proc[p])
      BY DEF SystemBase, LocalsSound, CommitSeen
    <2>2. proc[p].pc \in ExecPcs \cup {"effects"} => proc[p].run \in Runs
      BY <2>1 DEF LocalSound, ExecPcs, TurnPcs
    <2> QED
      BY <1>1, <2>1, <2>2, CoverStays DEF SystemBase
  <1>4. CASE UNCHANGED proc
    BY <1>2, <1>3, <1>4 DEF SystemBase, LocalsSound, CommitSeen
  <1>5. ASSUME NEW p \in Procs, ProcStep(p)
        PROVE  (LocalsSound /\ CommitSeen)'
    BY <1>3, <1>5 DEF ProcStep, LocalsSound, CommitSeen
  <1> QED
    BY <1>1, <1>2, <1>4, <1>5 DEF SystemBase

\* The inductive invariant holds in every state the handlers, monitors and faults
\* can reach.
THEOREM BaseHolds == SystemSpec => []SystemBase
  BY BaseInit, BaseStep, PTL DEF SystemSpec

-----------------------------------------------------------------------------
\* What the system keeps

\* However requests, deliveries, recoveries and faults interleave, the handlers use
\* the table as its specification allows.  All that is proved of the table holds of
\* the system.
THEOREM HandlersKeepTable == SystemSpec => TableSpec
  <1>1. SystemInit => Init
    BY DEF SystemInit
  <1>2. SystemBase /\ [SystemNext]_vars => [Next]_tableVars
    BY SystemStep
  <1> QED
    BY <1>1, <1>2, BaseHolds, PTL DEF SystemSpec, TableSpec, Spec

LEMMA ExecutingIsTurning ==
    ASSUME NEW p PROVE Executing(p) <=> p \in Workers /\ Turning(proc[p])
  BY DEF Executing, Turning, ExecPcs, At

LEMMA OneExecutorStep ==
    ASSUME SystemBase, OneExecutorPerRun, [SystemNext]_vars
    PROVE  OneExecutorPerRun'
  <1>0. Workers \subseteq Procs
    BY DEF Procs
  <1>1. \A p, q \in Workers :
           Turning(proc[p]) /\ Turning(proc[q]) /\ proc[p].run = proc[q].run => p = q
    BY ExecutingIsTurning DEF OneExecutorPerRun, Run
  <1>2. \A p \in Workers : Turning(proc[p]) => Begun(runs, proc[p].run)
    BY <1>0 DEF SystemBase, CommitSeen, Covered, Turning
  <1>3. SUFFICES ASSUME NEW p \in Workers, NEW q \in Workers,
                        Turning(proc'[p]), Turning(proc'[q]), proc'[p].run = proc'[q].run
                 PROVE  p = q
    BY DEF OneExecutorPerRun, Executing, Run, Turning, ExecPcs, At
  <1>4. UNCHANGED proc \/ \E s \in Procs : ProcStep(s)
    BY SystemStep
  <1>5. CASE UNCHANGED proc
    BY <1>1, <1>3, <1>5
  <1>6. ASSUME NEW s \in Procs, ProcStep(s), p # q
        PROVE  FALSE
    <2>1. CASE s # p /\ s # q
      BY <1>0, <1>1, <1>3, <1>6, <2>1 DEF ProcStep
    <2>2. CASE s = p
      BY <1>0, <1>1, <1>2, <1>3, <1>6, <2>2 DEF ProcStep
    <2>3. CASE s = q
      BY <1>0, <1>1, <1>2, <1>3, <1>6, <2>3 DEF ProcStep
    <2> QED
      BY <2>1, <2>2, <2>3
  <1> QED
    BY <1>4, <1>5, <1>6

\* However often a job is delivered, one delivery executes the turn of a run.
THEOREM OneExecutor == SystemSpec => []OneExecutorPerRun
  <1>1. SystemInit => OneExecutorPerRun
    BY IdleFields DEF SystemInit, OneExecutorPerRun, Executing, At, Procs, TurnPcs
  <1> QED
    BY <1>1, OneExecutorStep, BaseHolds, PTL DEF SystemSpec

-----------------------------------------------------------------------------
\* Streams, queue and leases

\* The actions that touch neither the streams nor the leases.
SilentStep(p) ==
    Begin(p) \/ RecoveryStep(p) \/ CreateStep(p) \/ StopStep(p)
    \/ recordConfirmationResponse(p) \/ JobStep(p) \/ MonitorStep(p)
    \/ DatabaseFails(p) \/ Crash(p) \/ (TurnStep(p) /\ ~appendEvent(p))

LEMMA SilentSteps ==
    ASSUME NEW p \in Procs, SilentStep(p)
    PROVE  UNCHANGED <<stream, released>>
  <1>1. CASE Begin(p)
    BY <1>1 DEF Begin, getOrCreateRun, stopRun, validateConfirmationResponse, readRun,
       sweep, Deliver, NoEffect
  <1>2. CASE RecoveryStep(p)
    BY <1>2 DEF RecoveryStep, expireApprovalWaitingRun,
       completeApprovalRunIfNoPendingConfirmations, finishRunIfSnapshotIsTerminal,
       recoverIfStillStale, failStaleActiveRun, NoEffect
  <1>3. CASE CreateStep(p)
    BY <1>3 DEF CreateStep, recheckActiveRun, insertRun, enqueueThreadChatRunJob,
       enqueueFails, failRunBeforeMessages, markQueued, NoEffect
  <1>4. CASE StopStep(p) \/ recordConfirmationResponse(p)
    BY <1>4 DEF StopStep, requestCancel, forceCancelStoppedRun,
       recordConfirmationResponse, NoEffect
  <1>5. CASE JobStep(p)
    BY <1>5 DEF JobStep, processRunJob, claimRun, cancelRunBeforeMessages, JobReturns,
       NoEffect
  <1>6. CASE MonitorStep(p)
    BY <1>6 DEF MonitorStep, checkRunOwnership, interruptActiveChatRuns,
       useProtectedTool, NoEffect, systemVars
  <1>7. CASE DatabaseFails(p) \/ Crash(p)
    BY <1>7 DEF DatabaseFails, Crash
  <1>8. CASE TurnStep(p) /\ ~appendEvent(p)
    BY <1>8 DEF TurnStep, heartbeat, appendRunEvent, streamEnds, turnThrows,
       startTerminalCommit, commitTurn, lostCommit, catchTurnError, flushPendingDelta,
       persistTerminalFailure, NoEffect
  <1> QED
    BY <1>1, <1>2, <1>3, <1>4, <1>5, <1>6, <1>7, <1>8 DEF SilentStep

EventTypes == {"delta", "stop", "error", "finish", "paused_finish"}

\* An event is pushed by a handler that executes or announces its claimed run, a
\* lease is released for a run that failed or was cancelled.
LEMMA SideEffects ==
    ASSUME SystemBase, [SystemNext]_vars
    PROVE  /\ \/ UNCHANGED stream
              \/ \E r \in Runs, type \in EventTypes, code \in ErrorCodes :
                    Push(r, type, code) /\ Begun(runs, r)
           /\ \/ UNCHANGED released
              \/ \E r \in Runs : released' = released \cup {r} /\ GivenUp(runs, r)
  <1>1. CASE UNCHANGED vars \/ EnvironmentStep
    BY <1>1 DEF vars, EnvironmentStep, publishArtifact, systemVars
  <1>2. ASSUME NEW p \in Procs, SilentStep(p)
        PROVE  UNCHANGED <<stream, released>>
    BY <1>2, SilentSteps
  <1>3. ASSUME NEW p \in Procs, appendEvent(p)
        PROVE  /\ \E r \in Runs, type \in EventTypes, code \in ErrorCodes :
                     Push(r, type, code) /\ Begun(runs, r)
               /\ UNCHANGED released
    <2>1. Turning(proc[p]) /\ Push(proc[p].run, "delta", "none") /\ UNCHANGED released
      BY <1>3 DEF appendEvent, At, Turning, ExecPcs, TurnPcs, Run
    <2>2. proc[p].run \in Runs /\ Begun(runs, proc[p].run)
      BY <2>1, TurnFacts
    <2>3. "delta" \in EventTypes /\ "none" \in ErrorCodes
      BY Places DEF EventTypes
    <2> QED
      BY <2>1, <2>2, <2>3
  <1>4. ASSUME NEW p \in Procs, EffectStep(p) \/ EffectFails(p)
        PROVE  /\ \/ UNCHANGED stream
                  \/ \E r \in Runs, type \in EventTypes, code \in ErrorCodes :
                        Push(r, type, code) /\ Begun(runs, r)
               /\ \/ UNCHANGED released
                  \/ \E r \in Runs : released' = released \cup {r} /\ GivenUp(runs, r)
    <2>1. proc[p].pc = "effects"
      BY <1>4 DEF EffectStep, EffectFails, At
    <2>2. /\ proc[p].run \in Runs /\ Begun(runs, proc[p].run)
          /\ Releases(proc[p].todo) => GivenUp(runs, proc[p].run)
          /\ Head(proc[p].todo) \in Effects
          /\ proc[p].todo \in Seq(Effects) /\ proc[p].todo # <<>>
          /\ proc[p].code \in ErrorCodes
      BY <2>1, AtEffects DEF Outside, Local
    <2>3. PICK effect \in Effects : effect = Head(proc[p].todo)
      BY <2>2
    <2>4. effect = "release" => Releases(proc[p].todo)
      BY <2>2, <2>3 DEF Releases
    <2>5. UNCHANGED <<stream, released>> \/ performEffect(p, effect)
      BY <1>4, <2>3 DEF EffectStep, EffectFails
    <2>6. CASE performEffect(p, effect) /\ effect = "release"
      BY <2>2, <2>4, <2>6 DEF performEffect, Run
    <2>7. CASE performEffect(p, effect) /\ effect # "release"
      <3>1. PICK code \in ErrorCodes : Push(proc[p].run, effect, code)
        BY <2>2, <2>7, Places DEF performEffect, Run
      <3>2. effect \in EventTypes
        BY <2>7 DEF Effects, EventTypes
      <3>3. UNCHANGED released
        BY <2>7 DEF performEffect
      <3> QED
        BY <2>2, <3>1, <3>2, <3>3
    <2> QED
      BY <2>5, <2>6, <2>7
  <1> QED
    BY <1>1, <1>2, <1>3, <1>4 DEF SystemNext, HandlerStep, FaultStep, TurnStep, SilentStep

\* What has been pushed and released so far agrees with the table.
Witnessed ==
    /\ stream \in [Runs -> Seq(Events)]
    /\ \A r \in Runs : stream[r] # <<>> => Begun(runs, r)
    /\ released \in SUBSET Runs
    /\ \A r \in released : GivenUp(runs, r)

LEMMA WitnessedInit == SystemInit => Witnessed
  <1>1. <<>> \in Seq(Events)
    OBVIOUS
  <1> QED
    BY <1>1 DEF SystemInit, Witnessed

LEMMA WitnessedStep ==
    ASSUME SystemBase, Witnessed, [SystemNext]_vars
    PROVE  Witnessed'
  <1>1. [Next]_tableVars
    BY SystemStep
  <1>2. ASSUME NEW r \in Runs
        PROVE  /\ Begun(runs, r) => Begun(runs', r)
               /\ GivenUp(runs, r) => GivenUp(runs', r)
    <2>1. TypeOK /\ IInv
      BY DEF SystemBase, IInv
    <2>2. ASSUME GivenUp(runs, r) PROVE GivenUp(runs', r)
      <3>1. Terminal(r) /\ runs[r] \in Row
        BY <2>1, <2>2 DEF GivenUp, Terminal, TerminalStatuses, TypeOK
      <3>2. runs'[r].status = runs[r].status
        BY <1>1, <2>1, <3>1, TerminalRowStep DEF Row
      <3> QED
        BY <2>2, <3>2 DEF GivenUp
    <2> QED
      BY <1>1, <2>1, <2>2, BegunStays
  <1>3. /\ stream' \in [Runs -> Seq(Events)]
        /\ \A r \in Runs : stream'[r] # <<>> => Begun(runs, r)
    <2>1. CASE UNCHANGED stream
      BY <2>1 DEF Witnessed
    <2>2. ASSUME NEW s \in Runs, NEW type \in EventTypes, NEW code \in ErrorCodes,
                 Push(s, type, code), Begun(runs, s)
          PROVE  /\ stream' \in [Runs -> Seq(Events)]
                 /\ \A r \in Runs : stream'[r] # <<>> => Begun(runs, r)
      <3>1. PICK event : event = [type |-> type, code |-> code]
        OBVIOUS
      <3>2. event \in Events
        BY <3>1 DEF Events, EventTypes
      <3>3. Append(stream[s], event) \in Seq(Events)
        BY <3>2 DEF Witnessed
      <3>4. stream' = [stream EXCEPT ![s] = Append(stream[s], event)]
        BY <2>2, <3>1 DEF Push
      <3> QED
        BY <2>2, <3>3, <3>4 DEF Witnessed
    <2> QED
      BY <2>1, <2>2, SideEffects
  <1>4. released' \in SUBSET Runs /\ \A r \in released' : GivenUp(runs, r)
    BY SideEffects DEF Witnessed
  <1> QED
    BY <1>2, <1>3, <1>4 DEF Witnessed

\* In every reachable state a run with events has been claimed, and a run whose
\* lease is released, or about to be, has failed or been cancelled.
THEOREM WitnessedHolds == SystemSpec => []Witnessed
  BY WitnessedInit, WitnessedStep, BaseHolds, PTL DEF SystemSpec

\* No turn is started on a run that an earlier execution left traces of.
THEOREM StartsFresh == SystemSpec => []TurnStartsFresh
  <1>1. SystemBase /\ Witnessed => TurnStartsFresh
    <2> SUFFICES ASSUME SystemBase, Witnessed, NEW r \in Runs, ~Claimed(r)
                 PROVE  /\ stream[r] = <<>>
                        /\ \A p \in Workers : Executing(p) => Run(p) # r
      BY DEF TurnStartsFresh
    <2>1. ~Begun(runs, r)
      BY DEF Begun, Claimed, Exists
    <2>2. stream[r] = <<>>
      BY <2>1 DEF Witnessed
    <2>3. ASSUME NEW p \in Workers, Executing(p) PROVE Run(p) # r
      <3>1. p \in Procs /\ Turning(proc[p])
        BY <2>3, ExecutingIsTurning DEF Procs
      <3> QED
        BY <2>1, <3>1, TurnFacts DEF Run
    <2> QED
      BY <2>2, <2>3
  <1> QED
    BY <1>1, BaseHolds, WitnessedHolds, PTL

\* The sandbox lease is released only for runs that failed or were cancelled.
THEOREM LeaseSafe == SystemSpec => []LeaseReleasedOnlyAfterFailure
  <1>1. Witnessed => LeaseReleasedOnlyAfterFailure
    BY DEF Witnessed, LeaseReleasedOnlyAfterFailure, GivenUp
  <1> QED
    BY <1>1, WitnessedHolds, PTL

-----------------------------------------------------------------------------
\* Announcements

\* local still has to announce the outcome of its run by an event of this type.
Owes(local, type) == local.pc = "effects" /\ type \in Announces(local.todo)

\* p announces: it pushes the event it owes next, and owes it no more.
Tells(p, type) ==
    /\ ProcStep(p) /\ Owes(proc[p], type) /\ ~Owes(proc'[p], type)
    /\ Head(proc[p].todo) = type
    /\ Push(proc[p].run, type, IF type = "error" THEN proc[p].code ELSE "none")

\* A list of effects announces what is at its head, unless that is something else.
LEMMA HeadIsAnnounced ==
    ASSUME NEW todo \in Seq(Effects), todo # <<>>, Head(todo) \in Announcements
    PROVE  Head(todo) \in Announces(todo)
  <1>1. 1 \in DOMAIN todo /\ todo[1] = Head(todo)
    OBVIOUS
  <1> QED
    BY <1>1 DEF Announces

\* Whatever becomes of a handler after it performed an effect, also when the effect
\* failed half way, it does not perform it again.
LEMMA NeverAgain ==
    ASSUME SystemBase, NEW p \in Procs, EffectStep(p) \/ EffectFails(p),
           Head(proc[p].todo) \in Announcements
    PROVE  ~Owes(proc'[p], Head(proc[p].todo))
  <1>1. /\ proc[p].pc = "effects" /\ LocalsSound /\ proc[p] \in Local
        /\ Outside(p, proc[p]) /\ Once(proc[p].todo)
        /\ proc[p].todo \in Seq(Effects) /\ proc[p].todo # <<>>
    BY AtEffects DEF EffectStep, EffectFails, At
  <1>2. Head(proc[p].todo) \notin Announces(Tail(proc[p].todo))
    BY <1>1, RestOfEffects
  <1>3. ASSUME NEW back \in Backs, proc'[p] = Resume(proc[p], back)
        PROVE  proc'[p].pc # "effects"
    BY <1>3, ResumeFields, IdleFields DEF Resume, Backs
  <1>4. CASE proc' = [proc EXCEPT ![p] = afterEffect(@)]
    <2>1. proc'[p] = afterEffect(proc[p])
      BY <1>1, <1>4 DEF LocalsSound
    <2>2. CASE Tail(proc[p].todo) = <<>>
      BY <1>1, <1>3, <2>1, <2>2 DEF afterEffect, Outside, Owes
    <2>3. CASE Tail(proc[p].todo) # <<>>
      <3>1. proc'[p].todo = Tail(proc[p].todo)
        BY <1>1, <2>1, <2>3 DEF afterEffect, Local
      <3> QED
        BY <1>2, <3>1 DEF Owes
    <2> QED
      BY <2>2, <2>3
  <1>5. CASE proc' = [proc EXCEPT ![p] = abandonEffects(@, p)]
    <2>1. proc'[p] = abandonEffects(proc[p], p)
      BY <1>1, <1>5 DEF LocalsSound
    <2>2. CASE proc'[p] = Resume(proc[p], Home(p))
      BY <1>3, <2>2 DEF Home, Backs, Owes
    <2>3. CASE proc'[p] = [proc[p] EXCEPT !.todo = <<"release">>, !.back = Home(p)]
      <3>1. proc'[p].todo = <<"release">>
        BY <1>1, <2>3 DEF Local
      <3> QED
        BY <3>1, EffectLists DEF Owes
    <2> QED
      BY <2>1, <2>2, <2>3 DEF abandonEffects
  <1>6. CASE Throw(p, "CHAT_RUN_FAILED")
    <2>1. proc'[p].pc = "catch"
      BY <1>1, <1>6 DEF Throw, LocalsSound, Local
    <2> QED
      BY <2>1 DEF Owes
  <1> QED
    BY <1>4, <1>5, <1>6 DEF EffectStep, EffectFails

\* An announcement is pushed only by a handler that owes it.
LEMMA Pushes ==
    ASSUME SystemBase, [SystemNext]_vars
    PROVE  \/ UNCHANGED stream
           \/ \E r \in Runs, type \in EventTypes \ Announcements, code \in ErrorCodes :
                 Push(r, type, code)
           \/ \E p \in Procs, type \in Announcements : Tells(p, type)
  <1>1. CASE UNCHANGED vars \/ EnvironmentStep
    BY <1>1 DEF vars, EnvironmentStep, publishArtifact, systemVars
  <1>2. ASSUME NEW p \in Procs, SilentStep(p)
        PROVE  UNCHANGED stream
    BY <1>2, SilentSteps
  <1>3. ASSUME NEW p \in Procs, appendEvent(p)
        PROVE  \E r \in Runs, type \in EventTypes \ Announcements, code \in ErrorCodes :
                  Push(r, type, code)
    <2>1. Turning(proc[p]) /\ Push(proc[p].run, "delta", "none")
      BY <1>3 DEF appendEvent, At, Turning, ExecPcs, TurnPcs, Run
    <2>2. proc[p].run \in Runs
      BY <2>1, TurnFacts
    <2>3. "delta" \in EventTypes \ Announcements /\ "none" \in ErrorCodes
      BY Places DEF EventTypes, Announcements
    <2> QED
      BY <2>1, <2>2, <2>3
  <1>4. ASSUME NEW p \in Procs, EffectStep(p) \/ EffectFails(p)
        PROVE  \/ UNCHANGED stream
               \/ \E r \in Runs, type \in EventTypes \ Announcements, code \in ErrorCodes :
                     Push(r, type, code)
               \/ \E type \in Announcements : Tells(p, type)
    <2>1. proc[p].pc = "effects"
      BY <1>4 DEF EffectStep, EffectFails, At
    <2>2. /\ proc[p].run \in Runs /\ proc[p].code \in ErrorCodes
          /\ proc[p].todo \in Seq(Effects) /\ proc[p].todo # <<>>
      BY <2>1, AtEffects DEF Outside, Local
    <2>3. PICK effect : effect = Head(proc[p].todo)
      OBVIOUS
    <2>4. effect \in Effects
      BY <2>1, <2>3, AtEffects
    <2>5. UNCHANGED <<stream, released>> \/ performEffect(p, effect)
      BY <1>4, <2>3 DEF EffectStep, EffectFails
    <2>6. CASE effect = "release"
      BY <2>5, <2>6 DEF performEffect
    <2>7. CASE performEffect(p, effect) /\ effect \in Announcements
      <3>1. ProcStep(p)
        BY <1>4, EffectStepSound, EffectFailsSound
      <3>2. Owes(proc[p], effect)
        BY <2>1, <2>2, <2>3, <2>7, HeadIsAnnounced DEF Owes
      <3>3. ~Owes(proc'[p], effect)
        BY <1>4, <2>3, <2>7, NeverAgain
      <3>4. Push(proc[p].run, effect, IF effect = "error" THEN proc[p].code ELSE "none")
        BY <2>7 DEF performEffect, Run, Announcements
      <3>5. Tells(p, effect)
        BY <2>3, <3>1, <3>2, <3>3, <3>4 DEF Tells
      <3> QED
        BY <2>7, <3>5
    <2>8. CASE performEffect(p, effect) /\ effect \notin Announcements \cup {"release"}
      <3>1. PICK code \in ErrorCodes : Push(proc[p].run, effect, code)
        BY <2>2, <2>8, Places DEF performEffect, Run
      <3>2. effect \in EventTypes \ Announcements
        BY <2>4, <2>8 DEF Effects, EventTypes
      <3> QED
        BY <2>2, <3>1, <3>2
    <2> QED
      BY <2>5, <2>6, <2>7, <2>8
  <1> QED
    BY <1>1, <1>2, <1>3, <1>4 DEF SystemNext, HandlerStep, FaultStep, TurnStep, SilentStep

\* Every announcement in a stream is the committed outcome and the only one of its
\* type; nobody owes one that was made, and no two handlers owe the same.  The
\* last two carry the invariant: a handler comes to owe an announcement only by
\* ending the run, which nobody can have done before.
ToldOnce ==
    /\ \A r \in Runs : \A i \in DOMAIN stream[r] :
          stream[r][i].type \in Announcements =>
             /\ runs[r].status \in TerminalStatuses
             /\ stream[r][i].type = "error" => stream[r][i].code = runs[r].errorCode
    /\ \A r \in Runs : \A i, j \in DOMAIN stream[r] :
          stream[r][i].type \in Announcements /\ stream[r][i].type = stream[r][j].type
             => i = j
    /\ \A p \in Procs, r \in Runs : \A i \in DOMAIN stream[r] :
          Owes(proc[p], stream[r][i].type) => proc[p].run # r
    /\ \A p, q \in Procs, type \in Announcements :
          Owes(proc[p], type) /\ Owes(proc[q], type) /\ proc[p].run = proc[q].run
             => p = q

\* Who owes an announcement works on a run that ended as it will say.
LEMMA OwedIsCommitted ==
    ASSUME SystemBase, NEW p \in Procs, NEW type, Owes(proc[p], type)
    PROVE  /\ proc[p].run \in Runs /\ type \in Announcements
           /\ runs[proc[p].run].status \in TerminalStatuses
           /\ runs[proc[p].run].errorCode = proc[p].code
  <1>1. proc[p].pc = "effects" /\ type \in Announces(proc[p].todo)
    BY DEF Owes
  <1>2. Told(runs, proc[p]) /\ proc[p].run \in Runs
    BY <1>1, AtEffects DEF Outside
  <1> QED
    BY <1>1, <1>2 DEF Told, Announces

\* A step leaves a handler owing what it owed, or what the step itself committed.
LEMMA OwesNext ==
    ASSUME SystemBase, [SystemNext]_vars, NEW p \in Procs, NEW type,
           Owes(proc'[p], type)
    PROVE  \/ Owes(proc[p], type) /\ proc'[p].run = proc[p].run
           \/ runs[proc'[p].run].status \notin TerminalStatuses
  <1>1. CASE proc'[p] = proc[p]
    BY <1>1
  <1>2. CASE ProcStep(p)
    BY <1>2 DEF ProcStep, Owes, KeepsEffects, WinsNow
  <1>3. UNCHANGED proc \/ \E s \in Procs : ProcStep(s)
    BY SystemStep
  <1>4. ASSUME NEW s \in Procs, ProcStep(s), s # p
        PROVE  proc'[p] = proc[p]
    BY <1>4 DEF ProcStep
  <1> QED
    BY <1>1, <1>2, <1>3, <1>4

\* At most one handler moves.
LEMMA OneMoves ==
    ASSUME SystemBase, [SystemNext]_vars, NEW p \in Procs, NEW q \in Procs, p # q
    PROVE  proc'[p] = proc[p] \/ proc'[q] = proc[q]
  BY SystemStep DEF ProcStep

LEMMA OwersStep ==
    ASSUME SystemBase, ToldOnce, [SystemNext]_vars
    PROVE  /\ \A p \in Procs, r \in Runs : \A i \in DOMAIN stream[r] :
                 Owes(proc'[p], stream[r][i].type) => proc'[p].run # r
           /\ \A p, q \in Procs, type \in Announcements :
                 Owes(proc'[p], type) /\ Owes(proc'[q], type)
                    /\ proc'[p].run = proc'[q].run => p = q
  <1>1. ASSUME NEW p \in Procs, NEW r \in Runs, NEW i \in DOMAIN stream[r],
               Owes(proc'[p], stream[r][i].type), proc'[p].run = r
        PROVE  FALSE
    <2>1. stream[r][i].type \in Announcements
      BY <1>1 DEF Owes, Announces
    <2>2. runs[r].status \in TerminalStatuses
      BY <2>1 DEF ToldOnce
    <2>3. Owes(proc[p], stream[r][i].type) /\ proc[p].run = r
      BY <1>1, <2>2, OwesNext
    <2> QED
      BY <2>3 DEF ToldOnce
  <1>2. ASSUME NEW p \in Procs, NEW q \in Procs, NEW type \in Announcements, p # q,
               Owes(proc'[p], type), Owes(proc'[q], type), proc'[p].run = proc'[q].run,
               proc'[q] = proc[q]
        PROVE  FALSE
    <2>1. runs[proc[q].run].status \in TerminalStatuses
      BY <1>2, OwedIsCommitted
    <2>2. Owes(proc[p], type) /\ proc[p].run = proc[q].run
      BY <1>2, <2>1, OwesNext
    <2> QED
      BY <1>2, <2>2 DEF ToldOnce
  <1> QED
    BY <1>1, <1>2, OneMoves

LEMMA ToldOnceStep ==
    ASSUME SystemBase, Witnessed, ToldOnce, [SystemNext]_vars
    PROVE  ToldOnce'
  <1>1. ASSUME NEW r \in Runs, runs[r].status \in TerminalStatuses
        PROVE  /\ runs'[r].status \in TerminalStatuses
               /\ runs'[r].errorCode = runs[r].errorCode
    <2>1. TypeOK /\ Terminal(r) /\ runs[r] \in Row /\ [Next]_tableVars
      BY <1>1, SystemStep DEF SystemBase, IInv, TypeOK, Terminal
    <2> QED
      BY <1>1, <2>1, TerminalRowStep DEF Row
  <1>2. CASE UNCHANGED stream
    BY <1>1, <1>2, OwersStep DEF ToldOnce, Owes
  <1>3. ASSUME NEW s \in Runs, NEW type \in EventTypes, NEW code \in ErrorCodes,
               Push(s, type, code),
               type \in Announcements =>
                  /\ runs[s].status \in TerminalStatuses
                  /\ type = "error" => code = runs[s].errorCode
                  /\ \A i \in DOMAIN stream[s] : stream[s][i].type # type
                  /\ \A p \in Procs : Owes(proc'[p], type) => proc'[p].run # s
        PROVE  ToldOnce'
    <2>1. PICK event : event = [type |-> type, code |-> code]
      OBVIOUS
    <2>2. event \in Events /\ event.type = type /\ event.code = code
      BY <2>1 DEF Events, EventTypes
    <2>3. stream' = [stream EXCEPT ![s] = Append(stream[s], event)]
      BY <1>3, <2>1 DEF Push
    <2>4. stream \in [Runs -> Seq(Events)] /\ stream[s] \in Seq(Events)
      BY DEF Witnessed
    <2>5. /\ \A r \in Runs \ {s} : stream'[r] = stream[r]
          /\ stream'[s] = Append(stream[s], event)
      BY <2>3, <2>4
    <2>6. ASSUME NEW i \in DOMAIN stream'[s]
          PROVE  \/ i \in DOMAIN stream[s] /\ stream'[s][i] = stream[s][i]
                 \/ i = Len(stream[s]) + 1 /\ stream'[s][i] = event
      BY <2>2, <2>4, <2>5
    <2>7. ASSUME NEW r \in Runs, NEW i \in DOMAIN stream'[r],
                 stream'[r][i].type \in Announcements
          PROVE  /\ runs'[r].status \in TerminalStatuses
                 /\ stream'[r][i].type = "error" => stream'[r][i].code = runs'[r].errorCode
      <3>1. CASE i \in DOMAIN stream[r] /\ stream'[r][i] = stream[r][i]
        BY <1>1, <2>7, <3>1 DEF ToldOnce
      <3>2. CASE r = s /\ stream'[r][i] = event
        BY <1>1, <1>3, <2>2, <2>7, <3>2
      <3> QED
        BY <2>5, <2>6, <3>1, <3>2
    <2>8. ASSUME NEW r \in Runs, NEW i \in DOMAIN stream'[r], NEW j \in DOMAIN stream'[r],
                 stream'[r][i].type \in Announcements,
                 stream'[r][i].type = stream'[r][j].type
          PROVE  i = j
      <3>1. CASE r # s
        BY <2>5, <2>8, <3>1 DEF ToldOnce
      <3>2. CASE r = s
        <4>1. CASE /\ i \in DOMAIN stream[s] /\ stream'[s][i] = stream[s][i]
                   /\ j \in DOMAIN stream[s] /\ stream'[s][j] = stream[s][j]
          BY <2>8, <3>2, <4>1 DEF ToldOnce
        <4>2. CASE stream'[s][i] = event /\ j \in DOMAIN stream[s]
                   /\ stream'[s][j] = stream[s][j]
          BY <1>3, <2>2, <2>8, <3>2, <4>2
        <4>3. CASE stream'[s][j] = event /\ i \in DOMAIN stream[s]
                   /\ stream'[s][i] = stream[s][i]
          BY <1>3, <2>2, <2>8, <3>2, <4>3
        <4> QED
          BY <2>6, <2>8, <3>2, <4>1, <4>2, <4>3
      <3> QED
        BY <3>1, <3>2
    <2>9. ASSUME NEW p \in Procs, NEW r \in Runs, NEW i \in DOMAIN stream'[r],
                 Owes(proc'[p], stream'[r][i].type)
          PROVE  proc'[p].run # r
      <3>1. CASE i \in DOMAIN stream[r] /\ stream'[r][i] = stream[r][i]
        BY <2>9, <3>1, OwersStep
      <3>2. CASE r = s /\ stream'[r][i] = event
        <4>1. type \in Announcements
          BY <2>2, <2>9, <3>2 DEF Owes, Announces
        <4> QED
          BY <1>3, <2>2, <2>9, <3>2, <4>1
      <3> QED
        BY <2>5, <2>6, <3>1, <3>2
    <2>10. \A p, q \in Procs, t \in Announcements :
              Owes(proc'[p], t) /\ Owes(proc'[q], t) /\ proc'[p].run = proc'[q].run
                 => p = q
      BY OwersStep
    <2> QED
      BY <2>7, <2>8, <2>9, <2>10 DEF ToldOnce, Owes
  <1>4. ASSUME NEW p \in Procs, NEW type \in Announcements, Tells(p, type)
        PROVE  ToldOnce'
    <2>1. PICK code : code = IF type = "error" THEN proc[p].code ELSE "none"
      OBVIOUS
    <2>2. /\ ProcStep(p) /\ Owes(proc[p], type) /\ ~Owes(proc'[p], type)
          /\ Push(proc[p].run, type, code)
      BY <1>4, <2>1 DEF Tells
    <2>3. /\ proc[p].run \in Runs /\ runs[proc[p].run].status \in TerminalStatuses
          /\ runs[proc[p].run].errorCode = proc[p].code
      BY <2>2, OwedIsCommitted
    <2>4. code \in ErrorCodes /\ type \in EventTypes
      BY <2>1, Places DEF SystemBase, LocalsSound, Local, Announcements, EventTypes
    <2>5. \A i \in DOMAIN stream[proc[p].run] : stream[proc[p].run][i].type # type
      BY <2>2, <2>3 DEF ToldOnce
    <2>6. ASSUME NEW q \in Procs, Owes(proc'[q], type), proc'[q].run = proc[p].run
          PROVE  FALSE
      <3>1. q # p /\ proc'[q] = proc[q]
        BY <2>2, <2>6 DEF ProcStep
      <3> QED
        BY <2>2, <2>6, <3>1 DEF ToldOnce
    <2> QED
      BY <1>3, <2>1, <2>2, <2>3, <2>4, <2>5, <2>6
  <1> QED
    BY <1>2, <1>3, <1>4, Pushes

\* A set in which any two elements are equal has at most one.
LEMMA AtMostOne ==
    ASSUME NEW S, \A x, y \in S : x = y
    PROVE  Cardinality(S) <= 1
  <1>1. CASE S = {}
    BY <1>1, FS_EmptySet
  <1>2. ASSUME NEW x \in S PROVE Cardinality(S) <= 1
    <2>1. S = {x}
      OBVIOUS
    <2> QED
      BY <2>1, FS_Singleton
  <1> QED
    BY <1>1, <1>2

\* Terminal events tell the committed outcome, and nobody tells it twice, whatever
\* ends the run, loses the race to end it, or fails while it announces it.
THEOREM Announced == SystemSpec => []AnnouncedOutcomeIsCommitted
  <1>1. SystemInit => ToldOnce
    BY IdleFields DEF SystemInit, ToldOnce, Owes
  <1>2. ToldOnce => AnnouncedOutcomeIsCommitted
    <2> SUFFICES ASSUME ToldOnce, NEW r \in Runs
                 PROVE  /\ EventsOf(r, {"error", "finish"}) # {} => Terminal(r)
                        /\ \A i \in EventsOf(r, {"error"}) :
                              stream[r][i].code = runs[r].errorCode
                        /\ Cardinality(EventsOf(r, {"error"})) <= 1
                        /\ Cardinality(EventsOf(r, {"finish"})) <= 1
      BY DEF AnnouncedOutcomeIsCommitted
    <2>1. ASSUME NEW i \in EventsOf(r, {"error", "finish"})
          PROVE  /\ Terminal(r)
                 /\ stream[r][i].type = "error" => stream[r][i].code = runs[r].errorCode
      BY <2>1 DEF EventsOf, ToldOnce, Announcements, Terminal
    <2>2. ASSUME NEW type \in Announcements
          PROVE  Cardinality(EventsOf(r, {type})) <= 1
      <3>1. \A i, j \in EventsOf(r, {type}) : i = j
        BY <2>2 DEF EventsOf, ToldOnce
      <3> QED
        BY <3>1, AtMostOne
    <2> QED
      BY <2>1, <2>2 DEF EventsOf, Announcements
  <1>3. SystemBase /\ Witnessed /\ ToldOnce /\ [SystemNext]_vars => ToldOnce'
    BY ToldOnceStep
  <1>4. SystemSpec => []ToldOnce
    BY <1>1, <1>3, BaseHolds, WitnessedHolds, PTL DEF SystemSpec
  <1> QED
    BY <1>2, <1>4, PTL

-----------------------------------------------------------------------------
\* Types

Counted == queue \in [Runs -> 0 .. MaxDeliveries] /\ faults \in 0 .. MaxFaults

LEMMA CountedStep ==
    ASSUME SystemBase, Counted, [SystemNext]_vars
    PROVE  Counted'
  <1> USE DEF Counted
  <1>0. MaxDeliveries \in Nat /\ MaxFaults \in Nat
    BY DurableRunAssumption
  <1>1. CASE UNCHANGED vars \/ EnvironmentStep
    BY <1>1 DEF vars, EnvironmentStep, publishArtifact, systemVars
  <1>2. ASSUME NEW p \in Procs, Begin(p)
        PROVE  Counted'
    <2>1. CASE UNCHANGED <<queue, faults>>
      BY <2>1
    <2>2. ASSUME NEW r \in Runs, Deliver(p, r) PROVE Counted'
      <3>1. queue[r] \in 0 .. MaxDeliveries /\ queue[r] > 0
        BY <2>2 DEF Deliver
      <3>2. queue[r] - 1 \in 0 .. MaxDeliveries
        BY <1>0, <3>1
      <3>3. queue' = [queue EXCEPT ![r] = queue[r] - 1] /\ UNCHANGED faults
        BY <2>2 DEF Deliver
      <3> QED
        BY <3>2, <3>3
    <2> QED
      BY <1>2, <2>1, <2>2 DEF Begin, getOrCreateRun, stopRun,
         validateConfirmationResponse, readRun, sweep, NoEffect
  <1>3. ASSUME NEW p \in Procs, CreateStep(p)
        PROVE  Counted'
    <2>1. MaxDeliveries \in 0 .. MaxDeliveries
      BY <1>0
    <2>2. CASE UNCHANGED <<queue, faults>>
      BY <2>2
    <2>3. CASE enqueueThreadChatRunJob(p)
      BY <2>1, <2>3 DEF enqueueThreadChatRunJob
    <2>4. CASE enqueueFails(p)
      <3>1. faults' \in 0 .. MaxFaults
        BY <1>0, <2>4 DEF enqueueFails
      <3>2. queue' \in [Runs -> 0 .. MaxDeliveries]
        BY <2>1, <2>4 DEF enqueueFails
      <3> QED
        BY <3>1, <3>2
    <2> QED
      BY <1>3, <2>2, <2>3, <2>4 DEF CreateStep, recheckActiveRun, insertRun,
         failRunBeforeMessages, markQueued, NoEffect
  <1>4. ASSUME NEW p \in Procs, JobStep(p)
        PROVE  Counted'
    <2>1. CASE UNCHANGED <<queue, faults>>
      BY <2>1
    <2>2. CASE JobReturns(p)
      <3>1. 0 \in 0 .. MaxDeliveries
        BY <1>0
      <3> QED
        BY <2>2, <3>1 DEF JobReturns
    <2> QED
      BY <1>4, <2>1, <2>2 DEF JobStep, processRunJob, claimRun,
         cancelRunBeforeMessages, NoEffect
  <1>5. ASSUME NEW p \in Procs,
               RecoveryStep(p) \/ StopStep(p) \/ recordConfirmationResponse(p)
                 \/ MonitorStep(p) \/ EffectStep(p)
        PROVE  UNCHANGED <<queue, faults>>
    BY <1>5 DEF RecoveryStep, expireApprovalWaitingRun,
       completeApprovalRunIfNoPendingConfirmations, finishRunIfSnapshotIsTerminal,
       recoverIfStillStale, failStaleActiveRun, StopStep, requestCancel,
       forceCancelStoppedRun, recordConfirmationResponse, MonitorStep,
       checkRunOwnership, interruptActiveChatRuns, useProtectedTool, EffectStep,
       NoEffect, systemVars
  <1>6. ASSUME NEW p \in Procs, TurnStep(p)
        PROVE  UNCHANGED <<queue, faults>>
    BY <1>6 DEF TurnStep, heartbeat, appendEvent, appendRunEvent, streamEnds,
       turnThrows, startTerminalCommit, commitTurn, lostCommit, catchTurnError,
       flushPendingDelta, persistTerminalFailure, NoEffect
  <1>7. ASSUME NEW p \in Procs, FaultStep(p)
        PROVE  Counted'
    <2>1. faults < MaxFaults /\ faults' = faults + 1 /\ UNCHANGED queue
      BY <1>7 DEF FaultStep, EffectFails, DatabaseFails, Crash
    <2> QED
      BY <1>0, <2>1
  <1> QED
    BY <1>1, <1>2, <1>3, <1>4, <1>5, <1>6, <1>7 DEF SystemNext, HandlerStep

\* Every handler, event list and counter keeps its type, whatever the handlers,
\* monitors and faults do.
THEOREM SystemTypeCorrect == SystemSpec => []SystemTypeOK
  <1>1. SystemInit => Counted
    BY DurableRunAssumption DEF SystemInit, Counted
  <1>2. SystemSpec => []Counted
    BY <1>1, CountedStep, BaseHolds, PTL DEF SystemSpec
  <1>3. SystemBase /\ Witnessed /\ Counted => SystemTypeOK
    BY DEF SystemBase, IInv, LocalsSound, Witnessed, Counted, SystemTypeOK
  <1> QED
    BY <1>2, <1>3, BaseHolds, WitnessedHolds, PTL
=============================================================================
