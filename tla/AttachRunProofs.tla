--------------------------- MODULE AttachRunProofs ---------------------------
(***************************************************************************)
(* What an attached client learns, for any number of clients, handlers and *)
(* faults.  DurableRunProofs says that what is announced is the committed  *)
(* outcome and is told once; here it is that a failure is told before its  *)
(* finish, and that a completed run is never told to have failed.  A       *)
(* client that follows the list sees a prefix of it, and what the list     *)
(* never says is synthesized from a row that has ended and stays as it is. *)
(***************************************************************************)
EXTENDS AttachRun, DurableRunProofs, WellFoundedInduction

-----------------------------------------------------------------------------
\* Numbers and lists

\* A set of numbers that is not empty has a least one: the smallest of the intervals
\* up to its elements.
LEMMA LeastElement ==
    ASSUME NEW S, S \subseteq Nat, S # {}
    PROVE  \E m \in S : \A k \in S : m <= k
  <1>1. PICK T : T = {0 .. i : i \in S}
    OBVIOUS
  <1>2. \A i \in S : IsFiniteSet(0 .. i)
    BY FS_Interval
  <1>3. T \subseteq FiniteSubsetsOf(Nat) /\ T # {}
    <2>1. ASSUME NEW i \in S PROVE (0 .. i) \in FiniteSubsetsOf(Nat)
      <3>1. 0 .. i \subseteq Nat
        OBVIOUS
      <3> QED
        BY <1>2, <3>1 DEF FiniteSubsetsOf
    <2>2. PICK i \in S : TRUE
      OBVIOUS
    <2> QED
      BY <1>1, <2>1, <2>2
  <1>4. IsWellFoundedOn(StrictSubsetOrdering(Nat), FiniteSubsetsOf(Nat))
    BY FS_StrictSubsetOrderingWellFounded
  <1>5. PICK least \in T : \A other \in T : <<other, least>> \notin StrictSubsetOrdering(Nat)
    BY <1>3, <1>4, WFMin
  <1>6. PICK m \in S : least = 0 .. m
    BY <1>1
  <1>7. ASSUME NEW k \in S, k < m
        PROVE  FALSE
    <2>1. (0 .. k) \in T
      BY <1>1
    <2>2. (0 .. k) \subseteq (0 .. m) /\ m \in 0 .. m /\ m \notin 0 .. k
      BY <1>7
    <2>3. <<0 .. k, 0 .. m>> \in StrictSubsetOrdering(Nat)
      BY <2>2 DEF StrictSubsetOrdering
    <2> QED
      BY <1>5, <1>6, <2>1, <2>3
  <1> QED
    BY <1>7

\* What is gone through of a list: the list, to its first finish.
LEMMA DeliveredFacts ==
    ASSUME NEW events \in Seq(Events)
    PROVE  /\ delivered(events) \in Seq(Events)
           /\ Len(delivered(events)) <= Len(events)
           /\ \A i \in 1 .. Len(delivered(events)) :
                 /\ delivered(events)[i] = events[i]
                 /\ i < Len(delivered(events)) => ~isFinish(events[i])
           /\ ~endsWithFinish(delivered(events)) =>
                 /\ Len(delivered(events)) = Len(events)
                 /\ \A i \in 1 .. Len(events) : ~isFinish(events[i])
  <1>1. PICK ends : ends = {i \in DOMAIN events : isFinish(events[i])}
    OBVIOUS
  <1>2. PICK last : last = IF ends = {} THEN Len(events)
                           ELSE CHOOSE i \in ends : \A j \in ends : i <= j
    OBVIOUS
  <1>3. delivered(events) = SubSeq(events, 1, last)
    BY <1>1, <1>2 DEF delivered
  <1>4. Len(events) \in Nat /\ DOMAIN events = 1 .. Len(events) /\ ends \subseteq Nat
    BY <1>1
  <1>5. ends # {} => last \in ends /\ \A j \in ends : last <= j
    BY <1>2, <1>4, LeastElement
  <1>6. last \in 0 .. Len(events)
    BY <1>1, <1>2, <1>4, <1>5
  <1>7. /\ delivered(events) \in Seq(Events) /\ Len(delivered(events)) = last
        /\ \A i \in 1 .. last : delivered(events)[i] = events[i]
    BY <1>3, <1>4, <1>6
  <1>8. ASSUME NEW i \in 1 .. Len(events), i < last PROVE i \notin ends
    <2>1. last \in Int /\ i \in Int /\ ~(last <= i)
      BY <1>4, <1>6, <1>8
    <2> QED
      BY <1>5, <2>1
  <1>9. \A i \in 1 .. last : i < last => ~isFinish(events[i])
    BY <1>1, <1>4, <1>6, <1>8
  <1>10. ASSUME ~endsWithFinish(delivered(events))
         PROVE  ends = {}
    <2>1. SUFFICES ASSUME ends # {} PROVE FALSE
      OBVIOUS
    <2>2. last \in DOMAIN events /\ isFinish(events[last])
      BY <1>1, <1>5, <2>1
    <2>3. delivered(events)[last] = events[last] /\ last > 0
      BY <1>4, <1>7, <2>2
    <2> QED
      BY <1>7, <1>10, <2>2, <2>3 DEF endsWithFinish
  <1>11. ends = {} => last = Len(events) /\ \A i \in 1 .. Len(events) : ~isFinish(events[i])
    BY <1>1, <1>2, <1>4
  <1> QED
    BY <1>6, <1>7, <1>9, <1>10, <1>11

-----------------------------------------------------------------------------
\* Which announcements there are, and in which order

\* A failure is announced before the end.
ErrorFirst(todo) == \E i, j \in DOMAIN todo : i < j /\ todo[i] = "error" /\ todo[j] = "finish"

HasError(events) == \E i \in DOMAIN events : events[i].type = "error"

\* The announcements of an outcome.
ListFits(todo, status) ==
    /\ "error" \in Announces(todo) => status # "completed"
    /\ "finish" \in Announces(todo) /\ status # "completed" => ErrorFirst(todo)

\* local owes the error of a run that failed or was cancelled only, and its finish
\* only after its error.
Fits(rows, lists, local) ==
    /\ Owes(local, "error") => GivenUp(rows, local.run)
    /\ Owes(local, "finish") /\ GivenUp(rows, local.run) =>
          ErrorFirst(local.todo) \/ HasError(lists[local.run])

\* A list tells an error of a run that failed or was cancelled only, and before the
\* finish.
InOrder(rows, lists, r) ==
    /\ HasError(lists[r]) => GivenUp(rows, r)
    /\ \A j \in DOMAIN lists[r] :
          lists[r][j].type = "finish" /\ GivenUp(rows, r) =>
             \E i \in DOMAIN lists[r] : i < j /\ lists[r][i].type = "error"

ToldInOrder ==
    /\ \A r \in Runs : InOrder(runs, stream, r)
    /\ \A p \in Procs : Fits(runs, stream, proc[p])

\* An outcome that p comes to owe in this step fits the row it has just committed.
FitsNow(p) ==
    /\ Owes(proc'[p], "error") => GivenUp(runs', proc'[p].run)
    /\ Owes(proc'[p], "finish") /\ GivenUp(runs', proc'[p].run) => ErrorFirst(proc'[p].todo)

\* What follows in a list keeps its order.
LEMMA Concatenated ==
    ASSUME NEW a \in Seq(Effects), NEW b \in Seq(Effects)
    PROVE  /\ Announces(a \o b) \subseteq Announces(a) \cup Announces(b)
           /\ ErrorFirst(b) => ErrorFirst(a \o b)
  <1>1. PICK todo : todo = a \o b
    OBVIOUS
  <1>2. /\ Len(a) \in Nat /\ Len(b) \in Nat /\ todo \in Seq(Effects)
        /\ Len(todo) = Len(a) + Len(b)
        /\ DOMAIN todo = 1 .. (Len(a) + Len(b))
        /\ \A i \in 1 .. Len(a) : todo[i] = a[i]
        /\ \A i \in 1 .. Len(b) : todo[Len(a) + i] = b[i]
    BY <1>1
  <1>3. ASSUME NEW i \in DOMAIN todo
        PROVE  \/ \E k \in DOMAIN a : todo[i] = a[k]
               \/ \E k \in DOMAIN b : todo[i] = b[k]
    <2>1. CASE i \in 1 .. Len(a)
      BY <1>2, <2>1
    <2>2. CASE i \notin 1 .. Len(a)
      <3>1. PICK k : k = i - Len(a)
        OBVIOUS
      <3>2. k \in 1 .. Len(b) /\ i = Len(a) + k
        BY <1>2, <2>2, <3>1
      <3> QED
        BY <1>2, <3>2
    <2> QED
      BY <2>1, <2>2
  <1>4. Announces(todo) \subseteq Announces(a) \cup Announces(b)
    BY <1>3 DEF Announces
  <1>5. ASSUME NEW i \in DOMAIN b, NEW j \in DOMAIN b, i < j, b[i] = "error", b[j] = "finish"
        PROVE  ErrorFirst(todo)
    <2>1. PICK k, l : k = Len(a) + i /\ l = Len(a) + j
      OBVIOUS
    <2>2. k \in DOMAIN todo /\ l \in DOMAIN todo /\ k < l
      BY <1>2, <1>5, <2>1
    <2>3. i \in 1 .. Len(b) /\ j \in 1 .. Len(b)
      OBVIOUS
    <2>4. todo[Len(a) + i] = b[i] /\ todo[Len(a) + j] = b[j]
      BY <1>2, <2>3
    <2> QED
      BY <1>5, <2>1, <2>2, <2>4 DEF ErrorFirst
  <1> QED
    BY <1>1, <1>4, <1>5 DEF ErrorFirst

LEMMA ListsFit ==
    /\ \A status \in TerminalStatuses \ {"completed"} :
          ListFits(<<"error", "finish", "release">>, status)
    /\ \A status \in TerminalStatuses : \A c :
          ListFits(ReleaseIf(c) \o TerminalEvents(status), status)
  <1>1. ErrorFirst(<<"error", "finish", "release">>) /\ ErrorFirst(<<"error", "finish">>)
    <2>1. PICK long, short : /\ long = <<"error", "finish", "release">>
                             /\ short = <<"error", "finish">>
      OBVIOUS
    <2>2. 1 \in DOMAIN long /\ 2 \in DOMAIN long /\ long[1] = "error" /\ long[2] = "finish"
      BY <2>1
    <2>3. 1 \in DOMAIN short /\ 2 \in DOMAIN short /\ short[1] = "error" /\ short[2] = "finish"
      BY <2>1
    <2> QED
      BY <2>1, <2>2, <2>3 DEF ErrorFirst
  <1>2. "error" \notin Announces(<<"finish">>)
    BY DEF Announces
  <1>3. ASSUME NEW status \in TerminalStatuses, NEW c
        PROVE  ListFits(ReleaseIf(c) \o TerminalEvents(status), status)
    <2>1. PICK a, b : a = ReleaseIf(c) /\ b = TerminalEvents(status)
      OBVIOUS
    <2>2. a \in Seq(Effects) /\ b \in Seq(Effects) /\ Announces(a) = {}
      BY <2>1, EffectLists
    <2>3. status = "completed" => "error" \notin Announces(b)
      BY <1>2, <2>1 DEF TerminalEvents
    <2>4. status # "completed" => ErrorFirst(b)
      BY <1>1, <2>1 DEF TerminalEvents
    <2> QED
      BY <2>1, <2>2, <2>3, <2>4, Concatenated DEF ListFits
  <1> QED
    BY <1>1, <1>3 DEF ListFits

\* What ended stays ended, with its status.
LEMMA EndedStays ==
    ASSUME SystemBase, [Next]_tableVars, NEW r \in Runs, runs[r].status \in TerminalStatuses
    PROVE  runs'[r].status = runs[r].status /\ runs'[r].errorCode = runs[r].errorCode
  <1>1. TypeOK /\ Terminal(r) /\ runs[r] \in Row
    BY DEF SystemBase, IInv, TypeOK, Terminal
  <1> QED
    BY <1>1, TerminalRowStep DEF Row

\* A step that ends no run makes nobody owe an outcome, except who did.
LEMMA QuietFits ==
    ASSUME SystemBase, NEW p \in Procs, ProcStep(p), proc[p].pc # "effects",
           \A r \in Runs : runs'[r].status \in TerminalStatuses
                              => runs[r].status \in TerminalStatuses
    PROVE  FitsNow(p)
  <1>1. SUFFICES ASSUME proc'[p].pc = "effects", Announces(proc'[p].todo) # {} PROVE FALSE
    BY DEF FitsNow, Owes
  <1>2. runs[proc'[p].run].status \notin TerminalStatuses
    BY <1>1 DEF ProcStep, KeepsEffects, WinsNow
  <1>3. runs'[proc'[p].run].status \in TerminalStatuses
    BY <1>1 DEF ProcStep, Covered, Told
  <1>4. proc'[p].run \in Runs
    BY <1>1 DEF ProcStep, LocalSound
  <1> QED
    BY <1>2, <1>3, <1>4

\* A handler elsewhere than at effects owes nothing.
LEMMA ElsewhereFits ==
    ASSUME NEW p \in Procs, proc'[p].pc # "effects" \/ Announces(proc'[p].todo) = {}
    PROVE  FitsNow(p)
  BY DEF FitsNow, Owes

\* What Do leaves: the effects, of the same run.
LEMMA DoOwes ==
    ASSUME LocalsSound, NEW p \in Procs, NEW todo, NEW code, NEW back \in Backs,
           Do(p, todo, code, back)
    PROVE  proc'[p].pc = "effects" => proc'[p].todo = todo /\ proc'[p].run = proc[p].run
  <1>1. CASE todo = <<>>
    <2>1. proc'[p] = Resume(proc[p], back)
      BY <1>1 DEF Do, LocalsSound
    <2>2. proc'[p].pc # "effects"
      BY <2>1, ResumeFields, IdleFields DEF Resume, Backs
    <2> QED
      BY <2>2
  <1>2. CASE todo # <<>>
    <2>1. PICK start : /\ start = Resume(proc[p], "effects")
                       /\ start = [pc |-> "effects", run |-> proc[p].run,
                                   want |-> proc[p].want, out |-> "open",
                                   why |-> "none", code |-> "none", todo |-> <<>>,
                                   back |-> "idle"]
      BY ResumeFields
    <2>2. proc'[p] = [start EXCEPT !.todo = todo, !.code = code, !.back = back]
      BY <1>2, <2>1 DEF Do, LocalsSound
    <2> QED
      BY <2>1, <2>2
  <1> QED
    BY <1>1, <1>2

\* Whoever ends a run owes announcements that fit its outcome.
LEMMA EndFits ==
    ASSUME TypeOK, NEW p \in Procs, proc[p].run \in Runs,
           NEW status \in TerminalStatuses, NEW code, NEW ifStale,
           finishChatThreadRun(proc[p].run, status, code, ifStale),
           NEW todo, ListFits(todo, status),
           proc'[p].pc = "effects" => proc'[p].todo = todo /\ proc'[p].run = proc[p].run
    PROVE  FitsNow(p)
  <1>1. runs'[proc[p].run].status = status
    BY DEF finishChatThreadRun, ended, TypeOK, Row
  <1>2. GivenUp(runs', proc[p].run) <=> status # "completed"
    BY <1>1 DEF GivenUp, TerminalStatuses
  <1> QED
    BY <1>2 DEF FitsNow, Owes, ListFits

\* A handler that only reads comes to owe nothing.
LEMMA ReadOnlyFits ==
    ASSUME SystemBase, NEW p \in Procs, ProcStep(p), proc[p].pc # "effects", ReadOnly
    PROVE  FitsNow(p)
  BY QuietFits DEF ReadOnly, tableVars

\* A terminal commit, and the effects it leaves to do.
LEMMA CommitFits ==
    ASSUME SystemBase, NEW p \in Procs, proc[p].run \in Runs,
           NEW status \in TerminalStatuses, NEW code, NEW ifStale,
           finishChatThreadRun(proc[p].run, status, code, ifStale),
           NEW todo, ListFits(todo, status), NEW told, NEW back \in Backs,
           Do(p, todo, told, back)
    PROVE  FitsNow(p)
  BY DoOwes, EndFits DEF SystemBase, IInv

LEMMA SilentLists ==
    /\ \A status : ListFits(<<>>, status)
    /\ \A status, c : ListFits(ReleaseIf(c), status)
  BY EffectLists DEF ListFits

\* A handler that ends, or goes elsewhere, owes nothing.
LEMMA EndsFit ==
    ASSUME SystemBase, NEW p \in Procs, End(p)
    PROVE  FitsNow(p)
  <1>1. proc'[p] = Resume(proc[p], Home(p))
    BY DEF End, SystemBase, LocalsSound
  <1>2. proc'[p].pc # "effects"
    BY <1>1, ResumeFields, IdleFields DEF Resume, Home
  <1> QED
    BY <1>2, ElsewhereFits

LEMMA GoesFit ==
    ASSUME SystemBase, NEW p \in Procs, NEW pc, pc # "effects", GoTo(p, pc)
    PROVE  FitsNow(p)
  <1>1. proc'[p].pc = pc
    BY DEF GoTo, SystemBase, LocalsSound, Local
  <1> QED
    BY <1>1, ElsewhereFits

LEMMA ThrowsFit ==
    ASSUME SystemBase, NEW p \in Procs, NEW code, Throw(p, code)
    PROVE  FitsNow(p)
  <1>1. proc'[p].pc = "catch"
    BY DEF Throw, SystemBase, LocalsSound, Local
  <1> QED
    BY <1>1, ElsewhereFits

LEMMA RecoveryFits ==
    ASSUME SystemBase, NEW p \in Procs, RecoveryStep(p)
    PROVE  FitsNow(p)
  <1>1. ProcStep(p)
    BY RecoveryStepSound
  <1>2. /\ proc[p].pc \in RecoveryPcs /\ proc[p].pc # "effects"
        /\ LocalSound(p, proc[p])
    BY DEF RecoveryStep, expireApprovalWaitingRun, At, RecoveryPcs,
       completeApprovalRunIfNoPendingConfirmations, finishRunIfSnapshotIsTerminal,
       recoverIfStillStale, failStaleActiveRun, SystemBase, LocalsSound
  <1>3. proc[p].run \in Runs /\ proc[p].back \in Backs
    BY <1>2 DEF LocalSound, RecoveryPcs, ExecPcs, TurnPcs
  <1>4. "failed" \in TerminalStatuses \ {"completed"} /\ "completed" \in TerminalStatuses
        /\ "cancelled" \in TerminalStatuses \ {"completed"}
    BY DEF TerminalStatuses
  <1>5. CASE ReadOnly
    BY <1>1, <1>2, <1>5, ReadOnlyFits
  <1>6. CASE expireApprovalWaitingRun(p) /\ ~ReadOnly
    BY <1>3, <1>4, <1>6, ListsFit, CommitFits DEF expireApprovalWaitingRun, Run
  <1>7. CASE completeApprovalRunIfNoPendingConfirmations(p) /\ ~ReadOnly
    BY <1>3, <1>4, <1>7, SilentLists, CommitFits
       DEF completeApprovalRunIfNoPendingConfirmations, Run
  <1>8. CASE finishRunIfSnapshotIsTerminal(p) /\ ~ReadOnly
    <2>1. proc[p].out \in TerminalStatuses
      BY <1>2, <1>8 DEF finishRunIfSnapshotIsTerminal, At, LocalSound, Ending
    <2> QED
      BY <1>3, <1>8, <2>1, SilentLists, CommitFits DEF finishRunIfSnapshotIsTerminal, Run
  <1>9. CASE failStaleActiveRun(p) /\ ~ReadOnly
    BY <1>3, <1>4, <1>9, ListsFit, CommitFits DEF failStaleActiveRun, Run
  <1>10. recoverIfStillStale(p) => ReadOnly
    BY DEF recoverIfStillStale
  <1> QED
    BY <1>5, <1>6, <1>7, <1>8, <1>9, <1>10 DEF RecoveryStep

LEMMA CreateFits ==
    ASSUME SystemBase, NEW p \in Procs, CreateStep(p)
    PROVE  FitsNow(p)
  <1>1. ProcStep(p)
    BY CreateStepSound
  <1>2. /\ proc[p].pc # "effects" /\ LocalSound(p, proc[p])
        /\ LocalsSound /\ proc[p] \in Local
    BY DEF CreateStep, recheckActiveRun, insertRun, enqueueThreadChatRunJob, enqueueFails,
       failRunBeforeMessages, markQueued, At, SystemBase, LocalsSound
  <1>3. CASE ReadOnly
    BY <1>1, <1>2, <1>3, ReadOnlyFits
  <1>4. CASE insertRun(p) /\ ~ReadOnly
    <2>1. PICK r : proc' = [proc EXCEPT ![p] = [Idle EXCEPT !.pc = "enqueue", !.run = r]]
      BY <1>4 DEF insertRun
    <2>2. proc'[p].pc = "enqueue"
      BY <1>2, <2>1 DEF LocalsSound, Idle
    <2> QED
      BY <2>2, ElsewhereFits
  <1>5. CASE failRunBeforeMessages(p) /\ ~ReadOnly
    <2>1. proc[p].run \in Runs /\ "idle" \in Backs
      BY <1>2, <1>5 DEF failRunBeforeMessages, At, LocalSound, Backs
    <2>2. "failed" \in TerminalStatuses \ {"completed"}
      BY DEF TerminalStatuses
    <2> QED
      BY <1>5, <2>1, <2>2, ListsFit, CommitFits DEF failRunBeforeMessages, Run
  <1>6. CASE markQueued(p)
    BY <1>6, EndsFit DEF markQueued
  <1>7. recheckActiveRun(p) \/ enqueueThreadChatRunJob(p) \/ enqueueFails(p) => ReadOnly
    BY DEF recheckActiveRun, enqueueThreadChatRunJob, enqueueFails
  <1> QED
    BY <1>3, <1>4, <1>5, <1>6, <1>7 DEF CreateStep

LEMMA StopFits ==
    ASSUME SystemBase, NEW p \in Procs, StopStep(p)
    PROVE  FitsNow(p)
  <1>1. ProcStep(p)
    BY StopStepSound
  <1>2. /\ proc[p].pc # "effects" /\ LocalSound(p, proc[p]) /\ proc[p].run \in Runs
        /\ LocalsSound
    BY DEF StopStep, requestCancel, forceCancelStoppedRun, At, SystemBase, LocalsSound,
       LocalSound
  <1>3. CASE ReadOnly
    BY <1>1, <1>2, <1>3, ReadOnlyFits
  <1>4. CASE End(p)
    BY <1>4, EndsFit
  <1>5. "idle" \in Backs /\ "force_cancel" \in Backs
        /\ "cancelled" \in TerminalStatuses \ {"completed"}
    BY DEF Backs, TerminalStatuses
  <1>6. CASE Do(p, <<"stop">>, "none", "force_cancel")
    <2>1. proc'[p].pc = "effects" => Announces(proc'[p].todo) = {}
      BY <1>2, <1>5, <1>6, DoOwes, EffectLists
    <2> QED
      BY <2>1, ElsewhereFits
  <1>7. CASE forceCancelStoppedRun(p) /\ ~ReadOnly
    BY <1>2, <1>5, <1>7, ListsFit, CommitFits DEF forceCancelStoppedRun, Run
  <1>8. requestCancel(p) => ReadOnly \/ End(p) \/ Do(p, <<"stop">>, "none", "force_cancel")
    BY DEF requestCancel
  <1> QED
    BY <1>3, <1>4, <1>6, <1>7, <1>8 DEF StopStep

LEMMA JobFits ==
    ASSUME SystemBase, NEW p \in Procs, JobStep(p)
    PROVE  FitsNow(p)
  <1>1. ProcStep(p)
    BY JobStepSound
  <1>2. /\ proc[p].pc # "effects" /\ LocalSound(p, proc[p])
    BY DEF JobStep, processRunJob, claimRun, cancelRunBeforeMessages, JobReturns, At,
       SystemBase, LocalsSound
  <1>3. CASE ReadOnly
    BY <1>1, <1>2, <1>3, ReadOnlyFits
  <1>4. CASE claimRun(p) /\ ~ReadOnly
    BY <1>4, GoesFit DEF claimRun
  <1>5. CASE cancelRunBeforeMessages(p) /\ ~ReadOnly
    <2>1. proc[p].run \in Runs /\ "return" \in Backs
      BY <1>2, <1>5 DEF cancelRunBeforeMessages, At, LocalSound, Backs
    <2>2. "cancelled" \in TerminalStatuses \ {"completed"}
      BY DEF TerminalStatuses
    <2> QED
      BY <1>5, <2>1, <2>2, ListsFit, CommitFits DEF cancelRunBeforeMessages, Run
  <1>6. processRunJob(p) \/ JobReturns(p) => ReadOnly
    BY DEF processRunJob, JobReturns
  <1> QED
    BY <1>3, <1>4, <1>5, <1>6 DEF JobStep

LEMMA CommitTurnFits ==
    ASSUME SystemBase, NEW p \in Procs, commitTurn(p)
    PROVE  FitsNow(p)
  <1>1. /\ proc[p].pc = "commit" /\ LocalSound(p, proc[p])
        /\ proc[p].run \in Runs /\ LocalsSound /\ TypeOK /\ proc[p] \in Local
    BY DEF commitTurn, At, SystemBase, LocalsSound, LocalSound, IInv
  <1>2. CASE CommitEffects(p, <<"paused_finish">>)
    <2>1. proc'[p].todo = <<"paused_finish">>
      BY <1>1, <1>2 DEF CommitEffects, LocalsSound, Local
    <2> QED
      BY <2>1, EffectLists, ElsewhereFits
  <1>3. ASSUME NEW todo, proc[p].out # "paused",
               finishChatThreadRun(proc[p].run, proc[p].out, proc[p].code, FALSE),
               CommitEffects(p, todo), \A status \in TerminalStatuses :
                  status = proc[p].out => ListFits(todo, status)
        PROVE  FitsNow(p)
    <2>1. proc'[p].todo = todo /\ proc'[p].run = proc[p].run
      BY <1>1, <1>3 DEF CommitEffects, LocalsSound, Local
    <2>2. proc[p].out \in TerminalStatuses
      BY <1>1, <1>3 DEF LocalSound, Ending
    <2> QED
      BY <1>1, <1>3, <2>1, <2>2, EndFits
  <1>4. CASE GoTo(p, "lost")
    BY <1>4, GoesFit
  <1> QED
    BY <1>2, <1>3, <1>4, ListsFit DEF commitTurn, Run

LEMMA TurnFits ==
    ASSUME SystemBase, NEW p \in Procs, TurnStep(p)
    PROVE  FitsNow(p)
  <1>1. ProcStep(p)
    BY TurnStepSound
  <1>2. LocalsSound /\ proc[p] \in Local /\ LocalSound(p, proc[p])
    BY DEF SystemBase, LocalsSound
  <1>3. proc[p].pc # "effects"
    BY DEF TurnStep, heartbeat, appendEvent, appendRunEvent, streamEnds, turnThrows,
       startTerminalCommit, commitTurn, lostCommit, catchTurnError, flushPendingDelta,
       persistTerminalFailure, At
  <1>4. CASE ReadOnly
    BY <1>1, <1>3, <1>4, ReadOnlyFits
  <1>5. CASE heartbeat(p)
    <2>1. ASSUME proc' = [proc EXCEPT ![p].pc = "push", ![p].back = proc[p].pc]
          PROVE  proc'[p].pc = "push"
      BY <1>2, <2>1 DEF LocalsSound, Local
    <2> QED
      BY <1>5, <2>1, ElsewhereFits, ThrowsFit DEF heartbeat
  <1>6. CASE appendRunEvent(p)
    <2>1. proc[p].back \in {"turn", "tail", "persist"} /\ GoTo(p, proc[p].back)
      BY <1>2, <1>6 DEF appendRunEvent, At, LocalSound
    <2> QED
      BY <2>1, GoesFit
  <1>7. CASE commitTurn(p)
    BY <1>7, CommitTurnFits
  <1>8. CASE flushPendingDelta(p)
    <2>1. PICK pc \in {"persist", "push"} :
             proc' = [proc EXCEPT ![p].pc = pc, ![p].back = "persist"]
      BY <1>8 DEF flushPendingDelta
    <2>2. proc'[p].pc = pc
      BY <1>2, <2>1 DEF LocalsSound, Local
    <2> QED
      BY <2>1, <2>2, ElsewhereFits
  <1>9. CASE persistTerminalFailure(p) /\ ~ReadOnly
    <2>1. proc[p].run \in Runs /\ "return" \in Backs
      BY <1>2, <1>9 DEF persistTerminalFailure, LocalSound, Backs
    <2>2. terminalStatusOf(proc[p].code) \in TerminalStatuses
      BY DEF terminalStatusOf, TerminalStatuses
    <2> QED
      BY <1>9, <2>1, <2>2, ListsFit, CommitFits DEF persistTerminalFailure, Run
  <1>10. appendEvent(p) \/ streamEnds(p) \/ turnThrows(p) \/ startTerminalCommit(p)
         \/ lostCommit(p) \/ catchTurnError(p) => ReadOnly
    BY DEF appendEvent, streamEnds, turnThrows, startTerminalCommit, lostCommit,
       catchTurnError
  <1> QED
    BY <1>4, <1>5, <1>6, <1>7, <1>8, <1>9, <1>10 DEF TurnStep

\* Every step but the work on the effects leaves each handler with what it had, or
\* with announcements that fit what it has just committed.
LEMMA StepFits ==
    ASSUME SystemBase, [SystemNext]_vars, NEW p \in Procs
    PROVE  \/ proc'[p] = proc[p]
           \/ FitsNow(p)
           \/ EffectStep(p) \/ EffectFails(p)
  <1>1. CASE UNCHANGED proc
    BY <1>1
  <1>2. ASSUME NEW s \in Procs, ProcStep(s), s # p
        PROVE  proc'[p] = proc[p]
    BY <1>2 DEF ProcStep
  <1>3. ASSUME NEW s \in Procs, HandlerStep(s)
        PROVE  ProcStep(s) /\ (FitsNow(s) \/ EffectStep(s))
    <2>1. ProcStep(s)
      BY <1>3, RecoveryStepSound, CreateStepSound, StopStepSound, RecordSound, JobStepSound,
         TurnStepSound, EffectStepSound DEF HandlerStep
    <2>2. recordConfirmationResponse(s) => FitsNow(s)
      BY EndsFit DEF recordConfirmationResponse
    <2> QED
      BY <1>3, <2>1, <2>2, RecoveryFits, CreateFits, StopFits, JobFits, TurnFits
         DEF HandlerStep
  <1>4. ASSUME NEW s \in Procs, Begin(s)
        PROVE  ProcStep(s) /\ FitsNow(s)
    <2>1. ProcStep(s) /\ proc[s].pc # "effects" /\ ReadOnly
      BY <1>4, BeginSound DEF Begin, getOrCreateRun, stopRun, validateConfirmationResponse,
         readRun, sweep, Deliver, At
    <2> QED
      BY <2>1, ReadOnlyFits
  <1>5. ASSUME NEW s \in Procs, checkRunOwnership(s) \/ interruptActiveChatRuns(s)
        PROVE  ProcStep(s) /\ FitsNow(s)
    <2>1. ProcStep(s) /\ proc[s].pc # "effects" /\ ReadOnly
      BY <1>5, AbortSound DEF checkRunOwnership, interruptActiveChatRuns, Abortable
    <2> QED
      BY <2>1, ReadOnlyFits
  <1>6. ASSUME NEW s \in Procs, FaultStep(s)
        PROVE  ProcStep(s) /\ (FitsNow(s) \/ EffectFails(s))
    <2>1. ProcStep(s)
      BY <1>6, FaultStepSound
    <2>2. CASE DatabaseFails(s)
      <3>1. proc[s].pc # "effects" /\ ReadOnly
        BY <2>2 DEF DatabaseFails
      <3> QED
        BY <2>1, <3>1, ReadOnlyFits
    <2>3. CASE Crash(s)
      <3>1. proc'[s].pc # "effects"
        BY <2>3, IdleFields DEF Crash, SystemBase, LocalsSound
      <3> QED
        BY <2>1, <3>1, ElsewhereFits
    <2> QED
      BY <1>6, <2>1, <2>2, <2>3 DEF FaultStep
  <1>7. UNCHANGED vars \/ EnvironmentStep \/ (\E s \in Procs : useProtectedTool(s))
           => UNCHANGED proc
    BY DEF vars, EnvironmentStep, publishArtifact, systemVars, useProtectedTool
  <1> QED
    BY <1>1, <1>2, <1>3, <1>4, <1>5, <1>6, <1>7 DEF SystemNext, MonitorStep

-----------------------------------------------------------------------------
\* The announcements are worked off in order

\* What is left of a list whose error comes before its finish.
LEMMA RestInOrder ==
    ASSUME NEW todo \in Seq(Effects), todo # <<>>, ErrorFirst(todo)
    PROVE  Head(todo) = "error" \/ ErrorFirst(Tail(todo))
  <1>1. PICK i \in DOMAIN todo, j \in DOMAIN todo :
           i < j /\ todo[i] = "error" /\ todo[j] = "finish"
    BY DEF ErrorFirst
  <1>2. PICK rest : rest = Tail(todo)
    OBVIOUS
  <1>3. /\ Len(todo) \in Nat \ {0} /\ DOMAIN todo = 1 .. Len(todo)
        /\ DOMAIN rest = 1 .. (Len(todo) - 1)
        /\ \A k \in 1 .. (Len(todo) - 1) : rest[k] = todo[k + 1]
        /\ Head(todo) = todo[1]
    BY <1>2
  <1>4. CASE i # 1
    <2>1. PICK k, l : k = i - 1 /\ l = j - 1
      OBVIOUS
    <2>2. /\ k \in 1 .. (Len(todo) - 1) /\ l \in 1 .. (Len(todo) - 1) /\ k < l
          /\ k + 1 = i /\ l + 1 = j
      BY <1>1, <1>3, <1>4, <2>1
    <2>3. rest[k] = "error" /\ rest[l] = "finish"
      BY <1>1, <1>3, <2>2
    <2> QED
      BY <1>2, <1>3, <2>2, <2>3 DEF ErrorFirst
  <1> QED
    BY <1>1, <1>3, <1>4

\* A list only grows.
LEMMA ListsGrow ==
    ASSUME SystemBase, Witnessed, [SystemNext]_vars, NEW r \in Runs
    PROVE  /\ stream[r] \in Seq(Events) /\ stream'[r] \in Seq(Events)
           /\ DOMAIN stream[r] \subseteq DOMAIN stream'[r]
           /\ Len(stream[r]) <= Len(stream'[r])
           /\ \A i \in DOMAIN stream[r] : stream'[r][i] = stream[r][i]
  <1>1. Witnessed'
    BY WitnessedStep
  <1>2. stream[r] \in Seq(Events) /\ stream'[r] \in Seq(Events)
    BY <1>1 DEF Witnessed
  <1>3. CASE stream'[r] = stream[r]
    BY <1>2, <1>3
  <1>4. ASSUME NEW event, stream'[r] = Append(stream[r], event)
        PROVE  /\ DOMAIN stream[r] \subseteq DOMAIN stream'[r]
               /\ Len(stream[r]) <= Len(stream'[r])
               /\ \A i \in DOMAIN stream[r] : stream'[r][i] = stream[r][i]
    BY <1>2, <1>4
  <1>5. ASSUME NEW s \in Runs, NEW type, NEW code, Push(s, type, code)
        PROVE  stream'[r] = stream[r] \/ \E event : stream'[r] = Append(stream[r], event)
    BY <1>5 DEF Push, Witnessed
  <1> QED
    BY <1>2, <1>3, <1>4, <1>5, SideEffects

\* A handler at its effects performs the next one and goes on with the others, or
\* abandons the announcements.
LEMMA EffectFits ==
    ASSUME SystemBase, Witnessed, [SystemNext]_vars, NEW p \in Procs,
           Fits(runs, stream, proc[p]), EffectStep(p) \/ EffectFails(p)
    PROVE  Fits(runs', stream', proc'[p])
  <1>1. /\ proc[p].pc = "effects" /\ LocalsSound /\ proc[p] \in Local
        /\ Outside(p, proc[p]) /\ proc[p].run \in Runs
        /\ proc[p].todo \in Seq(Effects) /\ proc[p].todo # <<>>
    BY AtEffects DEF EffectStep, EffectFails, At, Outside
  <1>2. runs' = runs
    BY DEF EffectStep, EffectFails, ReadOnly, tableVars
  <1>3. ASSUME Announces(proc'[p].todo) = {} \/ proc'[p].pc # "effects"
        PROVE  Fits(runs', stream', proc'[p])
    BY <1>3 DEF Fits, Owes
  <1>4. ASSUME NEW back \in Backs, proc'[p] = Resume(proc[p], back)
        PROVE  proc'[p].pc # "effects"
    BY <1>4, ResumeFields, IdleFields DEF Resume, Backs
  <1>5. ASSUME proc' = [proc EXCEPT ![p] = afterEffect(@)],
               Head(proc[p].todo) = "error" => HasError(stream'[proc[p].run])
        PROVE  Fits(runs', stream', proc'[p])
    <2>1. proc'[p] = afterEffect(proc[p])
      BY <1>1, <1>5 DEF LocalsSound
    <2>2. CASE Tail(proc[p].todo) = <<>>
      BY <1>1, <1>3, <1>4, <2>1, <2>2 DEF afterEffect, Outside
    <2>3. CASE Tail(proc[p].todo) # <<>>
      <3>1. /\ proc'[p].todo = Tail(proc[p].todo) /\ proc'[p].run = proc[p].run
            /\ proc'[p].pc = "effects"
        BY <1>1, <2>1, <2>3 DEF afterEffect, Local
      <3>2. Announces(proc'[p].todo) \subseteq Announces(proc[p].todo)
        BY <1>1, <3>1, RestOfEffects
      <3>3. \A type : Owes(proc'[p], type) => Owes(proc[p], type)
        BY <1>1, <3>2 DEF Owes
      <3>4. HasError(stream[proc[p].run]) => HasError(stream'[proc[p].run])
        BY <1>1, ListsGrow DEF HasError
      <3>5. ErrorFirst(proc[p].todo) =>
               ErrorFirst(proc'[p].todo) \/ HasError(stream'[proc[p].run])
        BY <1>1, <1>5, <3>1, RestInOrder
      <3> QED
        BY <1>2, <3>1, <3>3, <3>4, <3>5 DEF Fits
    <2> QED
      BY <2>2, <2>3
  <1>6. ASSUME performEffect(p, Head(proc[p].todo)), Head(proc[p].todo) = "error"
        PROVE  HasError(stream'[proc[p].run])
    <2>1. PICK event : event = [type |-> "error", code |-> proc[p].code]
      OBVIOUS
    <2>2. stream' = [stream EXCEPT ![proc[p].run] = Append(stream[proc[p].run], event)]
      BY <1>6, <2>1 DEF performEffect, Push, Run
    <2>3. stream[proc[p].run] \in Seq(Events) /\ stream \in [Runs -> Seq(Events)]
      BY <1>1 DEF Witnessed
    <2>4. stream'[proc[p].run] = Append(stream[proc[p].run], event)
      BY <1>1, <2>2, <2>3
    <2>5. /\ Len(stream[proc[p].run]) + 1 \in DOMAIN stream'[proc[p].run]
          /\ stream'[proc[p].run][Len(stream[proc[p].run]) + 1] = event
      BY <2>3, <2>4
    <2> QED
      BY <2>1, <2>5 DEF HasError
  <1>7. CASE EffectStep(p)
    BY <1>5, <1>6, <1>7 DEF EffectStep
  <1>8. CASE EffectFails(p)
    <2>1. CASE proc' = [proc EXCEPT ![p] = afterEffect(@)] /\ Head(proc[p].todo) = "release"
      BY <1>5, <2>1
    <2>2. CASE proc' = [proc EXCEPT ![p] = abandonEffects(@, p)]
      <3>1. proc'[p] = abandonEffects(proc[p], p)
        BY <1>1, <2>2 DEF LocalsSound
      <3>2. CASE proc'[p] = Resume(proc[p], Home(p))
        BY <1>3, <1>4, <3>2 DEF Home, Backs
      <3>3. CASE proc'[p] = [proc[p] EXCEPT !.todo = <<"release">>, !.back = Home(p)]
        <4>1. proc'[p].todo = <<"release">>
          BY <1>1, <3>3 DEF Local
        <4> QED
          BY <1>3, <4>1, EffectLists
      <3> QED
        BY <3>1, <3>2, <3>3 DEF abandonEffects
    <2>3. CASE Throw(p, "CHAT_RUN_FAILED")
      <3>1. proc'[p].pc = "catch"
        BY <1>1, <2>3 DEF Throw, LocalsSound, Local
      <3> QED
        BY <1>3, <3>1
    <2> QED
      BY <1>8, <2>1, <2>2, <2>3 DEF EffectFails
  <1> QED
    BY <1>7, <1>8

-----------------------------------------------------------------------------
\* A failure is told before its finish

\* What is told, or owed, tells of a run that has ended and stays as it is.
LEMMA TermsStay ==
    ASSUME SystemBase, [SystemNext]_vars, NEW r \in Runs, runs[r].status \in TerminalStatuses
    PROVE  /\ runs'[r].status = runs[r].status /\ runs'[r].errorCode = runs[r].errorCode
           /\ GivenUp(runs', r) <=> GivenUp(runs, r)
  <1>1. runs'[r].status = runs[r].status /\ runs'[r].errorCode = runs[r].errorCode
    BY SystemStep, EndedStays
  <1> QED
    BY <1>1 DEF GivenUp

\* An event is added to a list: an announcement by a handler that owes it next,
\* anything else by anybody.
LEMMA InOrderStep ==
    ASSUME SystemBase, Witnessed, ToldOnce, ToldInOrder, [SystemNext]_vars, NEW r \in Runs
    PROVE  InOrder(runs', stream', r)
  <1>1. /\ stream \in [Runs -> Seq(Events)] /\ stream[r] \in Seq(Events)
        /\ InOrder(runs, stream, r)
    BY DEF Witnessed, ToldInOrder
  <1>2. ASSUME stream'[r] = stream[r]
        PROVE  InOrder(runs', stream', r)
    <2>1. \A i \in DOMAIN stream[r] : stream[r][i].type \in Announcements
             => (GivenUp(runs', r) <=> GivenUp(runs, r))
      BY TermsStay DEF ToldOnce
    <2> QED
      BY <1>1, <1>2, <2>1 DEF InOrder, HasError, Announcements
  <1>3. ASSUME NEW event, stream'[r] = Append(stream[r], event),
               event.type \in Announcements => runs[r].status \in TerminalStatuses,
               event.type = "error" => GivenUp(runs, r),
               event.type = "finish" /\ GivenUp(runs, r) => HasError(stream[r])
        PROVE  InOrder(runs', stream', r)
    <2>1. PICK n : n = Len(stream[r])
      OBVIOUS
    <2>2. /\ n \in Nat /\ DOMAIN stream[r] = 1 .. n /\ DOMAIN stream'[r] = 1 .. (n + 1)
          /\ \A i \in 1 .. n : stream'[r][i] = stream[r][i]
          /\ stream'[r][n + 1] = event
      BY <1>1, <1>3, <2>1
    <2>3. \A i \in DOMAIN stream'[r] : stream'[r][i].type \in Announcements
             => (GivenUp(runs', r) <=> GivenUp(runs, r))
      <3>1. ASSUME NEW i \in DOMAIN stream'[r], stream'[r][i].type \in Announcements
            PROVE  runs[r].status \in TerminalStatuses
        <4>1. CASE i \in DOMAIN stream[r]
          BY <2>2, <3>1, <4>1 DEF ToldOnce
        <4>2. CASE i = n + 1
          BY <1>3, <2>2, <3>1, <4>2
        <4> QED
          BY <2>2, <4>1, <4>2
      <3> QED
        BY <3>1, TermsStay
    <2>4. ASSUME NEW i \in DOMAIN stream'[r], stream'[r][i].type = "error"
          PROVE  GivenUp(runs', r)
      <3>1. CASE i \in DOMAIN stream[r]
        BY <1>1, <2>2, <2>3, <2>4, <3>1 DEF InOrder, HasError, Announcements
      <3>2. CASE i = n + 1
        BY <1>3, <2>2, <2>3, <2>4, <3>2 DEF Announcements
      <3> QED
        BY <2>2, <3>1, <3>2
    <2>5. ASSUME NEW j \in DOMAIN stream'[r], stream'[r][j].type = "finish",
                 GivenUp(runs', r)
          PROVE  \E i \in DOMAIN stream'[r] : i < j /\ stream'[r][i].type = "error"
      <3>1. GivenUp(runs, r)
        BY <2>3, <2>5 DEF Announcements
      <3>2. CASE j \in DOMAIN stream[r]
        <4>1. PICK i \in DOMAIN stream[r] : i < j /\ stream[r][i].type = "error"
          BY <1>1, <2>2, <2>5, <3>1, <3>2 DEF InOrder
        <4>2. i \in DOMAIN stream'[r] /\ stream'[r][i] = stream[r][i]
          BY <2>2
        <4> QED
          BY <4>1, <4>2
      <3>3. CASE j = n + 1
        <4>1. PICK i \in DOMAIN stream[r] : stream[r][i].type = "error"
          BY <1>3, <2>2, <2>5, <3>1, <3>3 DEF HasError
        <4>2. i \in DOMAIN stream'[r] /\ stream'[r][i] = stream[r][i] /\ i < j
          BY <2>2, <3>3
        <4> QED
          BY <4>1, <4>2
      <3> QED
        BY <2>2, <3>2, <3>3
    <2> QED
      BY <2>4, <2>5 DEF InOrder, HasError
  <1>4. ASSUME NEW s \in Runs, NEW type \in EventTypes \ Announcements, NEW code,
               Push(s, type, code)
        PROVE  InOrder(runs', stream', r)
    <2>1. PICK event : event = [type |-> type, code |-> code]
      OBVIOUS
    <2>2. event.type = type /\ stream' = [stream EXCEPT ![s] = Append(stream[s], event)]
      BY <1>4, <2>1 DEF Push
    <2>3. CASE s = r
      <3>1. stream'[r] = Append(stream[r], event)
        BY <1>1, <2>2, <2>3
      <3> QED
        BY <1>3, <1>4, <2>2, <3>1 DEF Announcements
    <2>4. CASE s # r
      BY <1>1, <1>2, <2>2, <2>4
    <2> QED
      BY <2>3, <2>4
  <1>5. ASSUME NEW p \in Procs, NEW type \in Announcements, Tells(p, type)
        PROVE  InOrder(runs', stream', r)
    <2>1. PICK code : Push(proc[p].run, type, code)
      BY <1>5 DEF Tells
    <2>2. PICK event : event = [type |-> type, code |-> code]
      OBVIOUS
    <2>3. /\ event.type = type
          /\ stream' = [stream EXCEPT ![proc[p].run] = Append(stream[proc[p].run], event)]
      BY <2>1, <2>2 DEF Push
    <2>4. /\ Owes(proc[p], type) /\ proc[p].run \in Runs
          /\ runs[proc[p].run].status \in TerminalStatuses
      BY <1>5, OwedIsCommitted DEF Tells
    <2>5. Fits(runs, stream, proc[p])
      BY DEF ToldInOrder
    <2>6. type = "error" => GivenUp(runs, proc[p].run)
      BY <2>4, <2>5 DEF Fits
    <2>7. ASSUME type = "finish", ErrorFirst(proc[p].todo)
          PROVE  FALSE
      <3>1. /\ proc[p].todo \in Seq(Effects) /\ proc[p].todo # <<>> /\ Once(proc[p].todo)
            /\ Head(proc[p].todo) = "finish"
        BY <1>5, <2>4, <2>7, AtEffects DEF Owes, Tells
      <3>2. 1 \in DOMAIN proc[p].todo /\ proc[p].todo[1] = "finish"
        BY <3>1
      <3>3. PICK i \in DOMAIN proc[p].todo, j \in DOMAIN proc[p].todo :
               i < j /\ proc[p].todo[i] = "error" /\ proc[p].todo[j] = "finish"
        BY <2>7 DEF ErrorFirst
      <3>4. j = 1
        BY <3>1, <3>2, <3>3 DEF Once
      <3>5. DOMAIN proc[p].todo \subseteq Nat \ {0}
        BY <3>1
      <3> QED
        BY <3>3, <3>4, <3>5
    <2>8. type = "finish" /\ GivenUp(runs, proc[p].run) => HasError(stream[proc[p].run])
      BY <2>4, <2>5, <2>7 DEF Fits
    <2>9. CASE proc[p].run = r
      <3>1. stream'[r] = Append(stream[r], event)
        BY <1>1, <2>3, <2>9
      <3> QED
        BY <1>3, <2>3, <2>4, <2>6, <2>8, <2>9, <3>1
    <2>10. CASE proc[p].run # r
      BY <1>1, <1>2, <2>3, <2>10
    <2> QED
      BY <2>9, <2>10
  <1> QED
    BY <1>2, <1>4, <1>5, Pushes

LEMMA InOrderInit == SystemInit => ToldOnce /\ ToldInOrder
  BY IdleFields DEF SystemInit, ToldOnce, ToldInOrder, InOrder, HasError, Fits, Owes

LEMMA ToldInOrderStep ==
    ASSUME SystemBase, Witnessed, ToldOnce, ToldInOrder, [SystemNext]_vars
    PROVE  ToldInOrder'
  <1>1. ASSUME NEW p \in Procs
        PROVE  Fits(runs', stream', proc'[p])
    <2>1. Fits(runs, stream, proc[p])
      BY DEF ToldInOrder
    <2>2. CASE EffectStep(p) \/ EffectFails(p)
      BY <2>1, <2>2, EffectFits
    <2>3. CASE FitsNow(p)
      BY <2>3 DEF FitsNow, Fits
    <2>4. CASE proc'[p] = proc[p]
      <3>1. ASSUME NEW type, Owes(proc[p], type)
            PROVE  /\ GivenUp(runs', proc[p].run) <=> GivenUp(runs, proc[p].run)
                   /\ HasError(stream[proc[p].run]) => HasError(stream'[proc[p].run])
        <4>1. proc[p].run \in Runs /\ runs[proc[p].run].status \in TerminalStatuses
          BY <3>1, OwedIsCommitted
        <4>2. HasError(stream[proc[p].run]) => HasError(stream'[proc[p].run])
          BY <4>1, ListsGrow DEF HasError
        <4> QED
          BY <4>1, <4>2, TermsStay
      <3> QED
        BY <2>1, <2>4, <3>1 DEF Fits
    <2> QED
      BY <2>2, <2>3, <2>4, StepFits
  <1>2. \A r \in Runs : InOrder(runs', stream', r)
    BY InOrderStep
  <1> QED
    BY <1>1, <1>2 DEF ToldInOrder, InOrder, Fits

-----------------------------------------------------------------------------
\* Clients

\* The client has gone through a list up to its offset, and met no finish.
Follows(list, local) ==
    /\ local.offset \in 0 .. Len(list) /\ Len(local.seen) = local.offset
    /\ \A i \in 1 .. local.offset : local.seen[i] = list[i] /\ ~isFinish(list[i])

\* What was gone through tells the outcome of r, once, and ends with its finish.
Learned(rows, r, seen) ==
    /\ Len(seen) > 0
    /\ \A i \in 1 .. Len(seen) : isFinish(seen[i]) <=> i = Len(seen)
    /\ \A i \in 1 .. Len(seen) : seen[i].type = "error" =>
          GivenUp(rows, r) /\ seen[i].code = rows[r].errorCode
    /\ \A i, j \in 1 .. Len(seen) : seen[i].type = "error" /\ seen[j].type = "error" => i = j
    /\ seen[Len(seen)].type = "finish" =>
          /\ rows[r].status \in TerminalStatuses
          /\ GivenUp(rows, r) => HasError(seen)

ReaderSound(rows, lists, local) ==
    /\ local.seen \in Seq(Events)
    /\ local.pc \in {"idle", "poll", "resolve", "drain", "done"}
    /\ local.pc = "idle" => local.offset = 0 /\ local.seen = <<>>
    /\ local.pc # "idle" => local.run \in Runs
    /\ local.pc \in {"poll", "resolve", "drain"} => Follows(lists[local.run], local)
    /\ local.pc = "drain" => rows[local.run].status \in TerminalStatuses
    /\ local.pc = "done" => Learned(rows, local.run, local.seen)

ReadersSound ==
    /\ reader \in [Readers -> Reader]
    /\ \A v \in Readers : ReaderSound(runs, stream, reader[v])

\* What the handlers keep of the lists.
Announcing == SystemBase /\ Witnessed /\ ToldOnce /\ ToldInOrder

\* seen is the beginning of r's list.
Begins(seen, r) ==
    /\ seen \in Seq(Events) /\ Len(seen) <= Len(stream[r])
    /\ \A i \in 1 .. Len(seen) : seen[i] = stream[r][i]

\* The errors a client meets in a list.
LEMMA BeginningFacts ==
    ASSUME Announcing, NEW r \in Runs, NEW seen, Begins(seen, r)
    PROVE  /\ stream[r] \in Seq(Events)
           /\ 1 .. Len(seen) \subseteq DOMAIN stream[r]
           /\ \A i \in 1 .. Len(seen) : seen[i].type = "error" =>
                 GivenUp(runs, r) /\ seen[i].code = runs[r].errorCode
           /\ \A i, j \in 1 .. Len(seen) :
                 seen[i].type = "error" /\ seen[j].type = "error" => i = j
  <1>1. stream[r] \in Seq(Events) /\ InOrder(runs, stream, r)
    BY DEF Announcing, Witnessed, ToldInOrder
  <1>2. 1 .. Len(seen) \subseteq DOMAIN stream[r]
    BY <1>1 DEF Begins
  <1>3. ASSUME NEW i \in 1 .. Len(seen), seen[i].type = "error"
        PROVE  /\ i \in DOMAIN stream[r] /\ stream[r][i].type = "error"
               /\ seen[i] = stream[r][i]
    BY <1>2, <1>3 DEF Begins
  <1>4. ASSUME NEW i \in 1 .. Len(seen), seen[i].type = "error"
        PROVE  GivenUp(runs, r) /\ seen[i].code = runs[r].errorCode
    <2>1. GivenUp(runs, r)
      BY <1>1, <1>3, <1>4 DEF InOrder, HasError
    <2> QED
      BY <1>3, <1>4, <2>1 DEF Announcing, ToldOnce, Announcements
  <1>5. ASSUME NEW i \in 1 .. Len(seen), NEW j \in 1 .. Len(seen),
               seen[i].type = "error", seen[j].type = "error"
        PROVE  i = j
    BY <1>3, <1>5 DEF Announcing, ToldOnce, Announcements
  <1> QED
    BY <1>1, <1>2, <1>4, <1>5

\* A client that meets the finish of the list has learned the outcome from it.
LEMMA ListLearned ==
    ASSUME Announcing, NEW r \in Runs, NEW seen, Begins(seen, r), Len(seen) > 0,
           isFinish(seen[Len(seen)]),
           \A i \in 1 .. Len(seen) : i < Len(seen) => ~isFinish(seen[i])
    PROVE  Learned(runs, r, seen)
  <1>1. PICK n : n = Len(seen)
    OBVIOUS
  <1>2. n \in Nat \ {0} /\ n \in 1 .. n
    BY <1>1 DEF Begins
  <1>3. \A i \in 1 .. n : isFinish(seen[i]) <=> i = n
    BY <1>1, <1>2
  <1>4. ASSUME seen[n].type = "finish"
        PROVE  /\ runs[r].status \in TerminalStatuses
               /\ GivenUp(runs, r) => HasError(seen)
    <2>1. n \in DOMAIN stream[r] /\ stream[r][n].type = "finish"
      BY <1>1, <1>2, <1>4, BeginningFacts DEF Begins
    <2>2. runs[r].status \in TerminalStatuses
      BY <2>1 DEF Announcing, ToldOnce, Announcements
    <2>3. ASSUME GivenUp(runs, r) PROVE HasError(seen)
      <3>1. PICK i \in DOMAIN stream[r] : i < n /\ stream[r][i].type = "error"
        BY <2>1, <2>3 DEF Announcing, ToldInOrder, InOrder
      <3>2. i \in Nat \ {0}
        BY <3>1, BeginningFacts
      <3>3. i \in 1 .. n
        BY <1>2, <3>1, <3>2
      <3>4. i \in DOMAIN seen /\ seen[i] = stream[r][i]
        BY <1>1, <3>3 DEF Begins
      <3> QED
        BY <3>1, <3>4 DEF HasError
    <2> QED
      BY <2>2, <2>3
  <1> QED
    BY <1>1, <1>2, <1>3, <1>4, BeginningFacts DEF Learned

\* A client that finds no finish in the list of a run that ended learns the outcome
\* from the row: the events made up for it complete what the list said.
LEMMA RowLearned ==
    ASSUME Announcing, NEW r \in Runs, NEW seen, Begins(seen, r),
           \A i \in 1 .. Len(seen) : ~isFinish(seen[i]),
           runs[r].status \in TerminalStatuses,
           NEW all, all = seen \o synthesizeTerminalRunEvents(runs[r], sawErrorEvent(seen))
    PROVE  all \in Seq(Events) /\ Learned(runs, r, all)
  <1>1. PICK n : n = Len(seen)
    OBVIOUS
  <1>2. n \in Nat /\ seen \in Seq(Events) /\ DOMAIN seen = 1 .. n
    BY <1>1 DEF Begins
  <1>3. (runs[r].errorCode # "none") <=> GivenUp(runs, r)
    BY DEF Announcing, SystemBase, IInv, RowsSound, RowSound, GivenUp
  <1>4. runs[r].status = "completed" <=> ~GivenUp(runs, r)
    BY DEF GivenUp, TerminalStatuses
  <1>5. sawErrorEvent(seen) <=> \E i \in 1 .. n : seen[i].type = "error"
    BY <1>2 DEF sawErrorEvent
  <1>6. PICK finish : finish = FinishEvent
    OBVIOUS
  <1>7. finish \in Events /\ finish.type = "finish" /\ isFinish(finish)
    BY <1>6, Places DEF FinishEvent, Events, isFinish
  <1>8. CASE runs[r].status = "completed" \/ sawErrorEvent(seen)
    <2>1. all = seen \o <<finish>>
      BY <1>6, <1>8 DEF synthesizeTerminalRunEvents
    <2>2. /\ all \in Seq(Events) /\ Len(all) = n + 1 /\ DOMAIN all = 1 .. (n + 1)
          /\ \A i \in 1 .. n : all[i] = seen[i]
          /\ all[n + 1] = finish
      BY <1>1, <1>2, <1>7, <2>1
    <2>3. \A i \in 1 .. (n + 1) : i \in 1 .. n \/ i = n + 1
      BY <1>2
    <2>4. \A i \in 1 .. (n + 1) : all[i].type = "error" => i \in 1 .. n
      BY <1>7, <2>2, <2>3
    <2>5. \A i \in 1 .. (n + 1) : isFinish(all[i]) <=> i = n + 1
      BY <1>1, <1>2, <1>7, <2>2, <2>3
    <2>6. ASSUME GivenUp(runs, r) PROVE HasError(all)
      <3>1. PICK i \in 1 .. n : seen[i].type = "error"
        BY <1>4, <1>5, <1>8, <2>6
      <3>2. i \in DOMAIN all /\ all[i] = seen[i]
        BY <1>2, <2>2
      <3> QED
        BY <3>1, <3>2 DEF HasError
    <2>7. \A i \in 1 .. (n + 1) : all[i].type = "error" =>
             GivenUp(runs, r) /\ all[i].code = runs[r].errorCode
      BY <1>1, <2>2, <2>4, BeginningFacts
    <2>8. \A i, j \in 1 .. (n + 1) :
             all[i].type = "error" /\ all[j].type = "error" => i = j
      BY <1>1, <2>2, <2>4, BeginningFacts
    <2>9. Len(all) > 0
      BY <1>2, <2>2
    <2> QED
      BY <2>2, <2>5, <2>6, <2>7, <2>8, <2>9 DEF Learned
  <1>9. CASE runs[r].status # "completed" /\ ~sawErrorEvent(seen)
    <2>1. PICK error : error = ErrorEvent(toTerminalRunErrorCode(runs[r]))
      OBVIOUS
    <2>2. GivenUp(runs, r)
      BY <1>4, <1>9
    <2>3. runs[r].errorCode \in ErrorCodes
      BY DEF Announcing, SystemBase, IInv, TypeOK, Row
    <2>a. toTerminalRunErrorCode(runs[r]) = runs[r].errorCode
      BY <1>3, <2>2 DEF toTerminalRunErrorCode
    <2>4. /\ error.type = "error" /\ error.code = runs[r].errorCode
          /\ error \in Events /\ ~isFinish(error)
      BY <2>1, <2>3, <2>a DEF ErrorEvent, Events, isFinish
    <2>5. all = seen \o <<error, finish>>
      BY <1>6, <1>9, <2>1 DEF synthesizeTerminalRunEvents
    <2>6. /\ all \in Seq(Events) /\ Len(all) = n + 2 /\ DOMAIN all = 1 .. (n + 2)
          /\ \A i \in 1 .. n : all[i] = seen[i]
          /\ all[n + 1] = error /\ all[n + 2] = finish
      BY <1>1, <1>2, <1>7, <2>4, <2>5
    <2>7. \A i \in 1 .. (n + 2) : i \in 1 .. n \/ i = n + 1 \/ i = n + 2
      BY <1>2
    <2>8. \A i \in 1 .. (n + 2) : all[i].type = "error" <=> i = n + 1
      BY <1>2, <1>5, <1>7, <1>9, <2>4, <2>6, <2>7
    <2>9. \A i \in 1 .. (n + 2) : isFinish(all[i]) <=> i = n + 2
      BY <1>1, <1>2, <1>7, <2>4, <2>6, <2>7
    <2>10. HasError(all)
      BY <1>2, <2>4, <2>6 DEF HasError
    <2> QED
      BY <1>2, <2>2, <2>4, <2>6, <2>8, <2>9, <2>10 DEF Learned
  <1> QED
    BY <1>8, <1>9

\* What a client has learned or gone through holds while handlers go on.
LEMMA ReaderStays ==
    ASSUME Announcing, [SystemNext]_vars, NEW local, ReaderSound(runs, stream, local)
    PROVE  ReaderSound(runs', stream', local)
  <1>1. SystemBase /\ Witnessed
    BY DEF Announcing
  <1>2. ASSUME local.run \in Runs, Follows(stream[local.run], local)
        PROVE  Follows(stream'[local.run], local)
    <2>1. /\ Len(stream[local.run]) \in Nat /\ Len(stream'[local.run]) \in Nat
          /\ Len(stream[local.run]) <= Len(stream'[local.run])
          /\ DOMAIN stream[local.run] = 1 .. Len(stream[local.run])
          /\ \A i \in DOMAIN stream[local.run] : stream'[local.run][i] = stream[local.run][i]
      BY <1>1, <1>2, ListsGrow
    <2>2. local.offset \in 0 .. Len(stream[local.run])
      BY <1>2 DEF Follows
    <2>3. local.offset \in 0 .. Len(stream'[local.run])
      BY <2>1, <2>2
    <2>4. 1 .. local.offset \subseteq DOMAIN stream[local.run]
      BY <2>1, <2>2
    <2> QED
      BY <1>2, <2>1, <2>3, <2>4 DEF Follows
  <1>3. ASSUME local.run \in Runs, runs[local.run].status \in TerminalStatuses
        PROVE  runs'[local.run].status \in TerminalStatuses
    BY <1>1, <1>3, TermsStay
  <1>4. ASSUME local.run \in Runs, Learned(runs, local.run, local.seen)
        PROVE  Learned(runs', local.run, local.seen)
    <2>1. ASSUME GivenUp(runs, local.run)
          PROVE  /\ GivenUp(runs', local.run)
                 /\ runs'[local.run].errorCode = runs[local.run].errorCode
      <3>1. runs[local.run].status \in TerminalStatuses
        BY <2>1 DEF GivenUp, TerminalStatuses
      <3> QED
        BY <1>1, <1>4, <2>1, <3>1, TermsStay
    <2>2. ASSUME runs[local.run].status \in TerminalStatuses
          PROVE  /\ runs'[local.run].status \in TerminalStatuses
                 /\ GivenUp(runs', local.run) => GivenUp(runs, local.run)
      BY <1>1, <1>4, <2>2, TermsStay
    <2> QED
      BY <1>4, <2>1, <2>2 DEF Learned
  <1> QED
    BY <1>2, <1>3, <1>4 DEF ReaderSound

\* What a poll brings is the next stretch of the list.
LEMMA PollFacts ==
    ASSUME Announcing, NEW v \in Readers, reader[v].run \in Runs,
           reader[v].seen \in Seq(Events), Follows(stream[reader[v].run], reader[v]),
           NEW events, events = delivered(newEvents(v)),
           NEW seen, seen = reader[v].seen \o events
    PROVE  /\ Begins(seen, reader[v].run)
           /\ endsWithFinish(events) => Learned(runs, reader[v].run, seen)
           /\ ~endsWithFinish(events) =>
                 /\ Len(seen) = Len(stream[reader[v].run])
                 /\ \A i \in 1 .. Len(seen) : ~isFinish(seen[i])
  <1>1. PICK r, list, old, k : /\ r = reader[v].run /\ list = stream[r]
                               /\ old = reader[v].seen /\ k = reader[v].offset
    OBVIOUS
  <1>2. /\ r \in Runs /\ list \in Seq(Events) /\ old \in Seq(Events)
        /\ k \in 0 .. Len(list) /\ Len(old) = k
        /\ \A i \in 1 .. k : old[i] = list[i] /\ ~isFinish(list[i])
    BY <1>1 DEF Announcing, Witnessed, Follows
  <1>3. PICK new : new = SubSeq(list, k + 1, Len(list))
    OBVIOUS
  <1>4. /\ new \in Seq(Events) /\ Len(new) = Len(list) - k
        /\ \A i \in 1 .. Len(new) : new[i] = list[k + i]
    BY <1>2, <1>3
  <1>5. events = delivered(new)
    BY <1>1, <1>3 DEF newEvents
  <1>6. PICK m : m = Len(events)
    OBVIOUS
  <1>7. /\ events \in Seq(Events) /\ m \in Nat /\ m <= Len(new)
        /\ \A i \in 1 .. m : /\ events[i] = new[i]
                             /\ i < m => ~isFinish(new[i])
        /\ ~endsWithFinish(events) => /\ m = Len(new)
                                      /\ \A i \in 1 .. Len(new) : ~isFinish(new[i])
    <2>1. /\ events \in Seq(Events) /\ Len(events) <= Len(new)
          /\ \A i \in 1 .. Len(events) : events[i] = new[i]
      BY <1>4, <1>5, DeliveredFacts
    <2>2. \A i \in 1 .. Len(events) : i < Len(events) => ~isFinish(new[i])
      BY <1>4, <1>5, DeliveredFacts
    <2>3. ~endsWithFinish(events) => /\ Len(events) = Len(new)
                                     /\ \A i \in 1 .. Len(new) : ~isFinish(new[i])
      BY <1>4, <1>5, DeliveredFacts
    <2>4. m \in Nat
      BY <1>6, <2>1
    <2> QED
      BY <1>6, <2>1, <2>2, <2>3, <2>4
  <1>8. /\ seen \in Seq(Events) /\ Len(seen) = k + m
        /\ \A i \in 1 .. k : seen[i] = old[i]
        /\ \A i \in 1 .. m : seen[k + i] = events[i]
    <2>1. seen = old \o events
      BY <1>1
    <2>2. old \in Seq(Events) /\ events \in Seq(Events) /\ Len(old) = k /\ Len(events) = m
      BY <1>2, <1>6, <1>7
    <2> QED
      BY <2>1, <2>2
  <1>9. ASSUME NEW i \in 1 .. (k + m)
        PROVE  \/ i \in 1 .. k
               \/ \E j \in 1 .. m : i = k + j
    <2>1. CASE i > k
      <3>1. i - k \in 1 .. m /\ i = k + (i - k)
        BY <1>2, <1>7, <1>9, <2>1
      <3> QED
        BY <3>1
    <2>2. CASE ~(i > k)
      BY <1>2, <1>7, <1>9, <2>2
    <2> QED
      BY <2>1, <2>2
  <1>10. \A j \in 1 .. m : j \in 1 .. Len(new)
    BY <1>4, <1>7
  <1>11. \A i \in 1 .. (k + m) : seen[i] = list[i]
    <2>1. ASSUME NEW i \in 1 .. k PROVE seen[i] = list[i]
      BY <1>2, <1>8, <2>1
    <2>2. ASSUME NEW j \in 1 .. m PROVE seen[k + j] = list[k + j]
      BY <1>4, <1>7, <1>8, <1>10, <2>2
    <2> QED
      BY <1>9, <2>1, <2>2
  <1>12. k + m <= Len(list) /\ k + m \in Nat
    BY <1>2, <1>4, <1>7
  <1>13. Begins(seen, r)
    BY <1>1, <1>8, <1>11, <1>12 DEF Begins
  <1>14. ASSUME endsWithFinish(events)
         PROVE  Learned(runs, r, seen)
    <2>1. m > 0 /\ isFinish(events[m])
      BY <1>6, <1>7, <1>14 DEF endsWithFinish
    <2>a. k \in Nat /\ m \in 1 .. m /\ Len(seen) = k + m
      BY <1>2, <1>7, <1>8, <2>1
    <2>b. seen[k + m] = events[m]
      BY <1>8, <2>a
    <2>2. Len(seen) > 0 /\ isFinish(seen[Len(seen)])
      BY <2>1, <2>a, <2>b
    <2>3. ASSUME NEW i \in 1 .. Len(seen), i < Len(seen)
          PROVE  ~isFinish(seen[i])
      <3>1. CASE i \in 1 .. k
        BY <1>2, <1>8, <3>1
      <3>2. ASSUME NEW j \in 1 .. m, i = k + j
            PROVE  ~isFinish(seen[i])
        <4>1. j < m
          BY <1>2, <1>7, <1>8, <2>3, <3>2
        <4> QED
          BY <1>7, <1>8, <3>2, <4>1
      <3> QED
        BY <1>8, <1>9, <3>1, <3>2
    <2> QED
      BY <1>2, <1>13, <2>2, <2>3, ListLearned
  <1>15. ASSUME ~endsWithFinish(events)
         PROVE  /\ Len(seen) = Len(list)
                /\ \A i \in 1 .. Len(seen) : ~isFinish(seen[i])
    <2>a. m = Len(list) - k
      BY <1>4, <1>7, <1>15
    <2>b. Len(seen) = k + (Len(list) - k)
      BY <1>8, <2>a
    <2>1. Len(seen) = Len(list)
      BY <1>2, <2>b
    <2>2. ASSUME NEW i \in 1 .. Len(seen) PROVE ~isFinish(seen[i])
      <3>1. CASE i \in 1 .. k
        BY <1>2, <1>8, <3>1
      <3>2. ASSUME NEW j \in 1 .. m, i = k + j
            PROVE  ~isFinish(seen[i])
        BY <1>7, <1>8, <1>10, <1>15, <3>2
      <3> QED
        BY <1>8, <1>9, <3>1, <3>2
    <2> QED
      BY <2>1, <2>2
  <1> QED
    BY <1>1, <1>13, <1>14, <1>15

\* A step of one client.
LEMMA ReaderMoves ==
    ASSUME ReadersSound, UNCHANGED vars, NEW v \in Readers, NEW new \in Reader,
           reader' = [reader EXCEPT ![v] = new], ReaderSound(runs, stream, new)
    PROVE  ReadersSound'
  <1>1. runs' = runs /\ stream' = stream
    BY DEF vars
  <1>2. /\ reader' \in [Readers -> Reader]
        /\ \A u \in Readers : reader'[u] = reader[u] \/ reader'[u] = new
    BY DEF ReadersSound
  <1>3. ASSUME NEW u \in Readers PROVE ReaderSound(runs', stream', reader'[u])
    BY <1>1, <1>2 DEF ReadersSound
  <1> QED
    BY <1>2, <1>3 DEF ReadersSound, ReaderSound, Follows, Learned, GivenUp

LEMMA AttachSound ==
    ASSUME Announcing, ReadersSound, NEW v \in Readers, NEW r \in Runs, attach(v, r)
    PROVE  ReadersSound'
  <1>1. PICK old \in Reader : old = reader[v] /\ ReaderSound(runs, stream, old)
    BY DEF ReadersSound
  <1>2. PICK new : new = [old EXCEPT !.pc = "poll", !.run = r]
    OBVIOUS
  <1>3. /\ new \in Reader /\ new.pc = "poll" /\ new.run = r
        /\ new.offset = old.offset /\ new.seen = old.seen
    BY <1>1, <1>2 DEF Reader
  <1>4. reader' = [reader EXCEPT ![v] = new] /\ UNCHANGED vars
    BY <1>1, <1>2 DEF attach
  <1>5. new.offset = 0 /\ new.seen = <<>>
    BY <1>1, <1>3 DEF attach, ReaderSound
  <1>6. stream[r] \in Seq(Events)
    BY DEF Announcing, Witnessed
  <1>7. Follows(stream[r], new)
    BY <1>5, <1>6 DEF Follows
  <1>8. ReaderSound(runs, stream, new)
    BY <1>3, <1>5, <1>7 DEF ReaderSound
  <1> QED
    BY <1>3, <1>4, <1>8, ReaderMoves

LEMMA PollSound ==
    ASSUME Announcing, ReadersSound, NEW v \in Readers, pollEvents(v)
    PROVE  ReadersSound'
  <1>1. PICK old \in Reader : old = reader[v] /\ ReaderSound(runs, stream, old)
    BY DEF ReadersSound
  <1>2. PICK list : list = stream[old.run]
    OBVIOUS
  <1>3. PICK events, seen : events = delivered(newEvents(v)) /\ seen = old.seen \o events
    OBVIOUS
  <1>4. PICK pc \in {"done", "resolve"} :
           pc = IF endsWithFinish(events) THEN "done" ELSE "resolve"
    OBVIOUS
  <1>5. PICK new : new = [old EXCEPT !.pc = pc, !.offset = Len(list), !.seen = seen]
    OBVIOUS
  <1>6. reader' = [reader EXCEPT ![v] = new] /\ UNCHANGED vars /\ old.pc = "poll"
    BY <1>1, <1>2, <1>3, <1>4, <1>5 DEF pollEvents
  <1>7. old.run \in Runs /\ old.seen \in Seq(Events) /\ Follows(list, old)
    BY <1>1, <1>2, <1>6 DEF ReaderSound
  <1>8. list \in Seq(Events) /\ Len(list) \in Nat
    BY <1>2, <1>7 DEF Announcing, Witnessed
  <1>9. /\ Begins(seen, old.run)
        /\ endsWithFinish(events) => Learned(runs, old.run, seen)
        /\ ~endsWithFinish(events) => /\ Len(seen) = Len(list)
                                      /\ \A i \in 1 .. Len(seen) : ~isFinish(seen[i])
    BY <1>1, <1>2, <1>3, <1>7, PollFacts
  <1>10. seen \in Seq(Events)
    BY <1>9 DEF Begins
  <1>11. /\ new \in Reader /\ new.pc = pc /\ new.run = old.run
         /\ new.offset = Len(list) /\ new.seen = seen
    BY <1>1, <1>4, <1>5, <1>8, <1>10 DEF Reader
  <1>12. ASSUME pc = "resolve" PROVE Follows(list, new)
    <2>1. Len(seen) = Len(list) /\ \A i \in 1 .. Len(seen) : ~isFinish(seen[i])
      BY <1>4, <1>9, <1>12
    <2>2. \A i \in 1 .. Len(seen) : seen[i] = list[i]
      BY <1>2, <1>9 DEF Begins
    <2> QED
      BY <1>8, <1>11, <2>1, <2>2 DEF Follows
  <1>13. pc = "done" => Learned(runs, old.run, seen)
    BY <1>4, <1>9
  <1>14. ReaderSound(runs, stream, new)
    BY <1>2, <1>4, <1>7, <1>10, <1>11, <1>12, <1>13 DEF ReaderSound
  <1> QED
    BY <1>6, <1>11, <1>14, ReaderMoves

LEMMA ResolveSound ==
    ASSUME Announcing, ReadersSound, NEW v \in Readers, resolveAttachRunState(v)
    PROVE  ReadersSound'
  <1>1. PICK old \in Reader : old = reader[v] /\ ReaderSound(runs, stream, old)
    BY DEF ReadersSound
  <1>2. PICK pc \in {"drain", "poll"} :
           pc = IF isTerminalRunStatus(runs[old.run].status) THEN "drain" ELSE "poll"
    OBVIOUS
  <1>3. PICK new : new = [old EXCEPT !.pc = pc]
    OBVIOUS
  <1>4. /\ new \in Reader /\ new.pc = pc /\ new.run = old.run
        /\ new.offset = old.offset /\ new.seen = old.seen
    BY <1>1, <1>2, <1>3 DEF Reader
  <1>5. reader' = [reader EXCEPT ![v] = new] /\ UNCHANGED vars /\ old.pc = "resolve"
    BY <1>1, <1>2, <1>3 DEF resolveAttachRunState
  <1>6. pc = "drain" => runs[old.run].status \in TerminalStatuses
    BY <1>2 DEF isTerminalRunStatus
  <1>7. ReaderSound(runs, stream, new)
    BY <1>1, <1>2, <1>4, <1>5, <1>6 DEF ReaderSound, Follows
  <1> QED
    BY <1>4, <1>5, <1>7, ReaderMoves

LEMMA DrainSound ==
    ASSUME Announcing, ReadersSound, NEW v \in Readers, drainAndSynthesize(v)
    PROVE  ReadersSound'
  <1>1. PICK old \in Reader : old = reader[v] /\ ReaderSound(runs, stream, old)
    BY DEF ReadersSound
  <1>2. PICK events, seen : events = delivered(newEvents(v)) /\ seen = old.seen \o events
    OBVIOUS
  <1>3. PICK all : all = IF endsWithFinish(events) THEN seen
                         ELSE seen \o synthesizeTerminalRunEvents(
                                        runs[old.run], sawErrorEvent(seen))
    OBVIOUS
  <1>4. PICK new : new = [old EXCEPT !.pc = "done", !.seen = all]
    OBVIOUS
  <1>5. reader' = [reader EXCEPT ![v] = new] /\ UNCHANGED vars /\ old.pc = "drain"
    BY <1>1, <1>2, <1>3, <1>4 DEF drainAndSynthesize
  <1>6. /\ old.run \in Runs /\ old.seen \in Seq(Events) /\ Follows(stream[old.run], old)
        /\ runs[old.run].status \in TerminalStatuses
    BY <1>1, <1>5 DEF ReaderSound
  <1>7. /\ Begins(seen, old.run)
        /\ endsWithFinish(events) => Learned(runs, old.run, seen)
        /\ ~endsWithFinish(events) => \A i \in 1 .. Len(seen) : ~isFinish(seen[i])
    BY <1>1, <1>2, <1>6, PollFacts
  <1>8. all \in Seq(Events) /\ Learned(runs, old.run, all)
    <2>1. CASE endsWithFinish(events)
      BY <1>3, <1>7, <2>1 DEF Begins
    <2>2. CASE ~endsWithFinish(events)
      BY <1>3, <1>6, <1>7, <2>2, RowLearned
    <2> QED
      BY <2>1, <2>2
  <1>9. /\ new \in Reader /\ new.pc = "done" /\ new.run = old.run /\ new.seen = all
    BY <1>1, <1>4, <1>8 DEF Reader
  <1>10. ReaderSound(runs, stream, new)
    BY <1>6, <1>8, <1>9 DEF ReaderSound
  <1> QED
    BY <1>5, <1>9, <1>10, ReaderMoves

-----------------------------------------------------------------------------
\* What a client learns

\* Clients only read: with them, the handlers do what they do without.
LEMMA ClientsOnlyRead ==
    /\ AttachInit => SystemInit
    /\ [AttachNext]_attachVars => [SystemNext]_vars
  <1>1. AttachInit => SystemInit
    BY DEF AttachInit
  <1>2. [AttachNext]_attachVars => [SystemNext]_vars
    BY DEF AttachNext, attachVars, ReaderStep, attach, pollEvents, resolveAttachRunState,
       drainAndSynthesize
  <1> QED
    BY <1>1, <1>2

LEMMA ReadersInit == AttachInit => ReadersSound
  <1>1. "idle" \in {"idle", "poll", "resolve", "drain", "done"} /\ 0 \in Nat
        /\ <<>> \in Seq(Events)
    OBVIOUS
  <1>2. Detached \in Reader
    BY <1>1 DEF Detached, Reader
  <1>3. ASSUME NEW rows, NEW lists PROVE ReaderSound(rows, lists, Detached)
    BY <1>1 DEF ReaderSound, Detached
  <1> QED
    BY <1>2, <1>3 DEF AttachInit, ReadersSound

LEMMA ReadersStep ==
    ASSUME Announcing, ReadersSound, [AttachNext]_attachVars
    PROVE  ReadersSound'
  <1>1. CASE UNCHANGED reader
    <2>1. [SystemNext]_vars
      BY ClientsOnlyRead
    <2>2. \A v \in Readers : ReaderSound(runs', stream', reader[v])
      BY <2>1, ReaderStays DEF ReadersSound
    <2> QED
      BY <1>1, <2>2 DEF ReadersSound, ReaderSound, Follows, Learned, GivenUp
  <1>2. ASSUME NEW v \in Readers, ReaderStep(v) PROVE ReadersSound'
    BY <1>2, PollSound, ResolveSound, DrainSound DEF ReaderStep
  <1>3. ASSUME NEW v \in Readers, NEW r \in Runs, attach(v, r) PROVE ReadersSound'
    BY <1>3, AttachSound
  <1> QED
    BY <1>1, <1>2, <1>3 DEF AttachNext, attachVars

LEMMA LearnedShows ==
    ASSUME ReadersSound
    PROVE  ClientLearnsCommittedOutcome
  <1>1. SUFFICES ASSUME NEW v \in Readers, reader[v].pc = "done"
                 PROVE  LET seen == reader[v].seen
                            run == runs[reader[v].run]
                            errors == {i \in DOMAIN seen : seen[i].type = "error"}
                        IN  /\ \A i \in DOMAIN seen : isFinish(seen[i]) <=> i = Len(seen)
                            /\ \A i \in errors : seen[i].code = run.errorCode
                            /\ seen[Len(seen)].type = "finish" =>
                                  /\ isTerminalRunStatus(run.status)
                                  /\ Cardinality(errors) =
                                        IF run.status = "completed" THEN 0 ELSE 1
    BY DEF ClientLearnsCommittedOutcome
  <1>2. PICK seen, r, errors : /\ seen = reader[v].seen /\ r = reader[v].run
                               /\ errors = {i \in DOMAIN seen : seen[i].type = "error"}
    OBVIOUS
  <1>3. seen \in Seq(Events) /\ Learned(runs, r, seen)
    BY <1>1, <1>2 DEF ReadersSound, ReaderSound
  <1>4. DOMAIN seen = 1 .. Len(seen)
    BY <1>3
  <1>5. /\ \A i \in DOMAIN seen : isFinish(seen[i]) <=> i = Len(seen)
        /\ \A i \in errors : GivenUp(runs, r) /\ seen[i].code = runs[r].errorCode
        /\ \A i, j \in errors : i = j
    BY <1>2, <1>3, <1>4 DEF Learned
  <1>6. ASSUME seen[Len(seen)].type = "finish"
        PROVE  /\ isTerminalRunStatus(runs[r].status)
               /\ Cardinality(errors) = IF runs[r].status = "completed" THEN 0 ELSE 1
    <2>1. /\ runs[r].status \in TerminalStatuses
          /\ GivenUp(runs, r) => HasError(seen)
      BY <1>3, <1>6 DEF Learned
    <2>2. CASE runs[r].status = "completed"
      <3>1. errors = {}
        BY <1>5, <2>2 DEF GivenUp
      <3> QED
        BY <2>1, <2>2, <3>1, FS_EmptySet DEF isTerminalRunStatus
    <2>3. CASE runs[r].status # "completed"
      <3>1. GivenUp(runs, r)
        BY <2>1, <2>3 DEF GivenUp, TerminalStatuses
      <3>2. PICK i \in errors : TRUE
        BY <1>2, <2>1, <3>1 DEF HasError
      <3>3. errors = {i}
        BY <1>5, <3>2
      <3>4. Cardinality(errors) = 1
        BY <3>3, FS_Singleton
      <3> QED
        BY <2>1, <2>3, <3>4 DEF isTerminalRunStatus
    <2> QED
      BY <2>2, <2>3
  <1> QED
    BY <1>2, <1>5, <1>6

\* The handlers keep, with clients attached, what they keep without.
LEMMA AnnouncingHolds == AttachSpec => []Announcing
  <1>1. AttachInit => Announcing
    BY ClientsOnlyRead, BaseInit, WitnessedInit, InOrderInit DEF Announcing
  <1>2. Announcing /\ [AttachNext]_attachVars => Announcing'
    BY ClientsOnlyRead, BaseStep, WitnessedStep, ToldOnceStep, ToldInOrderStep DEF Announcing
  <1> QED
    BY <1>1, <1>2, PTL DEF AttachSpec

\* Whatever was pushed before, while or after a client read, and whichever push was
\* lost, a client that is told of a run's end is told the committed outcome, once.
THEOREM ClientLearns == AttachSpec => []ClientLearnsCommittedOutcome
  <1>1. Announcing /\ ReadersSound /\ [AttachNext]_attachVars => ReadersSound'
    BY ReadersStep
  <1> QED
    BY <1>1, ReadersInit, AnnouncingHolds, LearnedShows, PTL DEF AttachSpec

\* Clients are readers only: whatever is proved of the handlers holds with any number
\* of clients attached.
THEOREM AttachedSystem == AttachSpec => SystemSpec
  BY ClientsOnlyRead, PTL DEF AttachSpec, SystemSpec

\* So the table is used as its specification allows, also with clients attached.
THEOREM AttachedKeepTable == AttachSpec => TableSpec
  BY AttachedSystem, HandlersKeepTable, PTL
=============================================================================
