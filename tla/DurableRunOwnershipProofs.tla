---------------------- MODULE DurableRunOwnershipProofs ----------------------
(***************************************************************************)
(* Who may give up an active run, for any number of deliveries, requests,  *)
(* sweeps and faults.  First: no run that heartbeats is failed as stale.   *)
(* Recovery decides on a row it has read some steps earlier; the error     *)
(* code it will write travels with it, and with whoever reads the row      *)
(* afterwards.  The invariant says where the code can be before it is      *)
(* committed: in a recovery whose commit asks again, or with a handler     *)
(* whose run has already ended.  Second: without a fault no active run is  *)
(* nobody's.  Each handler step is judged by what becomes of the run it    *)
(* worked on: whoever leaves it has handed it on, to the queue, to a turn  *)
(* or to the end of a stop, or leaves it in a status that needs nobody.    *)
(***************************************************************************)
EXTENDS DurableRunProofs

Stale == "CHAT_RUN_STALE"

\* The run's job has been enqueued, or the run is past the queue: a silence of it
\* is judged by STALE_ACTIVE_RUN_TIMEOUT.
Enqueued(rows, r) ==
    rows[r].status # "absent" /\ (rows[r].status = "queued" => rows[r].jobId)

\* A handler with the code of staleness is about to fail an enqueued run, or works
\* on a run that ended.
StaleKnown(rows, local) ==
    /\ local.why = Stale => /\ local.run \in Runs
                            /\ rows[local.run].status \in TerminalStatuses
    /\ local.code = Stale =>
          /\ local.run \in Runs
          /\ IF local.pc = "fail_stale" THEN Enqueued(rows, local.run)
             ELSE rows[local.run].status \in TerminalStatuses

StaleCodesKnown == \A p \in Procs : StaleKnown(runs, proc[p])

\* The step fails no active run as stale that was not silent for too long.
FailsSilentOnly ==
    \A r \in Runs : Active(r) /\ runs'[r].errorCode = Stale
                       => runs[r].silence > STALE_ACTIVE_RUN_TIMEOUT

Known == SystemBase /\ StaleCodesKnown

LEMMA KnownFacts ==
    ASSUME Known, NEW p \in Procs
    PROVE  /\ SystemBase /\ IInv /\ TypeOK /\ RowsSound /\ LocalsSound
           /\ proc[p] \in Local /\ LocalSound(p, proc[p]) /\ StaleKnown(runs, proc[p])
  BY DEF Known, SystemBase, IInv, LocalsSound, StaleCodesKnown

-----------------------------------------------------------------------------
\* The table

LEMMA ActiveNotTerminal == \A r \in Runs : Active(r) => ~Terminal(r)
  BY DEF Active, Terminal, ACTIVE_RUN_STATUSES, TerminalStatuses

\* A transaction of a turn writes neither error codes nor job ids, and moves no run
\* back into the queue.
LEMMA TurnKeepsRow ==
    ASSUME TypeOK, NEW r \in Runs, TurnTransaction(r), NEW s \in Runs
    PROVE  /\ runs'[s].errorCode = runs[s].errorCode
           /\ runs'[s].jobId = runs[s].jobId
           /\ runs'[s].status \in {runs[s].status, "waiting_for_approval"}
  <1>0. runs[r] \in Row /\ runs \in [Runs -> Row]
    BY DEF TypeOK
  <1>1. CASE touchChatThreadRunHeartbeat(r)
    BY <1>0, <1>1 DEF touchChatThreadRunHeartbeat, Row
  <1>2. ASSUME NEW snap, NEW knowsCall, updateChatThreadRunProgress(r, snap, knowsCall)
        PROVE  /\ runs'[s].errorCode = runs[s].errorCode
               /\ runs'[s].jobId = runs[s].jobId
               /\ runs'[s].status = runs[s].status
    BY <1>0, <1>2 DEF updateChatThreadRunProgress, Row
  <1>3. CASE appendArtifactOutputToChatRun(r)
    BY <1>0, <1>3 DEF appendArtifactOutputToChatRun, Row
  <1>4. ASSUME NEW ids, NEW knowsCall, markChatThreadRunWaitingForApproval(r, ids, knowsCall)
        PROVE  /\ runs'[s].errorCode = runs[s].errorCode
               /\ runs'[s].jobId = runs[s].jobId
               /\ runs'[s].status \in {runs[s].status, "waiting_for_approval"}
    BY <1>0, <1>4 DEF markChatThreadRunWaitingForApproval, Row
  <1>5. ASSUME NEW keys, claimMany(r, keys)
        PROVE  /\ runs'[s].errorCode = runs[s].errorCode
               /\ runs'[s].jobId = runs[s].jobId
               /\ runs'[s].status = runs[s].status
    BY <1>0, <1>5 DEF claimMany, Row
  <1>6. ASSUME NEW k, NEW fits, complete(r, k, fits) \/ markUnknown(r, k)
        PROVE  /\ runs'[s].errorCode = runs[s].errorCode
               /\ runs'[s].jobId = runs[s].jobId
               /\ runs'[s].status = runs[s].status
    <2>1. CASE complete(r, k, fits)
      BY <1>0, <2>1 DEF complete, Row
    <2>2. CASE markUnknown(r, k)
      BY <1>0, <2>2 DEF markUnknown, Row
    <2> QED
      BY <1>6, <2>1, <2>2
  <1> QED
    BY <1>1, <1>2, <1>3, <1>4, <1>5, <1>6 DEF TurnTransaction

\* No transaction but a finish gives an active run an error code.
LEMMA OthersFailNothing ==
    ASSUME IInv, NEW r \in Runs,
           \/ ReadOnly
           \/ \E t \in Threads : createChatThreadRun(r, t)
           \/ markChatThreadRunQueued(r) \/ markChatThreadRunRunning(r)
           \/ TurnTransaction(r)
           \/ requestChatThreadRunCancel(r)
           \/ \E c \in Confs : recordChatThreadRunConfirmationResponse(r, c)
           \/ ApprovalDeadlinePasses(r) \/ Tick
    PROVE  FailsSilentOnly
  <1>0. ASSUME NEW s \in Runs, Active(s)
        PROVE  runs[s] \in Row /\ runs[s].errorCode = "none"
    BY <1>0 DEF IInv, TypeOK, RowsSound, RowSound, Active, ACTIVE_RUN_STATUSES
  <1>1. SUFFICES ASSUME NEW s \in Runs, Active(s)
                 PROVE  runs'[s].errorCode # Stale
    BY DEF FailsSilentOnly
  <1>2. /\ runs[s] \in Row /\ runs[s].errorCode = "none" /\ runs \in [Runs -> Row]
        /\ runs[r] \in Row
    BY <1>0, <1>1 DEF IInv, TypeOK
  <1>3. CASE ReadOnly
    BY <1>2, <1>3 DEF ReadOnly, tableVars, Stale
  <1>4. ASSUME NEW t \in Threads, createChatThreadRun(r, t)
        PROVE  runs'[s].errorCode # Stale
    BY <1>2, <1>4 DEF createChatThreadRun, Row, Stale
  <1>5. CASE markChatThreadRunQueued(r) \/ markChatThreadRunRunning(r)
    <2>1. CASE markChatThreadRunQueued(r)
      BY <1>2, <2>1 DEF markChatThreadRunQueued, Row, Stale
    <2>2. CASE markChatThreadRunRunning(r)
      BY <1>2, <2>2 DEF markChatThreadRunRunning, Row, Stale
    <2> QED
      BY <1>5, <2>1, <2>2
  <1>6. CASE TurnTransaction(r)
    BY <1>2, <1>6, TurnKeepsRow DEF Stale, IInv
  <1>7. CASE requestChatThreadRunCancel(r)
    BY <1>2, <1>7 DEF requestChatThreadRunCancel, ended, Row, Stale
  <1>8. ASSUME NEW c \in Confs, recordChatThreadRunConfirmationResponse(r, c)
        PROVE  runs'[s].errorCode # Stale
    BY <1>2, <1>8 DEF recordChatThreadRunConfirmationResponse, ended, Row, Stale
  <1>9. CASE ApprovalDeadlinePasses(r) \/ Tick
    <2>1. CASE ApprovalDeadlinePasses(r)
      BY <1>2, <2>1 DEF ApprovalDeadlinePasses, Row, Stale
    <2>2. CASE Tick
      BY <1>2, <2>2 DEF Tick, Row, Stale
    <2> QED
      BY <1>9, <2>1, <2>2
  <1> QED
    BY <1>3, <1>4, <1>5, <1>6, <1>7, <1>8, <1>9

\* A finish fails a run as stale only with that code, and then only if its caller
\* asks again under the lock and knows the run to be enqueued.
LEMMA FinishFailsSilent ==
    ASSUME IInv, NEW r \in Runs, NEW status, NEW code, NEW ifStale,
           finishChatThreadRun(r, status, code, ifStale),
           code = Stale => ifStale /\ Enqueued(runs, r)
    PROVE  FailsSilentOnly
  <1>1. SUFFICES ASSUME NEW s \in Runs, Active(s), runs'[s].errorCode = Stale
                 PROVE  runs[s].silence > STALE_ACTIVE_RUN_TIMEOUT
    BY DEF FailsSilentOnly
  <1>2. runs[s] \in Row /\ runs[s].errorCode = "none" /\ runs \in [Runs -> Row]
    BY <1>1 DEF IInv, TypeOK, RowsSound, RowSound, Active, ACTIVE_RUN_STATUSES
  <1>3. s = r /\ code = Stale
    BY <1>1, <1>2 DEF finishChatThreadRun, ended, Row, Stale
  <1>4. isStaleActiveRun(runs[r]) /\ Enqueued(runs, r)
    BY <1>3 DEF finishChatThreadRun, CanFinish
  <1> QED
    BY <1>3, <1>4 DEF isStaleActiveRun, Enqueued

\* What ended stays ended, what was enqueued stays so.
LEMMA EnqueuedStays ==
    ASSUME IInv, [Next]_tableVars, NEW r \in Runs
    PROVE  /\ runs[r].status \in TerminalStatuses => runs'[r].status \in TerminalStatuses
           /\ Enqueued(runs, r) => Enqueued(runs', r)
  <1>0. TypeOK /\ RowsSound /\ runs[r] \in Row /\ runs \in [Runs -> Row]
    BY DEF IInv, TypeOK
  <1>1. ASSUME runs[r].status \in TerminalStatuses
        PROVE  runs'[r].status \in TerminalStatuses
    <2>1. Terminal(r)
      BY <1>1 DEF Terminal
    <2> QED
      BY <1>0, <1>1, <2>1, TerminalRowStep DEF Row
  <1>2. ASSUME Begun(runs, r) PROVE Enqueued(runs', r)
    BY <1>2, BegunStays DEF Begun, Enqueued
  <1>3. ASSUME runs[r].status = "queued", runs[r].jobId PROVE Enqueued(runs', r)
    <2>1. ASSUME NEW s \in Runs, NEW t \in Threads, createChatThreadRun(s, t)
          PROVE  Enqueued(runs', r)
      BY <1>0, <1>3, <2>1 DEF createChatThreadRun, CanCreate, Exists, Enqueued, Row
    <2>2. ASSUME NEW s \in Runs,
                 markChatThreadRunQueued(s) \/ markChatThreadRunRunning(s)
          PROVE  Enqueued(runs', r)
      BY <1>0, <1>3, <2>2 DEF markChatThreadRunQueued, markChatThreadRunRunning, Enqueued,
         Row
    <2>3. ASSUME NEW s \in Runs, TurnTransaction(s)
          PROVE  Enqueued(runs', r)
      BY <1>0, <1>3, <2>3, TurnKeepsRow DEF Enqueued
    <2>4. ASSUME NEW s \in Runs, requestChatThreadRunCancel(s)
          PROVE  Enqueued(runs', r)
      BY <1>0, <1>3, <2>4 DEF requestChatThreadRunCancel, ended, Enqueued, Row
    <2>5. ASSUME NEW s \in Runs, NEW c \in Confs,
                 recordChatThreadRunConfirmationResponse(s, c)
          PROVE  Enqueued(runs', r)
      BY <1>0, <1>3, <2>5 DEF recordChatThreadRunConfirmationResponse, ended, Enqueued,
         Row
    <2>6. ASSUME NEW s \in Runs, NEW status \in TerminalStatuses, NEW ifStale \in BOOLEAN,
                 NEW code \in FinishCodes(status),
                 finishChatThreadRun(s, status, code, ifStale)
          PROVE  Enqueued(runs', r)
      BY <1>0, <1>3, <2>6 DEF finishChatThreadRun, ended, Enqueued, Row, TerminalStatuses
    <2>7. ASSUME NEW s \in Runs, ApprovalDeadlinePasses(s)
          PROVE  Enqueued(runs', r)
      BY <1>0, <1>3, <2>7 DEF ApprovalDeadlinePasses, Enqueued, Row
    <2>8. CASE Tick
      BY <1>0, <1>3, <2>8 DEF Tick, Enqueued, Row
    <2>9. CASE UNCHANGED tableVars
      BY <1>3, <2>9 DEF tableVars, Enqueued
    <2> QED
      BY <2>1, <2>2, <2>3, <2>4, <2>5, <2>6, <2>7, <2>8, <2>9 DEF Next
  <1> QED
    BY <1>1, <1>2, <1>3 DEF Enqueued, Begun

LEMMA KnownStays ==
    ASSUME IInv, [Next]_tableVars, NEW local, StaleKnown(runs, local)
    PROVE  StaleKnown(runs', local)
  BY EnqueuedStays DEF StaleKnown

-----------------------------------------------------------------------------
\* Moves of a handler

\* The step of p fails nothing wrongly, and p's code stays accounted for.
Fine(p) == FailsSilentOnly /\ StaleKnown(runs', proc'[p])

LEMMA FreshKnown ==
    ASSUME NEW rows, NEW local, local.code # Stale, local.why # Stale
    PROVE  StaleKnown(rows, local)
  BY DEF StaleKnown

LEMMA ResumeKnown ==
    ASSUME NEW rows, NEW local, NEW pc
    PROVE  StaleKnown(rows, Resume(local, pc)) /\ StaleKnown(rows, Idle)
  <1>1. Idle.code # Stale /\ Idle.why # Stale
    BY IdleFields DEF Stale
  <1>2. Resume(local, pc).code # Stale /\ Resume(local, pc).why # Stale
    <2>1. CASE pc = "idle"
      BY <1>1, <2>1 DEF Resume
    <2>2. CASE pc # "idle"
      BY <2>2, ResumeFields DEF Stale
    <2> QED
      BY <2>1, <2>2
  <1> QED
    BY <1>1, <1>2, FreshKnown

LEMMA ReadsOnly ==
    ASSUME Known, ReadOnly
    PROVE  FailsSilentOnly /\ [Next]_tableVars /\ runs' = runs
  <1>1. runs' = runs /\ [Next]_tableVars
    BY ReadOnlyStep DEF ReadOnly, tableVars
  <1>2. ASSUME NEW r \in Runs, Active(r) PROVE runs'[r].errorCode # Stale
    BY <1>1, <1>2 DEF Known, SystemBase, IInv, RowsSound, RowSound, Active,
       ACTIVE_RUN_STATUSES, Stale
  <1> QED
    BY <1>1, <1>2 DEF FailsSilentOnly

LEMMA EndKnown ==
    ASSUME Known, NEW p \in Procs, End(p)
    PROVE  StaleKnown(runs', proc'[p])
  <1>1. proc'[p] = Resume(proc[p], Home(p))
    BY KnownFacts DEF End, LocalsSound
  <1> QED
    BY <1>1, ResumeKnown

\* A handler that keeps its reason and code, or takes the reason for its code.
LEMMA KeepsKnown ==
    ASSUME Known, [Next]_tableVars, NEW p \in Procs, proc[p].pc # "fail_stale",
           proc'[p].pc # "fail_stale", proc'[p].run = proc[p].run,
           proc'[p].code \in {proc[p].code, proc[p].why} \/ proc'[p].code # Stale,
           proc'[p].why = proc[p].why \/ proc'[p].why # Stale
    PROVE  StaleKnown(runs', proc'[p])
  <1>1. StaleKnown(runs', proc[p])
    BY KnownFacts, KnownStays
  <1> QED
    BY <1>1 DEF StaleKnown

LEMMA GoKnown ==
    ASSUME Known, [Next]_tableVars, NEW p \in Procs, proc[p].pc # "fail_stale",
           NEW pc \in Pcs \ {"fail_stale"}, GoTo(p, pc)
    PROVE  StaleKnown(runs', proc'[p])
  <1>1. LocalsSound
    BY KnownFacts
  <1>2. PICK new \in Local :
           /\ proc' = [proc EXCEPT ![p] = new] /\ new.pc = pc /\ new.run = proc[p].run
           /\ new.why = proc[p].why /\ new.code = proc[p].code
    BY <1>1, Goes
  <1>3. proc'[p] = new
    BY <1>1, <1>2 DEF LocalsSound
  <1> QED
    BY <1>2, <1>3, KeepsKnown

LEMMA ThrowKnown ==
    ASSUME Known, [Next]_tableVars, NEW p \in Procs, proc[p].pc # "fail_stale",
           NEW code, Throw(p, code),
           code = Stale => /\ proc[p].run \in Runs
                           /\ runs[proc[p].run].status \in TerminalStatuses
    PROVE  StaleKnown(runs', proc'[p])
  <1>1. LocalsSound /\ proc[p] \in Local
    BY KnownFacts
  <1>2. /\ proc'[p].pc = "catch" /\ proc'[p].why = "none" /\ proc'[p].run = proc[p].run
        /\ proc'[p].code = IF proc[p].why # "none" THEN proc[p].why ELSE code
    BY <1>1 DEF Throw, LocalsSound, Local
  <1>3. CASE code # Stale
    BY <1>2, <1>3, KeepsKnown DEF Stale
  <1>4. CASE code = Stale
    <2>1. runs'[proc[p].run].status \in TerminalStatuses
      BY <1>4, EnqueuedStays, KnownFacts
    <2> QED
      BY <1>2, <1>4, <2>1 DEF StaleKnown, Stale
  <1> QED
    BY <1>3, <1>4

LEMMA DoKnown ==
    ASSUME Known, NEW p \in Procs, NEW todo, NEW code, NEW back, Do(p, todo, code, back),
           code = Stale => /\ proc[p].run \in Runs
                           /\ runs'[proc[p].run].status \in TerminalStatuses
    PROVE  StaleKnown(runs', proc'[p])
  <1>1. LocalsSound /\ proc[p] \in Local
    BY KnownFacts
  <1>2. CASE todo = <<>>
    <2>1. proc'[p] = Resume(proc[p], back)
      BY <1>1, <1>2 DEF Do, LocalsSound
    <2> QED
      BY <2>1, ResumeKnown
  <1>3. CASE todo # <<>>
    <2>1. proc'[p] = [Resume(proc[p], "effects") EXCEPT !.todo = todo, !.code = code,
                                                       !.back = back]
      BY <1>1, <1>3 DEF Do, LocalsSound
    <2>2. PICK start : /\ start = Resume(proc[p], "effects")
                       /\ start = [pc |-> "effects", run |-> proc[p].run,
                                   want |-> proc[p].want, out |-> "open",
                                   why |-> "none", code |-> "none", todo |-> <<>>,
                                   back |-> "idle"]
      BY ResumeFields
    <2>3. proc'[p] = [start EXCEPT !.todo = todo, !.code = code, !.back = back]
      BY <2>1, <2>2
    <2>4. /\ proc'[p].pc = "effects" /\ proc'[p].run = proc[p].run
          /\ proc'[p].why = "none" /\ proc'[p].code = code
      BY <2>2, <2>3
    <2> QED
      BY <2>4 DEF StaleKnown, Stale
  <1> QED
    BY <1>2, <1>3

\* A handler commits a stale code only out of a recovery that asks again: in every
\* other place the run of such a code has ended and the commit is lost.
LEMMA FinishFine ==
    ASSUME Known, NEW p \in Procs, proc[p].run \in Runs,
           NEW status \in TerminalStatuses, NEW code \in FinishCodes(status),
           NEW ifStale \in BOOLEAN,
           finishChatThreadRun(proc[p].run, status, code, ifStale),
           code = Stale => /\ proc[p].code = Stale
                           /\ proc[p].pc = "fail_stale" => ifStale
    PROVE  FailsSilentOnly /\ runs'[proc[p].run].status \in TerminalStatuses
  <1>0. IInv /\ TypeOK /\ StaleKnown(runs, proc[p])
    BY KnownFacts
  <1>1. /\ runs[proc[p].run].status \notin TerminalStatuses
        /\ runs'[proc[p].run].status \in TerminalStatuses
    BY <1>0, Finishes DEF WinsOutcome
  <1>2. code = Stale => ifStale /\ Enqueued(runs, proc[p].run)
    BY <1>0, <1>1 DEF StaleKnown
  <1> QED
    BY <1>0, <1>1, <1>2, FinishFailsSilent

LEMMA CommitFine ==
    ASSUME Known, NEW p \in Procs, proc[p].run \in Runs,
           NEW status \in TerminalStatuses, NEW code \in FinishCodes(status),
           NEW ifStale \in BOOLEAN,
           finishChatThreadRun(proc[p].run, status, code, ifStale),
           code = Stale => /\ proc[p].code = Stale
                           /\ proc[p].pc = "fail_stale" => ifStale,
           NEW todo, NEW back, Do(p, todo, code, back)
    PROVE  Fine(p)
  BY FinishFine, DoKnown DEF Fine

\* A recovery that starts knows why.
LEMMA RecoveryKnown ==
    ASSUME Known, NEW r \in Runs, NEW local \in Local,
           local.why = Stale => runs[r].status \in TerminalStatuses
    PROVE  StaleKnown(runs, failRunIfStale(local, r))
  <1>0. runs[r] \in Row /\ RowSound(runs[r])
    BY DEF Known, SystemBase, IInv, TypeOK, RowsSound
  <1>1. CASE recoveryOf(runs[r]) = "none"
    <2>1. PICK known : known = [local EXCEPT !.run = r]
      OBVIOUS
    <2>2. failRunIfStale(local, r) = AfterRecovery(known, runs[r])
      BY <1>1, <2>1 DEF failRunIfStale
    <2> QED
      BY <2>2, ResumeKnown DEF AfterRecovery
  <1>2. CASE recoveryOf(runs[r]) # "none"
    <2>1. PICK pc, out, code : /\ pc = recoveryOf(runs[r])
                               /\ out = snapshotVerdict(runs[r])
                               /\ code = recoveryCode(runs[r])
      OBVIOUS
    <2>2. PICK new : new = [local EXCEPT !.pc = pc, !.run = r, !.out = out, !.code = code]
      OBVIOUS
    <2>3. /\ new.pc = pc /\ new.run = r /\ new.code = code /\ new.why = local.why
      BY <2>2 DEF Local
    <2>4. code = Stale => pc = "fail_stale" /\ Enqueued(runs, r)
      <3>1. CASE pc = "fail_stale"
        <4>1. code = staleCode(runs[r]) /\ isStaleActiveRun(runs[r])
          BY <2>1, <3>1 DEF recoveryCode, recoveryOf
        <4> QED
          BY <3>1, <4>1 DEF staleCode, Stale, isStaleActiveRun, Enqueued
      <3>2. CASE pc = "finish_snapshot"
        <4>1. runs[r].status \in ACTIVE_RUN_STATUSES
          BY <2>1, <3>2 DEF recoveryOf, snapshotVerdict
        <4>2. runs[r].errorCode = "none"
          BY <1>0, <4>1 DEF RowSound, ACTIVE_RUN_STATUSES
        <4>3. PICK verdict : verdict = snapshotVerdict(runs[r])
          OBVIOUS
        <4>4. PICK judged : judged = [runs[r] EXCEPT !.status = verdict]
          OBVIOUS
        <4>5. judged.errorCode = "none"
          BY <1>0, <4>2, <4>4 DEF Row
        <4>6. code = "none" \/ code = toTerminalRunErrorCode(judged)
          BY <2>1, <3>2, <4>3, <4>4 DEF recoveryCode
        <4> QED
          BY <4>5, <4>6 DEF toTerminalRunErrorCode, Stale
      <3>3. CASE pc \notin {"fail_stale", "finish_snapshot"}
        BY <2>1, <3>3 DEF recoveryCode, Stale
      <3> QED
        BY <3>1, <3>2, <3>3
    <2>5. StaleKnown(runs, new)
      BY <2>3, <2>4 DEF StaleKnown
    <2>6. failRunIfStale(local, r) = new
      BY <1>2, <2>1, <2>2 DEF failRunIfStale
    <2> QED
      BY <2>5, <2>6
  <1> QED
    BY <1>1, <1>2

\* A recovery that lost its commit.
LEMMA RecoveredKnown ==
    ASSUME Known, NEW p \in Procs, Recovered(p)
    PROVE  StaleKnown(runs', proc'[p])
  <1>1. proc'[p] = AfterRecovery(proc[p], runs[proc[p].run])
    BY KnownFacts DEF Recovered, LocalsSound
  <1> QED
    BY <1>1, ResumeKnown DEF AfterRecovery

-----------------------------------------------------------------------------
\* The handlers

LEMMA RecoveryFine ==
    ASSUME Known, NEW p \in Procs, RecoveryStep(p)
    PROVE  Fine(p)
  <1>0. /\ SystemBase /\ TypeOK /\ LocalsSound /\ proc[p] \in Local
        /\ LocalSound(p, proc[p]) /\ StaleKnown(runs, proc[p]) /\ proc[p].run \in Runs
    BY KnownFacts DEF RecoveryStep, expireApprovalWaitingRun,
       completeApprovalRunIfNoPendingConfirmations, finishRunIfSnapshotIsTerminal,
       recoverIfStillStale, failStaleActiveRun, At, LocalSound
  <1>a. \A c \in ErrorCodes \ {"none"} : c \in FinishCodes("failed") \cap FinishCodes("cancelled")
    BY DEF FinishCodes
  <1>b. /\ "failed" \in TerminalStatuses /\ "cancelled" \in TerminalStatuses
        /\ "completed" \in TerminalStatuses /\ "none" \in FinishCodes("completed")
        /\ proc[p].code \in ErrorCodes
    BY <1>0 DEF TerminalStatuses, FinishCodes, Local
  <1>1. CASE expireApprovalWaitingRun(p)
    <2>1. proc[p].code # "none" /\ proc[p].pc # "fail_stale"
      BY <1>0, <1>1 DEF expireApprovalWaitingRun, At, LocalSound
    <2>2. CASE /\ finishChatThreadRun(proc[p].run, "cancelled", proc[p].code, FALSE)
               /\ Do(p, <<"error", "finish", "release">>, proc[p].code, proc[p].back)
      BY <1>0, <1>a, <1>b, <2>1, <2>2, CommitFine
    <2>3. CASE ReadOnly /\ Recovered(p)
      BY <2>3, ReadsOnly, RecoveredKnown DEF Fine
    <2> QED
      BY <1>1, <2>2, <2>3 DEF expireApprovalWaitingRun, Run
  <1>2. CASE completeApprovalRunIfNoPendingConfirmations(p)
    <2>1. CASE /\ finishChatThreadRun(proc[p].run, "completed", "none", FALSE)
               /\ Do(p, <<>>, "none", proc[p].back)
      BY <1>0, <1>b, <2>1, CommitFine DEF Stale
    <2>2. CASE ReadOnly /\ proc' = [proc EXCEPT ![p] = failRunIfStale(@, @.run)]
      <3>1. proc'[p] = failRunIfStale(proc[p], proc[p].run)
        BY <1>0, <2>2 DEF LocalsSound
      <3>2. proc[p].why = Stale => runs[proc[p].run].status \in TerminalStatuses
        BY <1>0 DEF StaleKnown
      <3>3. StaleKnown(runs, proc'[p])
        BY <1>0, <3>1, <3>2, RecoveryKnown
      <3> QED
        BY <2>2, <3>3, ReadsOnly DEF Fine
    <2> QED
      BY <1>2, <2>1, <2>2 DEF completeApprovalRunIfNoPendingConfirmations, Run
  <1>3. CASE finishRunIfSnapshotIsTerminal(p)
    <2>1. /\ proc[p].out \in TerminalStatuses /\ proc[p].code \in FinishCodes(proc[p].out)
          /\ proc[p].pc = "finish_snapshot"
      BY <1>0, <1>3 DEF finishRunIfSnapshotIsTerminal, At, LocalSound, Ending
    <2>2. CASE /\ finishChatThreadRun(proc[p].run, proc[p].out, proc[p].code, FALSE)
               /\ Do(p, ReleaseIf(proc[p].out # "completed"), proc[p].code, proc[p].back)
      BY <1>0, <2>1, <2>2, CommitFine
    <2>3. CASE ReadOnly /\ GoTo(p, "recover_stale")
      <3>1. "recover_stale" \in Pcs \ {"fail_stale"}
        BY Places DEF RecoveryPcs
      <3> QED
        BY <2>1, <2>3, <3>1, ReadsOnly, GoKnown DEF Fine
    <2> QED
      BY <1>3, <2>2, <2>3 DEF finishRunIfSnapshotIsTerminal, Run
  <1>4. CASE recoverIfStillStale(p)
    <2>0. FailsSilentOnly /\ runs' = runs /\ ReadOnly
      BY <1>4, ReadsOnly DEF recoverIfStillStale
    <2>1. CASE isStaleActiveRun(runs[proc[p].run])
      <3>1. PICK code : code = staleCode(runs[proc[p].run])
        OBVIOUS
      <3>2. proc' = [proc EXCEPT ![p] = [proc[p] EXCEPT !.pc = "fail_stale", !.code = code]]
        BY <1>4, <2>1, <3>1 DEF recoverIfStillStale, Run
      <3>3. /\ proc'[p].pc = "fail_stale" /\ proc'[p].run = proc[p].run
            /\ proc'[p].why = proc[p].why /\ proc'[p].code = code
        BY <1>0, <3>2 DEF LocalsSound, Local
      <3>4. code = Stale => Enqueued(runs, proc[p].run)
        BY <2>1, <3>1 DEF staleCode, Stale, isStaleActiveRun, Enqueued
      <3> QED
        BY <1>0, <2>0, <3>3, <3>4 DEF StaleKnown, Fine
    <2>2. CASE ~isStaleActiveRun(runs[proc[p].run])
      <3>1. Recovered(p)
        BY <1>4, <2>2 DEF recoverIfStillStale, Recovered, Run
      <3> QED
        BY <2>0, <3>1, RecoveredKnown DEF Fine
    <2> QED
      BY <2>1, <2>2
  <1>5. CASE failStaleActiveRun(p)
    <2>1. proc[p].code # "none"
      BY <1>0, <1>5 DEF failStaleActiveRun, At, LocalSound
    <2>2. CASE /\ finishChatThreadRun(proc[p].run, "failed", proc[p].code, TRUE)
               /\ Do(p, <<"error", "finish", "release">>, proc[p].code, proc[p].back)
      BY <1>0, <1>a, <1>b, <2>1, <2>2, CommitFine
    <2>3. CASE ReadOnly /\ Recovered(p)
      BY <2>3, ReadsOnly, RecoveredKnown DEF Fine
    <2> QED
      BY <1>5, <2>2, <2>3 DEF failStaleActiveRun, Run
  <1> QED
    BY <1>1, <1>2, <1>3, <1>4, <1>5 DEF RecoveryStep

\* A handler that starts holds no stale code.
LEMMA StartKnown ==
    ASSUME NEW rows, NEW pc, NEW r, NEW new, new = [Idle EXCEPT !.pc = pc, !.run = r]
    PROVE  StaleKnown(rows, new)
  <1>1. PICK idle \in Local : idle = Idle
    BY IdleFields
  <1>2. new = [idle EXCEPT !.pc = pc, !.run = r]
    BY <1>1
  <1>3. new.code = idle.code /\ new.why = idle.why
    BY <1>2 DEF Local
  <1> QED
    BY <1>1, <1>3, IdleFields, FreshKnown DEF Stale

LEMMA BeginFine ==
    ASSUME Known, NEW p \in Procs, Begin(p)
    PROVE  Fine(p)
  <1>0. LocalsSound
    BY KnownFacts
  <1>1. FailsSilentOnly /\ runs' = runs
    BY ReadsOnly DEF Begin, getOrCreateRun, stopRun, validateConfirmationResponse,
       readRun, sweep, Deliver
  <1>2. SUFFICES StaleKnown(runs, proc'[p])
    BY <1>1 DEF Fine
  <1>3. Idle \in Local /\ Idle.why # Stale /\ Idle.code # Stale
    BY IdleFields DEF Stale
  <1>4. ASSUME NEW r \in Runs, getOrCreateRun(p, r)
        PROVE  StaleKnown(runs, proc'[p])
    <2>1. PICK idle \in Local : idle = Idle
      BY IdleFields
    <2>2. PICK request : request = [idle EXCEPT !.pc = "recheck", !.want = r,
                                                !.back = "recheck"]
      OBVIOUS
    <2>3. "recheck" \in Pcs
      BY Places
    <2>4. request \in Local /\ request.why # Stale /\ request.code # Stale
      BY <1>3, <2>1, <2>2, <2>3 DEF Local
    <2>5. CASE ActiveOn(ThreadOf[r]) = {}
      <3>1. proc'[p] = request
        BY <1>0, <1>4, <2>1, <2>2, <2>5 DEF getOrCreateRun, LocalsSound
      <3> QED
        BY <2>4, <3>1, FreshKnown
    <2>6. CASE ActiveOn(ThreadOf[r]) # {}
      <3>1. PICK a : a = CHOOSE b \in ActiveOn(ThreadOf[r]) : TRUE
        OBVIOUS
      <3>2. a \in Runs
        BY <2>6, <3>1 DEF ActiveOn
      <3>3. proc' = [proc EXCEPT ![p] = failRunIfStale(request, a)]
        BY <1>4, <2>1, <2>2, <2>6, <3>1 DEF getOrCreateRun
      <3>4. proc'[p] = failRunIfStale(request, a)
        BY <1>0, <3>3 DEF LocalsSound
      <3> QED
        BY <2>4, <3>2, <3>4, RecoveryKnown
    <2> QED
      BY <2>5, <2>6
  <1>5. ASSUME NEW r \in Runs, stopRun(p, r) \/ Deliver(p, r)
        PROVE  StaleKnown(runs, proc'[p])
    <2>1. PICK pc : proc' = [proc EXCEPT ![p] = [Idle EXCEPT !.pc = pc, !.run = r]]
      BY <1>5 DEF stopRun, Deliver
    <2>2. proc'[p] = [Idle EXCEPT !.pc = pc, !.run = r]
      BY <1>0, <2>1 DEF LocalsSound
    <2> QED
      BY <2>2, StartKnown
  <1>6. ASSUME NEW r \in Runs, validateConfirmationResponse(p, r)
        PROVE  StaleKnown(runs, proc'[p])
    <2>1. CASE isApprovalWaitingRunExpired(runs[r])
      <3>1. PICK idle \in Local : idle = Idle
        BY IdleFields
      <3>2. PICK new : new = [idle EXCEPT !.pc = "expire", !.run = r,
                                          !.code = "TOOL_APPROVAL_EXPIRED"]
        OBVIOUS
      <3>3. new.code # Stale /\ new.why # Stale
        BY <1>3, <3>1, <3>2 DEF Local, Stale
      <3>4. proc'[p] = new
        BY <1>0, <1>6, <2>1, <3>1, <3>2 DEF validateConfirmationResponse, LocalsSound
      <3> QED
        BY <3>3, <3>4, FreshKnown
    <2>2. CASE ~isApprovalWaitingRunExpired(runs[r])
      <3>1. proc'[p] = [Idle EXCEPT !.pc = "record", !.run = r]
        BY <1>0, <1>6, <2>2 DEF validateConfirmationResponse, LocalsSound
      <3> QED
        BY <3>1, StartKnown
    <2> QED
      BY <2>1, <2>2
  <1>7. ASSUME NEW r \in Runs, readRun(p, r) \/ sweep(p, r)
        PROVE  StaleKnown(runs, proc'[p])
    <2>1. proc'[p] = failRunIfStale(Idle, r)
      BY <1>0, <1>7 DEF readRun, sweep, LocalsSound
    <2> QED
      BY <1>3, <2>1, RecoveryKnown
  <1> QED
    BY <1>4, <1>5, <1>6, <1>7 DEF Begin

LEMMA CreateFine ==
    ASSUME Known, NEW p \in Procs, CreateStep(p)
    PROVE  Fine(p)
  <1>0. /\ SystemBase /\ IInv /\ LocalsSound /\ LocalSound(p, proc[p])
        /\ proc[p].pc # "fail_stale"
    BY KnownFacts DEF CreateStep, recheckActiveRun, insertRun, enqueueThreadChatRunJob,
       enqueueFails, failRunBeforeMessages, markQueued, At
  <1>1. CASE ReadOnly /\ (End(p) \/ \E pc \in Pcs \ {"fail_stale"} : GoTo(p, pc))
    BY <1>0, <1>1, ReadsOnly, EndKnown, GoKnown DEF Fine
  <1>2. {"insert", "mark_queued", "start_failed"} \subseteq Pcs \ {"fail_stale"}
    BY Places
  <1>3. CASE recheckActiveRun(p) \/ enqueueThreadChatRunJob(p) \/ enqueueFails(p)
    BY <1>1, <1>2, <1>3 DEF recheckActiveRun, enqueueThreadChatRunJob, enqueueFails
  <1>4. CASE insertRun(p)
    <2>1. CASE /\ createChatThreadRun(proc[p].want, ThreadOf[proc[p].want])
               /\ proc' = [proc EXCEPT ![p] = [Idle EXCEPT !.pc = "enqueue",
                                                            !.run = proc[p].want]]
      <3>1. proc[p].want \in Runs /\ ThreadOf[proc[p].want] \in Threads
        BY <1>0, <1>4, DurableRunAssumption DEF insertRun, At, LocalSound
      <3>2. FailsSilentOnly
        BY <1>0, <2>1, <3>1, OthersFailNothing
      <3>3. proc'[p] = [Idle EXCEPT !.pc = "enqueue", !.run = proc[p].want]
        BY <1>0, <2>1 DEF LocalsSound
      <3> QED
        BY <3>2, <3>3, StartKnown DEF Fine
    <2> QED
      BY <1>1, <1>4, <2>1 DEF insertRun
  <1>5. CASE failRunBeforeMessages(p)
    <2>1. proc[p].run \in Runs
      BY <1>0, <1>5 DEF failRunBeforeMessages, At, LocalSound
    <2>2. /\ "failed" \in TerminalStatuses /\ "CHAT_RUN_START_FAILED" # Stale
          /\ "CHAT_RUN_START_FAILED" \in FinishCodes("failed")
      BY DEF TerminalStatuses, FinishCodes, ErrorCodes, Stale
    <2> QED
      BY <1>1, <1>5, <2>1, <2>2, CommitFine DEF failRunBeforeMessages, Run
  <1>6. CASE markQueued(p)
    <2>1. proc[p].run \in Runs
      BY <1>0, <1>6 DEF markQueued, At, LocalSound
    <2> QED
      BY <1>0, <1>6, <2>1, OthersFailNothing, EndKnown DEF markQueued, Run, Fine
  <1> QED
    BY <1>3, <1>4, <1>5, <1>6 DEF CreateStep

LEMMA StopFine ==
    ASSUME Known, NEW p \in Procs, StopStep(p) \/ recordConfirmationResponse(p)
    PROVE  Fine(p)
  <1>0. /\ IInv /\ LocalsSound /\ proc[p].run \in Runs /\ proc[p].pc # "fail_stale"
    BY KnownFacts DEF StopStep, requestCancel, forceCancelStoppedRun,
       recordConfirmationResponse, At, LocalSound
  <1>1. CASE ReadOnly /\ (End(p) \/ GoTo(p, "force_cancel"))
    <2>1. "force_cancel" \in Pcs \ {"fail_stale"}
      BY Places DEF Backs
    <2> QED
      BY <1>0, <1>1, <2>1, ReadsOnly, EndKnown, GoKnown DEF Fine
  <1>2. CASE requestCancel(p)
    <2>1. CASE requestChatThreadRunCancel(proc[p].run)
      <3>1. FailsSilentOnly
        BY <1>0, <2>1, OthersFailNothing
      <3>2. CASE End(p)
        BY <3>1, <3>2, EndKnown DEF Fine
      <3>3. CASE Do(p, <<"stop">>, "none", "force_cancel")
        BY <3>1, <3>3, DoKnown DEF Fine, Stale
      <3> QED
        BY <1>2, <2>1, <3>2, <3>3 DEF requestCancel, Run, CanRequestCancel,
           requestChatThreadRunCancel
    <2> QED
      BY <1>1, <1>2, <2>1 DEF requestCancel, Run
  <1>3. CASE forceCancelStoppedRun(p)
    <2>1. /\ "cancelled" \in TerminalStatuses /\ "CLIENT_CANCELLED" # Stale
          /\ "CLIENT_CANCELLED" \in FinishCodes("cancelled")
      BY DEF TerminalStatuses, FinishCodes, ErrorCodes, Stale
    <2> QED
      BY <1>0, <1>1, <1>3, <2>1, CommitFine DEF forceCancelStoppedRun, Run
  <1>4. CASE recordConfirmationResponse(p)
    <2>1. FailsSilentOnly
      BY <1>0, <1>4, OthersFailNothing DEF recordConfirmationResponse, Run
    <2> QED
      BY <1>4, <2>1, EndKnown DEF recordConfirmationResponse, Fine
  <1> QED
    BY <1>2, <1>3, <1>4 DEF StopStep

LEMMA JobFine ==
    ASSUME Known, NEW p \in Procs, JobStep(p)
    PROVE  Fine(p)
  <1>0. /\ SystemBase /\ IInv /\ LocalsSound /\ proc[p] \in Local
        /\ proc[p].run \in Runs /\ proc[p].pc # "fail_stale"
        /\ StaleKnown(runs, proc[p]) /\ [Next]_tableVars
    BY KnownFacts, JobStepSound DEF JobStep, processRunJob, claimRun,
       cancelRunBeforeMessages, JobReturns, At, LocalSound
  <1>1. CASE processRunJob(p)
    <2>0. FailsSilentOnly /\ runs' = runs
      BY <1>1, ReadsOnly DEF processRunJob
    <2>1. PICK old \in Local : old = proc[p]
      BY <1>0
    <2>2. CASE runs[proc[p].run].status \in {"queued", "cancel_requested"}
      <3>1. PICK pc \in {"claim", "cancel_before"} : proc' = [proc EXCEPT ![p].pc = pc]
        BY <1>1, <2>2 DEF processRunJob, Run
      <3>2. pc \in Pcs \ {"fail_stale"} /\ GoTo(p, pc)
        BY <3>1, Places DEF GoTo
      <3> QED
        BY <1>0, <2>0, <3>2, GoKnown DEF Fine
    <2>3. CASE /\ runs[proc[p].run].status = "running"
               /\ isStaleActiveRun(runs[proc[p].run])
      <3>1. PICK local : local = [old EXCEPT !.back = "return"]
        OBVIOUS
      <3>2. "return" \in Pcs
        BY Places DEF Backs
      <3>3. local \in Local /\ local.why = old.why
        BY <3>1, <3>2 DEF Local
      <3>4. proc'[p] = failRunIfStale(local, proc[p].run)
        BY <1>0, <1>1, <2>1, <2>3, <3>1 DEF processRunJob, Run, LocalsSound
      <3>5. old.why = Stale => runs[proc[p].run].status \in TerminalStatuses
        BY <1>0, <2>1 DEF StaleKnown
      <3> QED
        BY <1>0, <2>0, <3>3, <3>4, <3>5, RecoveryKnown DEF Fine
    <2>4. CASE /\ runs[proc[p].run].status \notin {"queued", "cancel_requested"}
               /\ ~(runs[proc[p].run].status = "running"
                      /\ isStaleActiveRun(runs[proc[p].run]))
      <3>1. proc'[p] = Resume(proc[p], "return")
        BY <1>0, <1>1, <2>4 DEF processRunJob, Run, LocalsSound
      <3> QED
        BY <2>0, <3>1, ResumeKnown DEF Fine
    <2> QED
      BY <2>2, <2>3, <2>4
  <1>2. CASE claimRun(p)
    <2>1. {"turn", "job"} \subseteq Pcs \ {"fail_stale"}
      BY Places DEF ExecPcs, TurnPcs
    <2>2. FailsSilentOnly
      BY <1>0, <1>2, OthersFailNothing DEF claimRun, Run
    <2> QED
      BY <1>0, <1>2, <2>1, <2>2, GoKnown DEF claimRun, Fine
  <1>3. CASE cancelRunBeforeMessages(p)
    <2>1. /\ "cancelled" \in TerminalStatuses /\ "CLIENT_CANCELLED" # Stale
          /\ "CLIENT_CANCELLED" \in FinishCodes("cancelled")
      BY DEF TerminalStatuses, FinishCodes, ErrorCodes, Stale
    <2>2. CASE ReadOnly /\ End(p)
      BY <2>2, ReadsOnly, EndKnown DEF Fine
    <2> QED
      BY <1>0, <1>3, <2>1, <2>2, CommitFine DEF cancelRunBeforeMessages, Run
  <1>4. CASE JobReturns(p)
    <2>1. proc'[p] = Idle /\ ReadOnly
      BY <1>0, <1>4 DEF JobReturns, LocalsSound
    <2> QED
      BY <2>1, ReadsOnly, ResumeKnown DEF Fine
  <1> QED
    BY <1>1, <1>2, <1>3, <1>4 DEF JobStep

\* A turn that moves, or gets a reason or a code, which is stale only if its run
\* has ended.
LEMMA TurnKnown ==
    ASSUME Known, [Next]_tableVars, NEW p \in Procs, proc[p].pc # "fail_stale",
           NEW new, proc' = [proc EXCEPT ![p] = new],
           new.pc # "fail_stale", new.run = proc[p].run,
           \/ new.code \in {proc[p].code, proc[p].why}
           \/ new.code = Stale => /\ proc[p].run \in Runs
                                  /\ runs[proc[p].run].status \in TerminalStatuses,
           \/ new.why = proc[p].why
           \/ new.why = Stale => /\ proc[p].run \in Runs
                                 /\ runs[proc[p].run].status \in TerminalStatuses
    PROVE  StaleKnown(runs', proc'[p])
  <1>1. proc'[p] = new /\ IInv /\ StaleKnown(runs, proc[p])
    BY KnownFacts DEF LocalsSound
  <1>2. StaleKnown(runs, new)
    BY <1>1 DEF StaleKnown
  <1> QED
    BY <1>1, <1>2, KnownStays

\* A turn that reads a stale code in its run's row reads it of an ended run.
LEMMA StopIsKnown ==
    ASSUME NEW row, toRunStopError(row) = Stale
    PROVE  row.status \in TerminalStatuses
  BY DEF toRunStopError, Stale, TerminalStatuses

\* A turn's own transactions fail nothing.
LEMMA TurnWritesFine ==
    ASSUME Known, NEW p \in Procs, proc[p].pc \in ExecPcs,
           ReadOnly \/ TurnTransaction(proc[p].run)
    PROVE  FailsSilentOnly /\ [Next]_tableVars
  <1>1. SystemBase /\ IInv
    BY KnownFacts
  <1>2. CASE TurnTransaction(proc[p].run)
    <2>1. proc[p].run \in Runs
      BY <1>1, TurnFacts DEF Turning
    <2> QED
      BY <1>1, <1>2, <2>1, TurnWrites, OthersFailNothing
  <1> QED
    BY <1>2, ReadsOnly

LEMMA HeartbeatFine ==
    ASSUME Known, NEW p \in Procs, heartbeat(p)
    PROVE  Fine(p)
  <1>1. /\ proc[p].pc \in {"turn", "tail"} /\ proc[p].pc \in ExecPcs
        /\ proc[p].pc # "fail_stale" /\ proc[p] \in Local /\ proc[p].run \in Runs
    BY KnownFacts, TurnFacts DEF heartbeat, At, Turning, ExecPcs, TurnPcs
  <1>2. FailsSilentOnly /\ [Next]_tableVars
    BY <1>1, TurnWritesFine DEF heartbeat, Run, TurnTransaction
  <1>3. CASE proc' = [proc EXCEPT ![p].pc = "push", ![p].back = proc[p].pc]
    <2>1. PICK new : new = [proc[p] EXCEPT !.pc = "push", !.back = proc[p].pc]
      OBVIOUS
    <2>2. proc' = [proc EXCEPT ![p] = new]
      BY <1>1, <1>3, <2>1, KnownFacts DEF LocalsSound, Local
    <2>3. /\ new.pc = "push" /\ new.run = proc[p].run /\ new.why = proc[p].why
          /\ new.code = proc[p].code
      BY <1>1, <2>1 DEF Local
    <2> QED
      BY <1>1, <1>2, <2>2, <2>3, TurnKnown DEF Fine
  <1>4. CASE Throw(p, toRunStopError(runs[proc[p].run]))
    <2>1. PICK code : code = toRunStopError(runs[proc[p].run])
      OBVIOUS
    <2> QED
      BY <1>1, <1>2, <1>4, <2>1, StopIsKnown, ThrowKnown DEF Fine
  <1> QED
    BY <1>3, <1>4 DEF heartbeat, Run

LEMMA EventFine ==
    ASSUME Known, NEW p \in Procs, appendEvent(p) \/ appendRunEvent(p)
    PROVE  Fine(p)
  <1>1. /\ proc[p].pc \in {"push", "progress"} /\ proc[p].pc \in ExecPcs
        /\ proc[p].pc # "fail_stale" /\ SystemBase /\ LocalSound(p, proc[p])
        /\ proc[p] \in Local
    BY KnownFacts DEF appendEvent, appendRunEvent, At, ExecPcs, TurnPcs
  <1>2. PICK pc \in {"turn", "tail", "persist", "progress"} : GoTo(p, pc)
    BY <1>1 DEF appendEvent, appendRunEvent, LocalSound
  <1>3. pc \in Pcs \ {"fail_stale"}
    BY Places DEF ExecPcs, TurnPcs
  <1>4. PICK snap : snap = IF proc[p].out = "paused" THEN "open" ELSE proc[p].out
    OBVIOUS
  <1>5. snap \in SnapshotOutcomes
    BY <1>1, <1>4, Places DEF Local
  <1>6. ReadOnly \/ TurnTransaction(proc[p].run)
    BY <1>4, <1>5 DEF appendEvent, appendRunEvent, Run, TurnTransaction
  <1>7. FailsSilentOnly /\ [Next]_tableVars
    BY <1>1, <1>6, TurnWritesFine
  <1> QED
    BY <1>1, <1>2, <1>3, <1>7, GoKnown DEF Fine

LEMMA StreamEndsFine ==
    ASSUME Known, NEW p \in Procs,
           streamEnds(p) \/ turnThrows(p) \/ startTerminalCommit(p)
    PROVE  Fine(p)
  <1>1. /\ proc[p].pc \in {"turn", "tail"} /\ proc[p].pc # "fail_stale"
        /\ LocalsSound /\ proc[p] \in Local /\ ReadOnly
        /\ FailsSilentOnly /\ [Next]_tableVars
    BY KnownFacts, ReadsOnly DEF streamEnds, turnThrows, startTerminalCommit, At
  <1>2. Stale \notin TurnErrors
    BY DurableRunAssumption DEF Stale
  <1>3. CASE streamEnds(p)
    <2>1. PICK out, code :
             /\ code # Stale
             /\ proc' = [proc EXCEPT ![p].pc = "tail", ![p].out = out, ![p].code = code]
      <3>1. PICK end \in {<<"completed", "none">>, <<"paused", "none">>,
                          <<"cancelled", "CLIENT_CANCELLED">>}
                            \cup ({"failed"} \X TurnErrors) :
               proc' = [proc EXCEPT ![p].pc = "tail", ![p].out = end[1], ![p].code = end[2]]
        BY <1>3 DEF streamEnds
      <3>2. end[2] # Stale
        BY <1>2, <3>1 DEF Stale
      <3> QED
        BY <3>1, <3>2
    <2>2. PICK new : new = [proc[p] EXCEPT !.pc = "tail", !.out = out, !.code = code]
      OBVIOUS
    <2>3. proc' = [proc EXCEPT ![p] = new]
      BY <1>1, <2>1, <2>2 DEF LocalsSound, Local
    <2>4. /\ new.pc = "tail" /\ new.run = proc[p].run /\ new.why = proc[p].why
          /\ new.code = code
      BY <1>1, <2>2 DEF Local
    <2> QED
      BY <1>1, <2>1, <2>3, <2>4, TurnKnown DEF Fine
  <1>4. CASE turnThrows(p)
    BY <1>1, <1>2, <1>4, ThrowKnown DEF turnThrows, Fine
  <1>5. CASE startTerminalCommit(p)
    <2>1. "commit" \in Pcs \ {"fail_stale"}
      BY Places DEF ExecPcs, TurnPcs
    <2> QED
      BY <1>1, <1>5, <2>1, GoKnown DEF startTerminalCommit, Fine
  <1> QED
    BY <1>3, <1>4, <1>5

LEMMA CommitTurnFine ==
    ASSUME Known, NEW p \in Procs, commitTurn(p)
    PROVE  Fine(p)
  <1>1. /\ proc[p].pc = "commit" /\ proc[p].pc \in ExecPcs /\ proc[p].pc # "fail_stale"
        /\ SystemBase /\ LocalsSound /\ LocalSound(p, proc[p]) /\ proc[p] \in Local
        /\ proc[p].run \in Runs
    BY KnownFacts, TurnFacts DEF commitTurn, At, Turning, ExecPcs, TurnPcs
  <1>2. [Next]_tableVars
    BY <1>1, CommitSound
  <1>3. ASSUME NEW todo, CommitEffects(p, todo)
        PROVE  StaleKnown(runs', proc'[p])
    <2>1. PICK new : new = [proc[p] EXCEPT !.pc = "effects", !.todo = todo,
                                           !.back = "return"]
      OBVIOUS
    <2>2. proc' = [proc EXCEPT ![p] = new]
      BY <1>1, <1>3, <2>1 DEF CommitEffects, LocalsSound, Local
    <2>3. /\ new.pc = "effects" /\ new.run = proc[p].run /\ new.why = proc[p].why
          /\ new.code = proc[p].code
      BY <1>1, <2>1 DEF Local
    <2> QED
      BY <1>1, <1>2, <2>2, <2>3, TurnKnown
  <1>4. CASE /\ proc[p].out = "paused"
             /\ \E ids \in SUBSET Confs, knowsCall \in BOOLEAN :
                   markChatThreadRunWaitingForApproval(proc[p].run, ids, knowsCall)
             /\ CommitEffects(p, <<"paused_finish">>)
    <2>1. TurnTransaction(proc[p].run)
      BY <1>4 DEF TurnTransaction
    <2>2. FailsSilentOnly
      BY <1>1, <2>1, TurnWritesFine
    <2> QED
      BY <1>3, <1>4, <2>2 DEF Fine
  <1>5. CASE /\ proc[p].out # "paused"
             /\ finishChatThreadRun(proc[p].run, proc[p].out, proc[p].code, FALSE)
             /\ CommitEffects(p,
                   ReleaseIf(shouldReleaseSandboxLeaseForFinishedRun(proc[p].out, proc[p].code))
                   \o TerminalEvents(proc[p].out))
    <2>1. /\ proc[p].out \in TerminalStatuses /\ proc[p].code \in FinishCodes(proc[p].out)
      BY <1>1, <1>5 DEF LocalSound, Ending
    <2>2. FailsSilentOnly
      BY <1>1, <1>5, <2>1, FinishFine
    <2> QED
      BY <1>3, <1>5, <2>2 DEF Fine
  <1>6. CASE ReadOnly /\ GoTo(p, "lost")
    <2>1. "lost" \in Pcs \ {"fail_stale"}
      BY Places DEF ExecPcs
    <2> QED
      BY <1>1, <1>6, <2>1, ReadsOnly, GoKnown DEF Fine
  <1> QED
    BY <1>4, <1>5, <1>6 DEF commitTurn, Run

LEMMA CatchFine ==
    ASSUME Known, NEW p \in Procs,
           lostCommit(p) \/ catchTurnError(p) \/ flushPendingDelta(p)
    PROVE  Fine(p)
  <1>1. /\ proc[p].pc \in {"lost", "catch", "flush"} /\ proc[p].pc \in ExecPcs
        /\ proc[p].pc # "fail_stale" /\ LocalsSound /\ proc[p] \in Local
    BY KnownFacts DEF lostCommit, catchTurnError, flushPendingDelta, At, ExecPcs
  <1>2. FailsSilentOnly /\ [Next]_tableVars
    BY <1>1, TurnWritesFine DEF lostCommit, catchTurnError, flushPendingDelta, Run,
       TurnTransaction
  <1>3. CASE End(p)
    BY <1>2, <1>3, EndKnown DEF Fine
  <1>4. CASE GoTo(p, "flush")
    <2>1. "flush" \in Pcs \ {"fail_stale"}
      BY Places DEF ExecPcs
    <2> QED
      BY <1>1, <1>2, <1>4, <2>1, GoKnown DEF Fine
  <1>5. CASE proc' = [proc EXCEPT ![p].pc = "persist", ![p].back = "catch",
                                  ![p].code = "CLIENT_CANCELLED"]
    <2>1. PICK new : new = [proc[p] EXCEPT !.pc = "persist", !.back = "catch",
                                           !.code = "CLIENT_CANCELLED"]
      OBVIOUS
    <2>2. proc' = [proc EXCEPT ![p] = new]
      BY <1>1, <1>5, <2>1 DEF LocalsSound, Local
    <2>3. /\ new.pc = "persist" /\ new.run = proc[p].run /\ new.why = proc[p].why
          /\ new.code # Stale
      BY <1>1, <2>1 DEF Local, Stale
    <2> QED
      BY <1>1, <1>2, <2>2, <2>3, TurnKnown DEF Fine
  <1>6. ASSUME NEW pc \in {"push", "persist"},
               proc' = [proc EXCEPT ![p].pc = pc, ![p].back = "persist"]
        PROVE  Fine(p)
    <2>1. PICK new : new = [proc[p] EXCEPT !.pc = pc, !.back = "persist"]
      OBVIOUS
    <2>2. proc' = [proc EXCEPT ![p] = new]
      BY <1>1, <1>6, <2>1 DEF LocalsSound, Local
    <2>3. /\ new.pc = pc /\ new.run = proc[p].run /\ new.why = proc[p].why
          /\ new.code = proc[p].code
      BY <1>1, <2>1 DEF Local
    <2> QED
      BY <1>1, <1>2, <2>2, <2>3, TurnKnown DEF Fine
  <1>7. CASE lostCommit(p)
    BY <1>3, <1>5, <1>7 DEF lostCommit
  <1>8. CASE catchTurnError(p)
    BY <1>3, <1>4, <1>8 DEF catchTurnError
  <1>9. CASE flushPendingDelta(p)
    BY <1>6, <1>9 DEF flushPendingDelta
  <1> QED
    BY <1>7, <1>8, <1>9

LEMMA PersistFine ==
    ASSUME Known, NEW p \in Procs, persistTerminalFailure(p)
    PROVE  Fine(p)
  <1>1. /\ proc[p].pc # "fail_stale" /\ proc[p].run \in Runs
        /\ proc[p].code \in ErrorCodes \ {"none"}
    BY KnownFacts DEF persistTerminalFailure, LocalSound, Local
  <1>2. PICK status, code : code = proc[p].code /\ status = terminalStatusOf(code)
    OBVIOUS
  <1>3. status \in TerminalStatuses /\ code \in FinishCodes(status)
    BY <1>1, <1>2 DEF terminalStatusOf, TerminalStatuses, FinishCodes
  <1>4. CASE /\ finishChatThreadRun(proc[p].run, status, code, FALSE)
             /\ Do(p, ReleaseIf(shouldReleaseSandboxLeaseForFinishedRun(status, code))
                      \o TerminalEvents(status), code, "return")
    BY <1>1, <1>2, <1>3, <1>4, CommitFine
  <1>5. CASE ReadOnly /\ End(p)
    BY <1>5, ReadsOnly, EndKnown DEF Fine
  <1> QED
    BY <1>2, <1>4, <1>5 DEF persistTerminalFailure, Run

-----------------------------------------------------------------------------
\* Effects, faults and monitors

LEMMA NextEffectKnown ==
    ASSUME Known, ReadOnly, NEW p \in Procs, proc[p].pc = "effects",
           proc' = [proc EXCEPT ![p] = afterEffect(@)]
    PROVE  StaleKnown(runs', proc'[p])
  <1>1. LocalsSound /\ proc[p] \in Local /\ [Next]_tableVars
    BY KnownFacts, ReadsOnly
  <1>2. CASE Tail(proc[p].todo) = <<>>
    <2>1. proc'[p] = Resume(proc[p], proc[p].back)
      BY <1>1, <1>2 DEF afterEffect, LocalsSound
    <2> QED
      BY <2>1, ResumeKnown
  <1>3. CASE Tail(proc[p].todo) # <<>>
    <2>1. PICK new : new = [proc[p] EXCEPT !.todo = Tail(proc[p].todo)]
      OBVIOUS
    <2>2. proc' = [proc EXCEPT ![p] = new]
      BY <1>1, <1>3, <2>1 DEF afterEffect, Local
    <2>3. /\ new.pc = "effects" /\ new.run = proc[p].run /\ new.why = proc[p].why
          /\ new.code = proc[p].code
      BY <1>1, <2>1 DEF Local
    <2> QED
      BY <1>1, <2>2, <2>3, TurnKnown
  <1> QED
    BY <1>2, <1>3

LEMMA EffectFine ==
    ASSUME Known, NEW p \in Procs, EffectStep(p) \/ EffectFails(p)
    PROVE  Fine(p)
  <1>1. /\ ReadOnly /\ proc[p].pc = "effects" /\ proc[p].pc # "fail_stale"
        /\ LocalsSound /\ proc[p] \in Local /\ FailsSilentOnly /\ [Next]_tableVars
    BY KnownFacts, ReadsOnly DEF EffectStep, EffectFails, At
  <1>2. CASE proc' = [proc EXCEPT ![p] = afterEffect(@)]
    BY <1>1, <1>2, NextEffectKnown DEF Fine
  <1>3. CASE proc' = [proc EXCEPT ![p] = abandonEffects(@, p)]
    <2>1. CASE \E i \in DOMAIN Tail(proc[p].todo) : Tail(proc[p].todo)[i] = "release"
      <3>1. PICK new : new = [proc[p] EXCEPT !.todo = <<"release">>, !.back = Home(p)]
        OBVIOUS
      <3>2. proc' = [proc EXCEPT ![p] = new]
        BY <1>3, <2>1, <3>1 DEF abandonEffects
      <3>3. /\ new.pc = "effects" /\ new.run = proc[p].run /\ new.why = proc[p].why
            /\ new.code = proc[p].code
        BY <1>1, <3>1 DEF Local
      <3> QED
        BY <1>1, <3>2, <3>3, TurnKnown DEF Fine
    <2>2. CASE ~\E i \in DOMAIN Tail(proc[p].todo) : Tail(proc[p].todo)[i] = "release"
      <3>1. proc'[p] = Resume(proc[p], Home(p))
        BY <1>1, <1>3, <2>2 DEF abandonEffects, LocalsSound
      <3> QED
        BY <1>1, <3>1, ResumeKnown DEF Fine
    <2> QED
      BY <2>1, <2>2
  <1>4. CASE Throw(p, "CHAT_RUN_FAILED")
    BY <1>1, <1>4, ThrowKnown DEF Fine, Stale
  <1> QED
    BY <1>2, <1>3, <1>4 DEF EffectStep, EffectFails

LEMMA DatabaseFailsFine ==
    ASSUME Known, NEW p \in Procs, DatabaseFails(p)
    PROVE  Fine(p)
  <1>1. /\ LocalsSound /\ proc[p] \in Local /\ LocalSound(p, proc[p])
        /\ StaleKnown(runs, proc[p]) /\ IInv /\ FailsSilentOnly /\ [Next]_tableVars
    BY KnownFacts, ReadsOnly DEF DatabaseFails
  <1>2. CASE End(p)
    BY <1>1, <1>2, EndKnown DEF Fine
  <1>3. CASE proc[p].pc # "fail_stale" /\ (GoTo(p, "persist") \/ GoTo(p, "boundary"))
    <2>1. {"persist", "boundary"} \subseteq Pcs \ {"fail_stale"}
      BY Places DEF ExecPcs
    <2> QED
      BY <1>1, <1>3, <2>1, GoKnown DEF Fine
  <1>4. CASE proc[p].pc # "fail_stale" /\ Throw(p, "CHAT_RUN_FAILED")
    BY <1>1, <1>4, ThrowKnown DEF Fine, Stale
  <1>5. CASE proc[p].pc = "persist" /\ Throw(p, proc[p].code)
    <2>1. PICK code : code = proc[p].code
      OBVIOUS
    <2>2. code = Stale => /\ proc[p].run \in Runs
                          /\ runs[proc[p].run].status \in TerminalStatuses
      BY <1>1, <1>5, <2>1 DEF StaleKnown
    <2> QED
      BY <1>1, <1>5, <2>1, <2>2, ThrowKnown DEF Fine
  <1>6. CASE proc' = [proc EXCEPT ![p].pc = "boundary", ![p].code = "CHAT_RUN_FAILED"]
    <2>1. PICK new : new = [proc[p] EXCEPT !.pc = "boundary", !.code = "CHAT_RUN_FAILED"]
      OBVIOUS
    <2>2. proc' = [proc EXCEPT ![p] = new]
      BY <1>1, <1>6, <2>1 DEF LocalsSound, Local
    <2>3. /\ new.pc = "boundary" /\ new.run = proc[p].run /\ new.why = proc[p].why
          /\ new.code # Stale
      BY <1>1, <2>1 DEF Local, Stale
    <2>4. StaleKnown(runs, new)
      BY <1>1, <2>3 DEF StaleKnown
    <2>5. proc'[p] = new /\ StaleKnown(runs', new)
      BY <1>1, <2>2, <2>4, KnownStays DEF LocalsSound
    <2> QED
      BY <1>1, <2>5 DEF Fine
  <1> QED
    BY <1>2, <1>3, <1>4, <1>5, <1>6 DEF DatabaseFails, TurnPcs, RecoveryPcs

LEMMA CrashFine ==
    ASSUME Known, NEW p \in Procs, Crash(p)
    PROVE  Fine(p)
  <1>1. proc'[p] = Idle /\ FailsSilentOnly
    BY KnownFacts, ReadsOnly DEF Crash, LocalsSound
  <1> QED
    BY <1>1, ResumeKnown DEF Fine

\* A monitor tells a turn of a stale code only after the run has ended.
LEMMA AbortFine ==
    ASSUME Known, NEW p \in Procs, checkRunOwnership(p) \/ interruptActiveChatRuns(p)
    PROVE  Fine(p)
  <1>1. /\ proc[p].pc \in TurnPcs /\ proc[p].pc # "fail_stale" /\ proc[p].run \in Runs
        /\ LocalsSound /\ proc[p] \in Local /\ FailsSilentOnly /\ [Next]_tableVars
    BY KnownFacts, TurnFacts, ReadsOnly DEF checkRunOwnership, interruptActiveChatRuns,
       Abortable, Turning, ExecPcs, TurnPcs
  <1>2. PICK why : /\ proc' = [proc EXCEPT ![p].why = why]
                   /\ why = Stale => runs[proc[p].run].status \in TerminalStatuses
    BY StopIsKnown DEF checkRunOwnership, interruptActiveChatRuns, Run, Stale
  <1>3. PICK new : new = [proc[p] EXCEPT !.why = why]
    OBVIOUS
  <1>4. proc' = [proc EXCEPT ![p] = new]
    BY <1>2, <1>3
  <1>5. /\ new.pc = proc[p].pc /\ new.run = proc[p].run /\ new.code = proc[p].code
        /\ new.why = why
    BY <1>1, <1>3 DEF Local
  <1> QED
    BY <1>1, <1>2, <1>4, <1>5, TurnKnown DEF Fine

-----------------------------------------------------------------------------
\* The system

LEMMA HandlersFine ==
    ASSUME Known, NEW p \in Procs,
           \/ Begin(p) \/ HandlerStep(p) \/ FaultStep(p)
           \/ checkRunOwnership(p) \/ interruptActiveChatRuns(p)
    PROVE  Fine(p)
  <1>1. CASE Begin(p) \/ RecoveryStep(p) \/ CreateStep(p)
    BY <1>1, BeginFine, RecoveryFine, CreateFine
  <1>2. CASE StopStep(p) \/ recordConfirmationResponse(p) \/ JobStep(p)
    BY <1>2, StopFine, JobFine
  <1>3. CASE TurnStep(p)
    BY <1>3, HeartbeatFine, EventFine, StreamEndsFine, CommitTurnFine, CatchFine,
       PersistFine DEF TurnStep
  <1>4. CASE EffectStep(p) \/ FaultStep(p)
    BY <1>4, EffectFine, DatabaseFailsFine, CrashFine DEF FaultStep
  <1> QED
    BY <1>1, <1>2, <1>3, <1>4, AbortFine DEF HandlerStep

\* Tools, time and publishers fail nothing.
LEMMA QuietFine ==
    ASSUME Known, EnvironmentStep \/ \E p \in Procs : useProtectedTool(p)
    PROVE  FailsSilentOnly
  <1>1. ASSUME NEW p \in Procs, useProtectedTool(p)
        PROVE  FailsSilentOnly
    <2>1. proc[p].pc \in ExecPcs /\ TurnTransaction(proc[p].run)
      BY <1>1 DEF useProtectedTool, ExecPcs, TurnPcs, TurnTransaction, Run
    <2> QED
      BY <2>1, TurnWritesFine
  <1>2. CASE Tick
    <2>1. CASE Runs = {}
      BY <2>1 DEF FailsSilentOnly
    <2> QED
      BY <1>2, <2>1, KnownFacts, OthersFailNothing DEF Known, SystemBase
  <1>3. ASSUME NEW r \in Runs, ApprovalDeadlinePasses(r) \/ publishArtifact(r)
        PROVE  FailsSilentOnly
    <2>1. ApprovalDeadlinePasses(r) \/ TurnTransaction(r)
      BY <1>3 DEF publishArtifact, TurnTransaction
    <2> QED
      BY <2>1, OthersFailNothing DEF Known, SystemBase
  <1> QED
    BY <1>1, <1>2, <1>3 DEF EnvironmentStep

LEMMA KnownInit == SystemInit => Known
  <1> SUFFICES ASSUME SystemInit PROVE Known
    OBVIOUS
  <1>1. \A p \in Procs : proc[p] = Idle
    BY DEF SystemInit
  <1> QED
    BY <1>1, BaseInit, ResumeKnown DEF Known, StaleCodesKnown

LEMMA KnownStep ==
    ASSUME Known, [SystemNext]_vars
    PROVE  Known' /\ FailsSilentOnly
  <1>1. /\ SystemBase /\ IInv /\ SystemBase' /\ [Next]_tableVars
    BY BaseStep, SystemStep DEF Known, SystemBase
  <1>2. \A p \in Procs : StaleKnown(runs', proc[p])
    BY <1>1, KnownFacts, KnownStays
  <1>3. ASSUME NEW p \in Procs, Fine(p), ProcStep(p)
        PROVE  Known' /\ FailsSilentOnly
    BY <1>1, <1>2, <1>3 DEF Fine, ProcStep, Known, StaleCodesKnown
  <1>4. CASE UNCHANGED proc /\ FailsSilentOnly
    BY <1>1, <1>2, <1>4 DEF Known, StaleCodesKnown
  <1>5. CASE UNCHANGED vars
    <2>1. ReadOnly /\ UNCHANGED proc
      BY <1>5 DEF vars, ReadOnly, tableVars
    <2> QED
      BY <1>4, <2>1, ReadsOnly
  <1>6. CASE EnvironmentStep \/ \E p \in Procs : useProtectedTool(p)
    BY <1>1, <1>4, <1>6, QuietSteps, QuietFine DEF systemVars
  <1>7. ASSUME NEW p \in Procs,
               \/ Begin(p) \/ HandlerStep(p) \/ FaultStep(p)
               \/ checkRunOwnership(p) \/ interruptActiveChatRuns(p)
        PROVE  Known' /\ FailsSilentOnly
    <2>1. ProcStep(p)
      BY <1>1, <1>7, RecoveryStepSound, CreateStepSound, StopStepSound, RecordSound,
         JobStepSound, TurnStepSound, EffectStepSound, BeginSound, FaultStepSound,
         AbortSound DEF HandlerStep
    <2> QED
      BY <1>3, <1>7, <2>1, HandlersFine
  <1> QED
    BY <1>5, <1>6, <1>7 DEF SystemNext, MonitorStep

\* A worker that heartbeats after a recovery has read its run, or before it commits,
\* is not failed as stale: recovery asks again under the row lock, whatever else
\* happens in between, and a stale code that is read later is read of an ended run.
THEOREM NotFailedAsStale == SystemSpec => LiveRunIsNotFailedAsStale
  <1>1. Known /\ [SystemNext]_vars =>
           [\A r \in Runs : Active(r) /\ runs'[r].errorCode = "CHAT_RUN_STALE"
                               => runs[r].silence > STALE_ACTIVE_RUN_TIMEOUT]_vars
    BY KnownStep DEF FailsSilentOnly, Stale
  <1>2. Known /\ [SystemNext]_vars => Known'
    BY KnownStep
  <1> QED
    BY KnownInit, <1>1, <1>2, PTL DEF SystemSpec, LiveRunIsNotFailedAsStale

-----------------------------------------------------------------------------
\* Who an active run belongs to

\* The statuses in which somebody has to be at work on a run.
Needy == {"queued", "running", "cancel_requested"}

\* A delivery that is past its claim works on a claimed run, before it on an
\* existing one.  A turn that lost its commit, or has committed, does not leave a
\* running row behind.  Only a delivery returns to the queue.
SettledFor(rows, p, local) ==
    /\ p \in Workers /\ local.pc \notin {"idle", "job", "claim"}
          => Begun(rows, local.run)
    /\ local.pc \in {"enqueue", "job", "claim"} => rows[local.run].status # "absent"
    /\ \/ local.pc = "lost"
       \/ local.pc = "effects" /\ local.out # "open"
       => rows[local.run].status # "running"
    /\ local.pc = "return" \/ local.back = "return" => p \in Workers

\* local is at work on run r, where the row says r is.
Serves(rows, local, r) ==
    /\ local.run = r
    /\ \/ rows[r].status = "queued" /\ local.pc \in {"enqueue", "job", "claim"}
       \/ rows[r].status = "running" /\ local.pc \in ExecPcs
       \/ /\ rows[r].status = "cancel_requested"
          /\ \/ local.pc = "force_cancel"
             \/ local.pc = "effects" /\ local.back = "force_cancel"

\* Run r waits for one of its deliveries.
Waits(rows, jobs, r) == rows[r].status = "queued" /\ jobs[r] > 0

AllSettled ==
    /\ \A p \in Procs : SettledFor(runs, p, proc[p])
    /\ \A r \in Runs : queue[r] > 0 => runs[r].status # "absent"

AllServed ==
    \A r \in Runs : runs[r].status \in Needy =>
        Waits(runs, queue, r) \/ \E p \in Procs : Serves(runs, proc[p], r)

Owning == faults = 0 => AllSettled /\ AllServed

\* The step makes no run needy.
Calm == \A r \in Runs : runs'[r].status \in {runs[r].status} \cup (RunStatuses \ Needy)

\* After the step of p no run has lost its owner by it.
Hands(p) ==
    \A r \in Runs : runs'[r].status \in Needy =>
        \/ Waits(runs', queue', r)
        \/ Serves(runs', proc'[p], r)
        \/ /\ runs'[r].status = runs[r].status
           /\ ~Serves(runs, proc[p], r)
           /\ ~Waits(runs, queue, r)

Keeps(p) == SettledFor(runs', p, proc'[p]) /\ Hands(p)

\* What the steps are judged from.
Ready(p) ==
    /\ SystemBase /\ Counted /\ AllSettled
    /\ ProcStep(p) /\ [Next]_tableVars

LEMMA ReadyFacts ==
    ASSUME NEW p \in Procs, Ready(p)
    PROVE  /\ SystemBase /\ IInv /\ TypeOK /\ LocalsSound /\ [Next]_tableVars
           /\ proc[p] \in Local /\ LocalSound(p, proc[p]) /\ SettledFor(runs, p, proc[p])
           /\ proc'[p] \in Local /\ LocalSound(p, proc'[p])
           /\ queue \in [Runs -> Nat]
           /\ Turning(proc'[p]) => \/ Turning(proc[p]) /\ proc'[p].run = proc[p].run
                                   \/ ~Begun(runs, proc'[p].run)
           /\ Covered(runs', proc'[p])
  <1>1. MaxDeliveries \in Nat
    BY DurableRunAssumption
  <1>2. queue \in [Runs -> Nat]
    BY <1>1 DEF Ready, Counted
  <1> QED
    BY <1>2 DEF Ready, SystemBase, IInv, LocalsSound, AllSettled, ProcStep

-----------------------------------------------------------------------------
\* Transactions that make no run needy

LEMMA CalmSteps ==
    ASSUME TypeOK, NEW r \in Runs,
           \/ ReadOnly
           \/ markChatThreadRunQueued(r)
           \/ TurnTransaction(r)
           \/ \E c \in Confs : recordChatThreadRunConfirmationResponse(r, c)
           \/ ApprovalDeadlinePasses(r) \/ Tick
    PROVE  Calm
  <1>1. SUFFICES ASSUME NEW s \in Runs
                 PROVE  runs'[s].status \in {runs[s].status} \cup (RunStatuses \ Needy)
    BY DEF Calm
  <1>2. runs[s] \in Row /\ runs \in [Runs -> Row] /\ runs[r] \in Row
    BY DEF TypeOK
  <1>3. {"waiting_for_approval", "completed"} \subseteq RunStatuses \ Needy
    BY DEF RunStatuses, ACTIVE_RUN_STATUSES, TerminalStatuses, Needy
  <1>4. CASE ReadOnly
    BY <1>4 DEF ReadOnly, tableVars
  <1>5. CASE markChatThreadRunQueued(r)
    BY <1>2, <1>5 DEF markChatThreadRunQueued, Row
  <1>6. CASE TurnTransaction(r)
    BY <1>3, <1>6, TurnKeepsRow
  <1>7. ASSUME NEW c \in Confs, recordChatThreadRunConfirmationResponse(r, c)
        PROVE  runs'[s].status \in {runs[s].status, "completed"}
    <2>1. CASE runs[r].pending = {c}
      BY <1>2, <1>7, <2>1 DEF recordChatThreadRunConfirmationResponse, ended, Row
    <2>2. CASE runs[r].pending # {c}
      BY <1>2, <1>7, <2>2 DEF recordChatThreadRunConfirmationResponse, Row
    <2> QED
      BY <2>1, <2>2
  <1>8. CASE ApprovalDeadlinePasses(r)
    BY <1>2, <1>8 DEF ApprovalDeadlinePasses, Row
  <1>9. CASE Tick
    <2>1. runs'[s] \in {runs[s], [runs[s] EXCEPT !.silence = @ + 1]}
      BY <1>9 DEF Tick
    <2> QED
      BY <1>2, <2>1 DEF Row
  <1> QED
    BY <1>3, <1>4, <1>5, <1>6, <1>7, <1>8, <1>9

LEMMA CalmFinish ==
    ASSUME TypeOK, NEW r \in Runs, NEW status \in TerminalStatuses, NEW code, NEW ifStale,
           finishChatThreadRun(r, status, code, ifStale)
    PROVE  Calm /\ runs'[r].status \notin Needy
  <1>1. runs \in [Runs -> Row] /\ runs[r] \in Row
    BY DEF TypeOK
  <1>2. status \in RunStatuses \ Needy
    BY DEF RunStatuses, ACTIVE_RUN_STATUSES, TerminalStatuses, Needy
  <1>3. \A s \in Runs \ {r} : runs'[s] = runs[s]
    BY <1>1 DEF finishChatThreadRun
  <1>4. runs'[r] = ended(runs[r], status, code)
    BY <1>1 DEF finishChatThreadRun
  <1>5. runs'[r].status = status
    BY <1>1, <1>4 DEF ended, Row
  <1> QED
    BY <1>2, <1>3, <1>5 DEF Calm

-----------------------------------------------------------------------------
\* Moves of a handler

\* A handler that is not a delivery, or works on a claimed run, is settled outside
\* the turn wherever it goes with its run.
LEMMA SettledOutside ==
    ASSUME NEW p \in Procs, Ready(p), ~Turning(proc[p]),
           \/ p \notin Workers
           \/ proc'[p].pc \in {"idle", "job", "claim"}
           \/ proc[p].run \in Runs /\ proc'[p].run = proc[p].run /\ Begun(runs, proc[p].run),
           \/ proc'[p].pc \notin {"enqueue", "job", "claim"}
           \/ runs'[proc'[p].run].status # "absent",
           p \in Workers \/ (proc'[p].pc # "return" /\ proc'[p].back # "return")
    PROVE  SettledFor(runs', p, proc'[p])
  <1>1. CASE p \notin Workers
    <2>1. ~Turning(proc'[p])
      BY <1>1, ReadyFacts DEF LocalSound
    <2> QED
      BY <1>1, <2>1 DEF SettledFor, Turning, ExecPcs
  <1>2. CASE proc'[p].pc \in {"idle", "job", "claim"}
    BY <1>2 DEF SettledFor
  <1>3. CASE proc[p].run \in Runs /\ proc'[p].run = proc[p].run /\ Begun(runs, proc[p].run)
    <2>1. ~Turning(proc'[p])
      BY <1>3, ReadyFacts
    <2>2. Begun(runs', proc[p].run)
      BY <1>3, ReadyFacts, BegunStays DEF IInv
    <2> QED
      BY <1>3, <2>1, <2>2 DEF SettledFor, Turning, ExecPcs
  <1> QED
    BY <1>1, <1>2, <1>3

\* A handler that serves nobody has nothing to hand over in a calm step.
LEMMA NothingToHand ==
    ASSUME NEW p \in Procs, Calm, \A r \in Runs : ~Serves(runs, proc[p], r),
           UNCHANGED queue
    PROVE  Hands(p)
  <1>1. SUFFICES ASSUME NEW r \in Runs, runs'[r].status \in Needy,
                        ~Waits(runs', queue', r)
                 PROVE  runs'[r].status = runs[r].status /\ ~Waits(runs, queue, r)
    BY DEF Hands
  <1>2. runs'[r].status = runs[r].status
    BY <1>1 DEF Calm
  <1> QED
    BY <1>1, <1>2 DEF Waits

\* In a calm step only the run of the handler itself can lose its owner.
LEMMA HandsOwn ==
    ASSUME NEW p \in Procs, Calm, UNCHANGED queue,
           \/ proc[p].run \notin Runs
           \/ runs'[proc[p].run].status \notin Needy
           \/ ~Serves(runs, proc[p], proc[p].run)
           \/ Serves(runs', proc'[p], proc[p].run)
    PROVE  Hands(p)
  <1>1. SUFFICES ASSUME NEW r \in Runs, runs'[r].status \in Needy,
                        ~Waits(runs', queue', r), ~Serves(runs', proc'[p], r)
                 PROVE  /\ runs'[r].status = runs[r].status
                        /\ ~Serves(runs, proc[p], r) /\ ~Waits(runs, queue, r)
    BY DEF Hands
  <1>2. runs'[r].status = runs[r].status
    BY <1>1 DEF Calm
  <1>3. ~Waits(runs, queue, r)
    BY <1>1, <1>2 DEF Waits
  <1>4. proc[p].run # r => ~Serves(runs, proc[p], r)
    BY DEF Serves
  <1>5. proc[p].run = r => ~Serves(runs, proc[p], r)
    BY <1>1
  <1> QED
    BY <1>2, <1>3, <1>4, <1>5

\* The handler stays with its run, or is done.
StaysWithRun(p) ==
    /\ proc'[p].pc = "idle" \/ (proc'[p].run = proc[p].run /\ proc'[p].pc # "enqueue")
    /\ p \in Workers \/ (proc'[p].pc # "return" /\ proc'[p].back # "return")

\* Where p may be sent on: no handler back to an enqueue, only a delivery to the queue.
Onward(p, pc) == pc # "enqueue" /\ (p \in Workers \/ pc # "return")

\* The places that neither execute a turn nor wait for one nor end a stop.
AsidePcs == Pcs \ (ExecPcs \cup {"idle", "enqueue", "job", "claim", "force_cancel", "effects"})

LEMMA AsideKeeps ==
    ASSUME NEW p \in Procs, Ready(p), proc[p].pc \in AsidePcs, Calm, UNCHANGED queue,
           proc[p].run \in Runs \/ p \notin Workers,
           StaysWithRun(p)
    PROVE  Keeps(p)
  <1>1. ~Turning(proc[p]) /\ \A r \in Runs : ~Serves(runs, proc[p], r)
    BY DEF AsidePcs, Turning, Serves
  <1>2. p \in Workers => proc[p].run \in Runs /\ Begun(runs, proc[p].run)
    BY ReadyFacts DEF SettledFor, AsidePcs
  <1>3. p \in Workers => Begun(runs', proc[p].run)
    BY <1>2, ReadyFacts, BegunStays
  <1>4. proc'[p].pc \in {"enqueue", "job", "claim"} => runs'[proc'[p].run].status # "absent"
    BY <1>3, ReadyFacts DEF StaysWithRun, LocalSound, Begun
  <1>5. SettledFor(runs', p, proc'[p])
    BY <1>1, <1>2, <1>4, SettledOutside DEF StaysWithRun
  <1> QED
    BY <1>1, <1>5, NothingToHand DEF Keeps

\* A turn stays with its run, or leaves it where it needs no turn.
LEMMA TurnKeeps ==
    ASSUME NEW p \in Procs, Ready(p), proc[p].pc \in ExecPcs, Calm, UNCHANGED queue,
           StaysWithRun(p),
           \/ proc'[p].pc \in ExecPcs \ {"lost"}
           \/ runs'[proc[p].run].status # "running"
    PROVE  Keeps(p)
  <1>1. proc[p].run \in Runs /\ Begun(runs', proc[p].run)
    BY ReadyFacts, TurnFacts DEF Turning
  <1>2. SettledFor(runs', p, proc'[p])
    BY <1>1, ReadyFacts DEF SettledFor, StaysWithRun, ExecPcs, TurnPcs, Begun, LocalSound,
       Turning
  <1>3. CASE runs'[proc[p].run].status # "running"
    <2>1. runs'[proc[p].run].status # "queued"
      BY <1>1 DEF Begun
    <2>2. CASE runs'[proc[p].run].status \notin Needy
      BY <1>2, <2>2, HandsOwn DEF Keeps
    <2>3. CASE runs'[proc[p].run].status = "cancel_requested"
      <3>1. runs[proc[p].run].status = "cancel_requested"
        BY <1>1, <2>3 DEF Calm, Needy
      <3>2. ~Serves(runs, proc[p], proc[p].run)
        BY <3>1 DEF Serves, ExecPcs, TurnPcs
      <3> QED
        BY <1>2, <3>2, HandsOwn DEF Keeps
    <2> QED
      BY <1>3, <2>1, <2>2, <2>3 DEF Needy
  <1>4. CASE runs'[proc[p].run].status = "running" /\ proc'[p].pc \in ExecPcs \ {"lost"}
    <2>1. Serves(runs', proc'[p], proc[p].run)
      BY <1>4 DEF Serves, StaysWithRun, ExecPcs, TurnPcs
    <2> QED
      BY <1>2, <2>1, HandsOwn DEF Keeps
  <1> QED
    BY <1>3, <1>4

LEMMA EndStays ==
    ASSUME LocalsSound, NEW p \in Procs, End(p)
    PROVE  StaysWithRun(p)
  <1>1. proc'[p] = Resume(proc[p], Home(p))
    BY DEF End, LocalsSound
  <1>2. CASE Home(p) = "idle"
    BY <1>1, <1>2, IdleFields DEF Resume, StaysWithRun, Idle
  <1>3. CASE Home(p) # "idle"
    BY <1>1, <1>3, ResumeFields DEF StaysWithRun, Home
  <1> QED
    BY <1>2, <1>3

LEMMA GoStays ==
    ASSUME LocalsSound, NEW p \in Procs, NEW pc \in Pcs, GoTo(p, pc),
           Onward(p, pc), Onward(p, proc[p].back)
    PROVE  StaysWithRun(p) /\ proc'[p].pc = pc
  <1>1. PICK new \in Local :
           /\ proc' = [proc EXCEPT ![p] = new]
           /\ new.pc = pc /\ new.run = proc[p].run /\ new.back = proc[p].back
    BY Goes
  <1> QED
    BY <1>1 DEF LocalsSound, StaysWithRun, Onward

LEMMA ThrowStays ==
    ASSUME LocalsSound, NEW p \in Workers, NEW code, Throw(p, code)
    PROVE  StaysWithRun(p) /\ proc'[p].pc = "catch"
  BY DEF Throw, LocalsSound, Local, StaysWithRun, Procs

\* Wherever a handler resumes, it is with its run, or done.
LEMMA ResumeStays ==
    ASSUME LocalsSound, NEW p \in Procs, NEW pc, Onward(p, pc),
           proc'[p] = Resume(proc[p], pc)
    PROVE  StaysWithRun(p)
  <1>1. CASE pc = "idle"
    BY <1>1, IdleFields DEF Resume, StaysWithRun, Idle
  <1>2. CASE pc # "idle"
    BY <1>2, ResumeFields DEF StaysWithRun, Onward
  <1> QED
    BY <1>1, <1>2

\* What Do leaves: effects with the run and its way back, or nothing.
LEMMA DoStays ==
    ASSUME LocalsSound, NEW p \in Procs, NEW todo, NEW code, NEW back,
           Onward(p, back), Do(p, todo, code, back)
    PROVE  /\ StaysWithRun(p)
           /\ todo # <<>> => /\ proc'[p].pc = "effects" /\ proc'[p].run = proc[p].run
                             /\ proc'[p].back = back /\ proc'[p].out = "open"
  <1>1. CASE todo = <<>>
    <2>1. proc'[p] = Resume(proc[p], back)
      BY <1>1 DEF Do, LocalsSound
    <2> QED
      BY <1>1, <2>1, ResumeStays
  <1>2. CASE todo # <<>>
    <2>1. PICK start : /\ start = Resume(proc[p], "effects")
                       /\ start = [pc |-> "effects", run |-> proc[p].run,
                                   want |-> proc[p].want, out |-> "open",
                                   why |-> "none", code |-> "none", todo |-> <<>>,
                                   back |-> "idle"]
      BY ResumeFields
    <2>2. proc'[p] = [start EXCEPT !.todo = todo, !.code = code, !.back = back]
      BY <1>2, <2>1 DEF Do, LocalsSound
    <2>3. /\ proc'[p].pc = "effects" /\ proc'[p].run = proc[p].run
          /\ proc'[p].back = back /\ proc'[p].out = "open"
      BY <2>1, <2>2
    <2> QED
      BY <2>3 DEF StaysWithRun, Onward
  <1> QED
    BY <1>1, <1>2

\* A recovery is of the run it was started on, for the handler that started it.
LEMMA RecoveryStays ==
    ASSUME NEW p \in Procs, NEW r, NEW local \in Local, Onward(p, local.back),
           NEW new, new = failRunIfStale(local, r)
    PROVE  /\ new.pc = "idle" \/ (new.run = r /\ new.pc # "enqueue")
           /\ p \in Workers \/ (new.pc # "return" /\ new.back # "return")
  <1>1. CASE recoveryOf(runs[r]) = "none"
    <2>1. PICK known : known = [local EXCEPT !.run = r]
      OBVIOUS
    <2>2. known.run = r /\ known.back = local.back /\ new = AfterRecovery(known, runs[r])
      BY <1>1, <2>1 DEF failRunIfStale, Local
    <2>3. new = Idle \/ new = Resume(known, known.back)
      BY <2>2 DEF AfterRecovery
    <2>4. CASE new = Idle \/ known.back = "idle"
      BY <2>2, <2>3, <2>4, IdleFields DEF Resume, Idle
    <2>5. CASE new = Resume(known, known.back) /\ known.back # "idle"
      BY <2>2, <2>5, ResumeFields DEF Onward
    <2> QED
      BY <2>3, <2>4, <2>5
  <1>2. CASE recoveryOf(runs[r]) # "none"
    <2>1. PICK pc, out, code : /\ pc = recoveryOf(runs[r])
                               /\ out = snapshotVerdict(runs[r])
                               /\ code = recoveryCode(runs[r])
      OBVIOUS
    <2>2. new = [local EXCEPT !.pc = pc, !.run = r, !.out = out, !.code = code]
      BY <1>2, <2>1 DEF failRunIfStale
    <2>3. new.run = r /\ new.pc = pc /\ new.back = local.back
      BY <2>2 DEF Local
    <2>4. pc \notin {"enqueue", "return"}
      BY <2>1 DEF recoveryOf
    <2> QED
      BY <2>3, <2>4 DEF Onward
  <1> QED
    BY <1>1, <1>2

LEMMA RecoveredStays ==
    ASSUME LocalsSound, NEW p \in Procs, Onward(p, proc[p].back), Recovered(p)
    PROVE  StaysWithRun(p)
  <1>1. proc'[p] = AfterRecovery(proc[p], runs[proc[p].run])
    BY DEF Recovered, LocalsSound
  <1>2. CASE proc'[p] = Idle
    BY <1>2, IdleFields DEF StaysWithRun, Idle
  <1>3. CASE proc'[p] = Resume(proc[p], proc[p].back)
    BY <1>3, ResumeStays
  <1> QED
    BY <1>1, <1>2, <1>3 DEF AfterRecovery

-----------------------------------------------------------------------------
\* The handlers

\* The way back of a handler outside the turn.
LEMMA BackOnward ==
    ASSUME NEW p \in Procs, Ready(p), proc[p].pc \notin ExecPcs \cup {"boundary"}
    PROVE  Onward(p, proc[p].back)
  BY ReadyFacts DEF SettledFor, LocalSound, Backs, Onward

\* A recovery ends its run, or leaves it to its owner.
LEMMA RecoveryKeeps ==
    ASSUME NEW p \in Procs, Ready(p), RecoveryStep(p)
    PROVE  Keeps(p)
  <1>0. /\ TypeOK /\ LocalsSound /\ proc[p] \in Local /\ LocalSound(p, proc[p])
        /\ proc[p].pc \in RecoveryPcs
    BY ReadyFacts DEF RecoveryStep, expireApprovalWaitingRun,
       completeApprovalRunIfNoPendingConfirmations, finishRunIfSnapshotIsTerminal,
       recoverIfStillStale, failStaleActiveRun, At, RecoveryPcs
  <1>1. proc[p].pc \in AsidePcs /\ proc[p].run \in Runs
    BY <1>0 DEF AsidePcs, RecoveryPcs, ExecPcs, TurnPcs, Pcs, LocalSound
  <1>a. Onward(p, proc[p].back)
    BY <1>0, BackOnward DEF RecoveryPcs, ExecPcs, TurnPcs
  <1>2. UNCHANGED queue
    BY DEF RecoveryStep, expireApprovalWaitingRun,
       completeApprovalRunIfNoPendingConfirmations, finishRunIfSnapshotIsTerminal,
       recoverIfStillStale, failStaleActiveRun, NoEffect
  <1>3. SUFFICES Calm /\ StaysWithRun(p)
    BY <1>1, <1>2, AsideKeeps
  <1>4. {"cancelled", "completed", "failed"} \subseteq TerminalStatuses
    BY DEF TerminalStatuses
  <1>5. CASE expireApprovalWaitingRun(p)
    <2>1. CASE /\ finishChatThreadRun(proc[p].run, "cancelled", proc[p].code, FALSE)
               /\ Do(p, <<"error", "finish", "release">>, proc[p].code, proc[p].back)
      BY <1>0, <1>1, <1>4, <2>1, CalmFinish, <1>a, DoStays
    <2>2. CASE ReadOnly /\ Recovered(p)
      BY <1>0, <1>1, <2>2, CalmSteps, <1>a, RecoveredStays
    <2> QED
      BY <1>5, <2>1, <2>2 DEF expireApprovalWaitingRun, Run
  <1>6. CASE completeApprovalRunIfNoPendingConfirmations(p)
    <2>1. CASE /\ finishChatThreadRun(proc[p].run, "completed", "none", FALSE)
               /\ Do(p, <<>>, "none", proc[p].back)
      BY <1>0, <1>1, <1>4, <2>1, CalmFinish, <1>a, DoStays
    <2>2. CASE ReadOnly /\ proc' = [proc EXCEPT ![p] = failRunIfStale(@, @.run)]
      <3>1. proc'[p] = failRunIfStale(proc[p], proc[p].run)
        BY <1>0, <2>2 DEF LocalsSound
      <3>2. StaysWithRun(p)
        BY <1>0, <1>1, <3>1, <1>a, RecoveryStays DEF StaysWithRun
      <3> QED
        BY <1>0, <1>1, <2>2, <3>2, CalmSteps
    <2> QED
      BY <1>6, <2>1, <2>2 DEF completeApprovalRunIfNoPendingConfirmations, Run
  <1>7. CASE finishRunIfSnapshotIsTerminal(p)
    <2>1. proc[p].out \in TerminalStatuses
      BY <1>0, <1>7 DEF finishRunIfSnapshotIsTerminal, At, LocalSound, Ending
    <2>2. CASE /\ finishChatThreadRun(proc[p].run, proc[p].out, proc[p].code, FALSE)
               /\ Do(p, ReleaseIf(proc[p].out # "completed"), proc[p].code, proc[p].back)
      BY <1>0, <1>1, <2>1, <2>2, CalmFinish, <1>a, DoStays
    <2>3. CASE ReadOnly /\ GoTo(p, "recover_stale")
      <3>1. "recover_stale" \in Pcs
        BY Places DEF RecoveryPcs
      <3> QED
        BY <1>0, <1>1, <2>3, <3>1, <1>a, CalmSteps, GoStays DEF Onward
    <2> QED
      BY <1>7, <2>2, <2>3 DEF finishRunIfSnapshotIsTerminal, Run
  <1>8. CASE recoverIfStillStale(p)
    <2>1. ReadOnly
      BY <1>8 DEF recoverIfStillStale
    <2>2. CASE isStaleActiveRun(runs[proc[p].run])
      <3>1. PICK code : code = staleCode(runs[proc[p].run])
        OBVIOUS
      <3>2. proc' = [proc EXCEPT ![p] = [proc[p] EXCEPT !.pc = "fail_stale", !.code = code]]
        BY <1>8, <2>2, <3>1 DEF recoverIfStillStale, Run
      <3>3. /\ proc'[p].run = proc[p].run /\ proc'[p].pc = "fail_stale"
            /\ proc'[p].back = proc[p].back
        BY <1>0, <3>2 DEF LocalsSound, Local
      <3> QED
        BY <1>0, <1>1, <2>1, <3>3, <1>a, CalmSteps DEF StaysWithRun, Onward
    <2>3. CASE ~isStaleActiveRun(runs[proc[p].run])
      <3>1. Recovered(p)
        BY <1>8, <2>3 DEF recoverIfStillStale, Recovered, Run
      <3> QED
        BY <1>0, <1>1, <2>1, <3>1, CalmSteps, <1>a, RecoveredStays
    <2> QED
      BY <2>2, <2>3
  <1>9. CASE failStaleActiveRun(p)
    <2>1. CASE /\ finishChatThreadRun(proc[p].run, "failed", proc[p].code, TRUE)
               /\ Do(p, <<"error", "finish", "release">>, proc[p].code, proc[p].back)
      BY <1>0, <1>1, <1>4, <2>1, CalmFinish, <1>a, DoStays
    <2>2. CASE ReadOnly /\ Recovered(p)
      BY <1>0, <1>1, <2>2, CalmSteps, <1>a, RecoveredStays
    <2> QED
      BY <1>9, <2>1, <2>2 DEF failStaleActiveRun, Run
  <1> QED
    BY <1>5, <1>6, <1>7, <1>8, <1>9 DEF RecoveryStep

\* Only an inserted run is to be enqueued, only a delivery is to return.
LEMMA StartsElsewhere ==
    ASSUME LocalsSound, NEW p \in Procs, NEW r \in Runs,
           \/ getOrCreateRun(p, r) \/ stopRun(p, r)
           \/ validateConfirmationResponse(p, r) \/ readRun(p, r) \/ sweep(p, r)
    PROVE  /\ proc'[p].pc # "enqueue"
           /\ p \in Workers \/ (proc'[p].pc # "return" /\ proc'[p].back # "return")
  <1>0. PICK idle \in Local : /\ idle = Idle /\ idle.pc = "idle" /\ idle.back = "idle"
    BY IdleFields DEF Idle
  <1>1. CASE getOrCreateRun(p, r)
    <2>1. PICK request : request = [idle EXCEPT !.pc = "recheck", !.want = r,
                                                !.back = "recheck"]
      OBVIOUS
    <2>2. "recheck" \in Pcs
      BY Places
    <2>3. request \in Local /\ request.pc = "recheck" /\ request.back = "recheck"
      BY <1>0, <2>1, <2>2 DEF Local
    <2>4. PICK a : a = CHOOSE b \in ActiveOn(ThreadOf[r]) : TRUE
      OBVIOUS
    <2>5. proc'[p] \in {request, failRunIfStale(request, a)}
      BY <1>0, <1>1, <2>1, <2>4 DEF getOrCreateRun, LocalsSound
    <2> QED
      BY <2>3, <2>5, RecoveryStays DEF Onward
  <1>2. ASSUME NEW pc \in {"request_cancel", "record"},
               proc'[p] = [Idle EXCEPT !.pc = pc, !.run = r]
        PROVE  proc'[p].pc = pc /\ proc'[p].back = "idle"
    BY <1>0, <1>2 DEF Local
  <1>3. CASE stopRun(p, r)
    BY <1>2, <1>3 DEF stopRun, LocalsSound
  <1>4. CASE validateConfirmationResponse(p, r)
    <2>1. CASE isApprovalWaitingRunExpired(runs[r])
      <3>1. proc'[p] = [idle EXCEPT !.pc = "expire", !.run = r,
                                    !.code = "TOOL_APPROVAL_EXPIRED"]
        BY <1>0, <1>4, <2>1 DEF validateConfirmationResponse, LocalsSound
      <3>2. proc'[p].pc = "expire" /\ proc'[p].back = "idle"
        BY <1>0, <3>1 DEF Local
      <3> QED
        BY <3>2
    <2>2. CASE ~isApprovalWaitingRunExpired(runs[r])
      BY <1>2, <1>4, <2>2 DEF validateConfirmationResponse, LocalsSound
    <2> QED
      BY <2>1, <2>2
  <1>5. CASE readRun(p, r) \/ sweep(p, r)
    <2>1. proc'[p] = failRunIfStale(idle, r)
      BY <1>0, <1>5 DEF readRun, sweep, LocalsSound
    <2> QED
      BY <1>0, <2>1, RecoveryStays DEF Onward
  <1> QED
    BY <1>1, <1>3, <1>4, <1>5

\* A handler that starts.
LEMMA BeginKeeps ==
    ASSUME NEW p \in Procs, Ready(p), Begin(p)
    PROVE  Keeps(p)
  <1>0. /\ TypeOK /\ LocalsSound /\ queue \in [Runs -> Nat] /\ ReadOnly
        /\ proc[p].pc = "idle"
    BY ReadyFacts DEF Begin, getOrCreateRun, stopRun, validateConfirmationResponse,
       readRun, sweep, Deliver, At
  <1>1. ~Turning(proc[p]) /\ \A r \in Runs : ~Serves(runs, proc[p], r)
    BY <1>0 DEF Serves, Turning, ExecPcs, TurnPcs
  <1>2. ASSUME NEW r \in Runs PROVE Calm /\ runs' = runs
    BY <1>0, CalmSteps DEF ReadOnly, tableVars
  <1>3. ASSUME NEW r \in Runs,
               \/ getOrCreateRun(p, r) \/ stopRun(p, r)
               \/ validateConfirmationResponse(p, r) \/ readRun(p, r) \/ sweep(p, r)
        PROVE  Keeps(p)
    <2>1. p \notin Workers /\ UNCHANGED queue
      BY <1>3, DurableRunAssumption DEF getOrCreateRun, stopRun,
         validateConfirmationResponse, readRun, sweep, NoEffect
    <2>2. proc'[p].pc \notin {"enqueue", "return"} /\ proc'[p].back # "return"
      BY <1>0, <1>3, <2>1, StartsElsewhere
    <2>3. proc'[p].pc \notin {"job", "claim"}
      BY <2>1, ReadyFacts DEF LocalSound
    <2> QED
      BY <1>1, <1>2, <2>1, <2>2, <2>3, SettledOutside, NothingToHand DEF Keeps
  <1>4. ASSUME NEW r \in Runs, Deliver(p, r)
        PROVE  Keeps(p)
    <2>1. proc'[p] = [Idle EXCEPT !.pc = "job", !.run = r]
      BY <1>0, <1>4 DEF Deliver, LocalsSound
    <2>2. PICK idle \in Local : idle = Idle
      BY IdleFields
    <2>3. proc'[p].pc = "job" /\ proc'[p].run = r
      BY <2>1, <2>2 DEF Local
    <2>4. SettledFor(runs', p, proc'[p])
      <3>1. runs'[r].status # "absent"
        BY <1>2, <1>4 DEF Deliver, Ready, AllSettled
      <3>2. p \in Workers
        BY <1>4 DEF Deliver
      <3> QED
        BY <1>1, <2>3, <3>1, <3>2, SettledOutside
    <2>5. \A s \in Runs \ {r} : queue'[s] = queue[s]
      BY <1>0, <1>4 DEF Deliver
    <2>6. SUFFICES ASSUME NEW s \in Runs, runs'[s].status \in Needy,
                          ~Waits(runs', queue', s), ~Serves(runs', proc'[p], s)
                   PROVE  ~Waits(runs, queue, s)
      BY <1>1, <1>2, <2>4 DEF Keeps, Hands
    <2>7. CASE s = r
      BY <1>2, <2>3, <2>6, <2>7 DEF Serves, Waits
    <2>8. CASE s # r
      BY <1>2, <2>5, <2>6, <2>8 DEF Waits
    <2> QED
      BY <2>7, <2>8
  <1> QED
    BY <1>3, <1>4 DEF Begin

\* A request that creates a run is its owner until the job is enqueued.
LEMMA CreateKeeps ==
    ASSUME NEW p \in Procs, Ready(p), CreateStep(p), ~enqueueFails(p)
    PROVE  Keeps(p)
  <1>0. /\ TypeOK /\ LocalsSound /\ proc[p] \in Local /\ LocalSound(p, proc[p])
        /\ queue \in [Runs -> Nat]
    BY ReadyFacts
  <1>1. {"insert", "mark_queued"} \subseteq Pcs
    BY Places
  <1>a. Onward(p, proc[p].back) /\ Onward(p, "insert") /\ Onward(p, "idle")
    BY BackOnward DEF CreateStep, recheckActiveRun, insertRun, enqueueThreadChatRunJob,
       failRunBeforeMessages, markQueued, At, ExecPcs, TurnPcs, Onward
  <1>2. CASE recheckActiveRun(p)
    <2>1. /\ ReadOnly /\ UNCHANGED queue /\ proc[p].pc \in AsidePcs /\ p \notin Workers
          /\ proc[p].want \in Runs
      BY <1>0, <1>2 DEF recheckActiveRun, NoEffect, At, LocalSound, AsidePcs, ExecPcs,
         TurnPcs, Local
    <2>2. StaysWithRun(p)
      BY <1>0, <1>1, <1>a, <1>2, EndStays, GoStays DEF recheckActiveRun
    <2> QED
      BY <1>0, <2>1, <2>2, CalmSteps, AsideKeeps
  <1>3. CASE insertRun(p)
    <2>1. /\ UNCHANGED queue /\ proc[p].pc \in AsidePcs /\ p \notin Workers
          /\ proc[p].want \in Runs
      BY <1>0, <1>3 DEF insertRun, NoEffect, At, LocalSound, AsidePcs, ExecPcs,
         TurnPcs, Local
    <2>2. CASE ReadOnly /\ End(p)
      BY <1>0, <2>1, <2>2, CalmSteps, EndStays, AsideKeeps
    <2>3. PICK r : r = proc[p].want
      OBVIOUS
    <2>4. CASE /\ createChatThreadRun(r, ThreadOf[r])
               /\ proc' = [proc EXCEPT ![p] = [Idle EXCEPT !.pc = "enqueue", !.run = r]]
      <3>1. proc'[p] = [Idle EXCEPT !.pc = "enqueue", !.run = r]
        BY <1>0, <2>4 DEF LocalsSound
      <3>2. PICK idle \in Local : idle = Idle
        BY IdleFields
      <3>3. proc'[p].pc = "enqueue" /\ proc'[p].run = r /\ proc'[p].back = "idle"
        BY <3>1, <3>2 DEF Local, Idle
      <3>4. ~Turning(proc[p]) /\ \A s \in Runs : ~Serves(runs, proc[p], s)
        BY <2>1 DEF AsidePcs, Turning, Serves
      <3>5. runs'[r].status = "queued" /\ \A s \in Runs \ {r} : runs'[s] = runs[s]
        BY <1>0, <2>1, <2>3, <2>4 DEF createChatThreadRun, TypeOK, Row
      <3>6. Serves(runs', proc'[p], r)
        BY <3>3, <3>5 DEF Serves
      <3>7. SettledFor(runs', p, proc'[p])
        BY <2>1, <3>3, <3>4, <3>5, SettledOutside
      <3>8. \A s \in Runs \ {r} : Waits(runs, queue, s) => Waits(runs', queue', s)
        BY <2>1, <3>5 DEF Waits
      <3>9. Hands(p)
        BY <3>4, <3>5, <3>6, <3>8 DEF Hands
      <3> QED
        BY <3>7, <3>9 DEF Keeps
    <2> QED
      BY <1>3, <2>2, <2>3, <2>4 DEF insertRun
  <1>4. CASE enqueueThreadChatRunJob(p)
    <2>1. proc[p].run \in Runs /\ proc[p].pc = "enqueue" /\ runs' = runs /\ ReadOnly
      BY <1>0, <1>4 DEF enqueueThreadChatRunJob, At, LocalSound, ReadOnly, tableVars
    <2>2. PICK new \in Local :
             /\ proc' = [proc EXCEPT ![p] = new] /\ new.pc = "mark_queued"
             /\ new.run = proc[p].run /\ new.back = proc[p].back
      BY <1>0, <1>1, <1>4, Goes DEF enqueueThreadChatRunJob
    <2>3. proc'[p] = new
      BY <1>0, <2>2 DEF LocalsSound
    <2>4. SettledFor(runs', p, proc'[p])
      BY <2>1, <2>2, <2>3, ReadyFacts DEF SettledFor
    <2>5. queue'[proc[p].run] > 0 /\ \A s \in Runs \ {proc[p].run} : queue'[s] = queue[s]
      BY <1>0, <1>4, <2>1, DurableRunAssumption DEF enqueueThreadChatRunJob, Run
    <2>6. SUFFICES ASSUME NEW s \in Runs, runs'[s].status \in Needy,
                          ~Waits(runs', queue', s), ~Serves(runs', proc'[p], s)
                   PROVE  ~Waits(runs, queue, s) /\ ~Serves(runs, proc[p], s)
      BY <2>1, <2>4 DEF Keeps, Hands
    <2>7. CASE s = proc[p].run
      <3>1. runs[s].status # "queued"
        BY <2>1, <2>5, <2>6, <2>7 DEF Waits
      <3> QED
        BY <2>1, <3>1 DEF Waits, Serves, ExecPcs, TurnPcs
    <2>8. CASE s # proc[p].run
      BY <2>1, <2>5, <2>6, <2>8 DEF Waits, Serves
    <2> QED
      BY <2>7, <2>8
  <1>5. CASE failRunBeforeMessages(p)
    <2>1. /\ UNCHANGED queue /\ proc[p].pc \in AsidePcs /\ proc[p].run \in Runs
          /\ "failed" \in TerminalStatuses
      BY <1>0, <1>5 DEF failRunBeforeMessages, NoEffect, At, LocalSound, AsidePcs, ExecPcs,
         TurnPcs, Local, TerminalStatuses
    <2>2. CASE /\ finishChatThreadRun(proc[p].run, "failed", "CHAT_RUN_START_FAILED", FALSE)
               /\ Do(p, <<"error", "finish", "release">>, "CHAT_RUN_START_FAILED", "idle")
      BY <1>0, <1>a, <2>1, <2>2, CalmFinish, DoStays, AsideKeeps
    <2>3. CASE ReadOnly /\ End(p)
      BY <1>0, <2>1, <2>3, CalmSteps, EndStays, AsideKeeps
    <2> QED
      BY <1>5, <2>2, <2>3 DEF failRunBeforeMessages, Run
  <1>6. CASE markQueued(p)
    <2>1. UNCHANGED queue /\ proc[p].pc \in AsidePcs /\ proc[p].run \in Runs
      BY <1>0, <1>6 DEF markQueued, NoEffect, At, LocalSound, AsidePcs, ExecPcs,
         TurnPcs, Local
    <2> QED
      BY <1>0, <1>6, <2>1, CalmSteps, EndStays, AsideKeeps DEF markQueued, Run
  <1> QED
    BY <1>2, <1>3, <1>4, <1>5, <1>6 DEF CreateStep

\* Whoever requests a cancellation owns the run until it is cancelled.
LEMMA StopKeeps ==
    ASSUME NEW p \in Procs, Ready(p), StopStep(p) \/ recordConfirmationResponse(p)
    PROVE  Keeps(p)
  <1>0. /\ TypeOK /\ LocalsSound /\ proc[p] \in Local /\ LocalSound(p, proc[p])
        /\ proc[p].pc \in {"request_cancel", "force_cancel", "record"}
        /\ UNCHANGED queue
    BY ReadyFacts DEF StopStep, requestCancel, forceCancelStoppedRun,
       recordConfirmationResponse, At, NoEffect
  <1>1. /\ proc[p].run \in Runs /\ ~Turning(proc[p])
        /\ proc[p].pc # "force_cancel" => proc[p].pc \in AsidePcs
    BY <1>0 DEF AsidePcs, Turning, ExecPcs, TurnPcs, Pcs, LocalSound
  <1>2. p \in Workers => Begun(runs, proc[p].run)
    BY <1>0, ReadyFacts DEF SettledFor
  <1>3. "force_cancel" \in Pcs
    BY Places DEF Backs
  <1>a. Onward(p, proc[p].back) /\ Onward(p, "force_cancel") /\ Onward(p, "idle")
    BY <1>0, BackOnward DEF ExecPcs, TurnPcs, Onward
  <1>4. CASE requestCancel(p)
    <2>1. CASE ReadOnly /\ (End(p) \/ GoTo(p, "force_cancel"))
      BY <1>0, <1>1, <1>3, <1>a, <1>4, <2>1, CalmSteps, EndStays, GoStays, AsideKeeps
         DEF requestCancel, At
    <2>2. CASE requestChatThreadRunCancel(proc[p].run)
      <3>1. CASE hasCommittedArtifactPublication(runs[proc[p].run])
        <4>1. runs'[proc[p].run].status = "completed"
          BY <1>0, <1>1, <2>2, <3>1 DEF requestChatThreadRunCancel, ended, TypeOK, Row
        <4>2. \A s \in Runs \ {proc[p].run} : runs'[s] = runs[s]
          BY <1>0, <1>1, <2>2, <3>1 DEF requestChatThreadRunCancel, TypeOK
        <4>3. "completed" \in RunStatuses \ Needy
          BY DEF RunStatuses, TerminalStatuses, Needy
        <4>4. Calm
          BY <4>1, <4>2, <4>3 DEF Calm
        <4>5. End(p)
          BY <1>4, <2>2, <3>1 DEF requestCancel, Run, CanRequestCancel,
             requestChatThreadRunCancel
        <4> QED
          BY <1>0, <1>1, <1>4, <4>4, <4>5, EndStays, AsideKeeps DEF requestCancel, At
      <3>2. CASE ~hasCommittedArtifactPublication(runs[proc[p].run])
        <4>1. runs'[proc[p].run].status = "cancel_requested"
          BY <1>0, <1>1, <2>2, <3>2 DEF requestChatThreadRunCancel, TypeOK, Row
        <4>2. \A s \in Runs \ {proc[p].run} : runs'[s] = runs[s]
          BY <1>0, <1>1, <2>2, <3>2 DEF requestChatThreadRunCancel, TypeOK
        <4>3. Do(p, <<"stop">>, "none", "force_cancel")
          BY <1>4, <2>2, <3>2 DEF requestCancel, Run, CanRequestCancel,
             requestChatThreadRunCancel
        <4>4. /\ proc'[p].pc = "effects" /\ proc'[p].run = proc[p].run
              /\ proc'[p].back = "force_cancel"
          BY <1>0, <1>a, <4>3, DoStays
        <4>5. Serves(runs', proc'[p], proc[p].run)
          BY <4>1, <4>4 DEF Serves
        <4>6. SettledFor(runs', p, proc'[p])
          BY <1>1, <1>2, <4>4, SettledOutside
        <4>7. \A s \in Runs \ {proc[p].run} :
                 ~Serves(runs, proc[p], s) /\ (Waits(runs, queue, s) => Waits(runs', queue', s))
          BY <1>0, <4>2 DEF Serves, Waits
        <4>8. Hands(p)
          BY <4>2, <4>5, <4>7 DEF Hands
        <4> QED
          BY <4>6, <4>8 DEF Keeps
      <3> QED
        BY <3>1, <3>2
    <2> QED
      BY <1>4, <2>1, <2>2 DEF requestCancel, Run
  <1>5. CASE forceCancelStoppedRun(p)
    <2>1. Calm /\ StaysWithRun(p) /\ runs'[proc[p].run].status \notin Needy
          /\ proc'[p].pc \notin {"job", "claim"}
      <3>1. CASE /\ finishChatThreadRun(proc[p].run, "cancelled", "CLIENT_CANCELLED", FALSE)
                 /\ Do(p, <<"error", "finish", "release">>, "CLIENT_CANCELLED", "idle")
        <4>1. "cancelled" \in TerminalStatuses
          BY DEF TerminalStatuses
        <4>2. Calm /\ runs'[proc[p].run].status \notin Needy
          BY <1>0, <1>1, <3>1, <4>1, CalmFinish
        <4>3. StaysWithRun(p) /\ proc'[p].pc = "effects"
          BY <1>0, <1>a, <3>1, DoStays
        <4> QED
          BY <4>2, <4>3
      <3>2. CASE ~CanFinish(proc[p].run, "cancelled", FALSE) /\ ReadOnly /\ End(p)
        <4>1. runs'[proc[p].run].status \notin Needy
          BY <3>2 DEF CanFinish, allowedSourceStatuses, ACTIVE_RUN_STATUSES, Needy,
             ReadOnly, tableVars
        <4>2. proc'[p] = Resume(proc[p], Home(p)) /\ Home(p) \in {"idle", "return"}
          BY <1>0, <3>2 DEF End, LocalsSound, Home
        <4>3. proc'[p].pc \in {"idle", "return"}
          BY <4>2, ResumeFields, IdleFields DEF Resume
        <4> QED
          BY <1>0, <1>1, <3>2, <4>1, <4>3, CalmSteps, EndStays
      <3> QED
        BY <1>5, <3>1, <3>2 DEF forceCancelStoppedRun, Run
    <2>2. SettledFor(runs', p, proc'[p])
      BY <1>1, <1>2, <2>1, SettledOutside DEF StaysWithRun
    <2> QED
      BY <1>0, <2>1, <2>2, HandsOwn DEF Keeps
  <1>6. CASE recordConfirmationResponse(p)
    <2>1. Calm /\ End(p)
      BY <1>0, <1>1, <1>6, CalmSteps DEF recordConfirmationResponse, Run
    <2> QED
      BY <1>0, <1>1, <1>6, <2>1, EndStays, AsideKeeps DEF recordConfirmationResponse, At
  <1> QED
    BY <1>4, <1>5, <1>6 DEF StopStep

\* A delivery that claims the run becomes its executor.
LEMMA JobKeeps ==
    ASSUME NEW p \in Procs, Ready(p), JobStep(p)
    PROVE  Keeps(p)
  <1>0. /\ TypeOK /\ LocalsSound /\ proc[p] \in Local /\ LocalSound(p, proc[p])
        /\ proc[p].run \in Runs /\ ~Turning(proc[p]) /\ queue \in [Runs -> Nat]
        /\ proc[p].pc \in {"job", "claim", "cancel_before", "return"}
        /\ SettledFor(runs, p, proc[p])
    BY ReadyFacts DEF JobStep, processRunJob, claimRun, cancelRunBeforeMessages,
       JobReturns, At, LocalSound, Turning, ExecPcs, TurnPcs
  <1>1. {"claim", "cancel_before", "turn", "job", "return"} \subseteq Pcs
    BY Places DEF ExecPcs, TurnPcs, Backs
  <1>2. /\ proc[p].pc \in {"job", "claim"} => runs[proc[p].run].status # "absent"
        /\ p \in Workers
    BY <1>0 DEF SettledFor, LocalSound
  <1>a. \A pc \in {"claim", "cancel_before", "turn", "job", "return"} :
           Onward(p, pc) /\ Onward(p, proc[p].back)
    BY <1>0, <1>2, BackOnward DEF ExecPcs, TurnPcs, Onward
  <1>3. CASE processRunJob(p)
    <2>0. ReadOnly /\ UNCHANGED queue /\ proc[p].pc = "job" /\ Calm /\ runs' = runs
      BY <1>0, <1>3, CalmSteps DEF processRunJob, NoEffect, At, ReadOnly, tableVars
    <2>1. CASE runs[proc[p].run].status = "queued"
      <3>1. GoTo(p, "claim")
        BY <1>3, <2>1 DEF processRunJob, Run, GoTo
      <3>2. proc'[p].pc = "claim" /\ proc'[p].run = proc[p].run
        BY <1>0, <1>1, <3>1, <1>a, GoStays DEF StaysWithRun
      <3>3. SettledFor(runs', p, proc'[p]) /\ Serves(runs', proc'[p], proc[p].run)
        BY <1>2, <2>0, <2>1, <3>2 DEF SettledFor, Serves
      <3> QED
        BY <2>0, <3>3, HandsOwn DEF Keeps
    <2>2. CASE runs[proc[p].run].status # "queued"
      <3>1. Begun(runs, proc[p].run) /\ \A r \in Runs : ~Serves(runs, proc[p], r)
        BY <1>2, <2>0, <2>2 DEF Begun, Serves, ExecPcs, TurnPcs
      <3>2. StaysWithRun(p)
        <4>1. CASE runs[proc[p].run].status = "cancel_requested"
          <5>1. GoTo(p, "cancel_before")
            BY <1>3, <4>1 DEF processRunJob, Run, GoTo
          <5> QED
            BY <1>0, <1>1, <5>1, <1>a, GoStays
        <4>2. CASE /\ runs[proc[p].run].status = "running"
                   /\ isStaleActiveRun(runs[proc[p].run])
          <5>1. PICK old \in Local : old = proc[p]
            BY <1>0
          <5>2. PICK local : local = [old EXCEPT !.back = "return"]
            OBVIOUS
          <5>3. local \in Local /\ local.back = "return"
            BY <1>1, <5>2 DEF Local
          <5>4. proc'[p] = failRunIfStale(local, proc[p].run)
            BY <1>0, <1>3, <4>2, <5>1, <5>2 DEF processRunJob, Run, LocalsSound
          <5> QED
            BY <5>3, <5>4, <1>a, RecoveryStays DEF StaysWithRun
        <4>3. CASE /\ runs[proc[p].run].status # "cancel_requested"
                   /\ ~(runs[proc[p].run].status = "running"
                          /\ isStaleActiveRun(runs[proc[p].run]))
          <5>1. proc'[p] = Resume(proc[p], "return")
            BY <1>0, <1>3, <2>2, <4>3 DEF processRunJob, Run, LocalsSound
          <5> QED
            BY <1>0, <5>1, <1>a, ResumeStays
        <4> QED
          BY <4>1, <4>2, <4>3
      <3>3. SettledFor(runs', p, proc'[p])
        BY <1>0, <1>2, <2>0, <3>1, <3>2, SettledOutside DEF StaysWithRun
      <3> QED
        BY <2>0, <3>1, <3>3, NothingToHand DEF Keeps
    <2> QED
      BY <2>1, <2>2
  <1>4. CASE claimRun(p)
    <2>0. proc[p].pc = "claim" /\ UNCHANGED queue
      BY <1>4 DEF claimRun, At, NoEffect
    <2>1. CASE markChatThreadRunRunning(proc[p].run) /\ GoTo(p, "turn")
      <3>1. /\ runs'[proc[p].run].status = "running"
            /\ \A s \in Runs \ {proc[p].run} : runs'[s] = runs[s]
        BY <1>0, <2>1 DEF markChatThreadRunRunning, TypeOK, Row
      <3>2. proc'[p].pc = "turn" /\ proc'[p].run = proc[p].run
        BY <1>0, <1>1, <2>1, <1>a, GoStays DEF StaysWithRun
      <3>3. SettledFor(runs', p, proc'[p]) /\ Serves(runs', proc'[p], proc[p].run)
        BY <1>2, <3>1, <3>2 DEF SettledFor, Serves, Begun, ExecPcs, TurnPcs
      <3>4. \A s \in Runs \ {proc[p].run} :
               ~Serves(runs, proc[p], s) /\ (Waits(runs, queue, s) => Waits(runs', queue', s))
        BY <2>0, <3>1 DEF Serves, Waits
      <3>5. Hands(p)
        BY <3>1, <3>3, <3>4 DEF Hands
      <3> QED
        BY <3>3, <3>5 DEF Keeps
    <2>2. CASE ~CanStart(proc[p].run) /\ ReadOnly /\ GoTo(p, "job")
      <3>1. Calm /\ runs' = runs
        BY <1>0, <2>2, CalmSteps DEF ReadOnly, tableVars
      <3>2. \A r \in Runs : ~Serves(runs, proc[p], r)
        BY <2>0, <2>2 DEF Serves, CanStart, ExecPcs, TurnPcs
      <3>3. proc'[p].pc = "job" /\ proc'[p].run = proc[p].run
        BY <1>0, <1>1, <2>2, <1>a, GoStays DEF StaysWithRun
      <3>4. SettledFor(runs', p, proc'[p])
        BY <1>2, <2>0, <3>1, <3>3 DEF SettledFor
      <3> QED
        BY <2>0, <3>1, <3>2, <3>4, NothingToHand DEF Keeps
    <2> QED
      BY <1>4, <2>1, <2>2 DEF claimRun, Run
  <1>5. CASE cancelRunBeforeMessages(p)
    <2>1. proc[p].pc \in AsidePcs /\ UNCHANGED queue /\ "cancelled" \in TerminalStatuses
      BY <1>0, <1>1, <1>5 DEF cancelRunBeforeMessages, At, NoEffect, AsidePcs, ExecPcs,
         TurnPcs, TerminalStatuses
    <2>2. CASE /\ finishChatThreadRun(proc[p].run, "cancelled", "CLIENT_CANCELLED", FALSE)
               /\ Do(p, <<"error", "finish", "release">>, "CLIENT_CANCELLED", "return")
      BY <1>0, <2>1, <2>2, CalmFinish, <1>a, DoStays, AsideKeeps
    <2>3. CASE ReadOnly /\ End(p)
      BY <1>0, <2>1, <2>3, CalmSteps, EndStays, AsideKeeps
    <2> QED
      BY <1>5, <2>2, <2>3 DEF cancelRunBeforeMessages, Run
  <1>6. CASE JobReturns(p)
    <2>1. /\ ReadOnly /\ proc[p].pc = "return" /\ proc'[p].pc = "idle"
          /\ queue' = [queue EXCEPT ![proc[p].run] = 0]
      BY <1>0, <1>6, IdleFields DEF JobReturns, At, Run, LocalsSound
    <2>2. Calm /\ runs' = runs /\ \A r \in Runs : ~Serves(runs, proc[p], r)
      BY <1>0, <2>1, CalmSteps DEF ReadOnly, tableVars, Serves, ExecPcs, TurnPcs
    <2>3. SettledFor(runs', p, proc'[p])
      BY <1>2, <2>1 DEF SettledFor
    <2>5. runs[proc[p].run].status # "queued"
      BY <1>2, <2>1, ReadyFacts DEF SettledFor, Begun
    <2>6. \A s \in Runs : Waits(runs, queue, s) => Waits(runs', queue', s)
      BY <1>0, <2>1, <2>2, <2>5 DEF Waits
    <2> QED
      BY <2>2, <2>3, <2>6 DEF Keeps, Hands
  <1> QED
    BY <1>3, <1>4, <1>5, <1>6 DEF JobStep

-----------------------------------------------------------------------------
\* The turn

\* A turn's own transactions make no run needy.
LEMMA TurnCalm ==
    ASSUME NEW p \in Procs, Ready(p), proc[p].pc \in ExecPcs,
           ReadOnly \/ TurnTransaction(proc[p].run)
    PROVE  Calm
  <1>1. proc[p].run \in Runs /\ TypeOK
    BY ReadyFacts, TurnFacts DEF Turning
  <1> QED
    BY <1>1, CalmSteps

LEMMA TurnSetsKeeps ==
    ASSUME NEW p \in Procs, Ready(p), proc[p].pc \in ExecPcs, Calm, UNCHANGED queue,
           proc'[p].run = proc[p].run, proc'[p].pc \in ExecPcs \ {"lost"}
    PROVE  Keeps(p)
  <1>1. p \in Workers /\ proc'[p].pc # "enqueue"
    BY ReadyFacts DEF LocalSound, Turning, ExecPcs, TurnPcs
  <1> QED
    BY <1>1, TurnKeeps DEF StaysWithRun

LEMMA TurnGoesKeeps ==
    ASSUME NEW p \in Procs, Ready(p), proc[p].pc \in ExecPcs, Calm, UNCHANGED queue,
           NEW pc \in ExecPcs \ {"lost"}, GoTo(p, pc)
    PROVE  Keeps(p)
  <1>1. pc \in Pcs /\ LocalsSound
    BY Places, ReadyFacts
  <1>2. PICK new \in Local :
           proc' = [proc EXCEPT ![p] = new] /\ new.pc = pc /\ new.run = proc[p].run
    BY <1>1, Goes
  <1>3. proc'[p].pc = pc /\ proc'[p].run = proc[p].run
    BY <1>1, <1>2 DEF LocalsSound
  <1> QED
    BY <1>3, TurnSetsKeeps

LEMMA TurnThrowsKeeps ==
    ASSUME NEW p \in Procs, Ready(p), proc[p].pc \in ExecPcs, Calm, UNCHANGED queue,
           NEW code, Throw(p, code)
    PROVE  Keeps(p)
  <1>1. p \in Workers /\ LocalsSound
    BY ReadyFacts DEF LocalSound, Turning
  <1>2. StaysWithRun(p) /\ proc'[p].pc = "catch"
    BY <1>1, ThrowStays
  <1> QED
    BY <1>2, TurnKeeps DEF ExecPcs

LEMMA EventKeeps ==
    ASSUME NEW p \in Procs, Ready(p),
           heartbeat(p) \/ appendEvent(p) \/ appendRunEvent(p)
    PROVE  Keeps(p)
  <1>1. /\ proc[p].pc \in ExecPcs /\ UNCHANGED queue
        /\ proc[p] \in Local /\ LocalSound(p, proc[p]) /\ LocalsSound
    BY ReadyFacts DEF heartbeat, appendEvent, appendRunEvent, At, ExecPcs, TurnPcs, NoEffect
  <1>2. PICK snap : snap = IF proc[p].out = "paused" THEN "open" ELSE proc[p].out
    OBVIOUS
  <1>3. snap \in SnapshotOutcomes
    BY <1>1, <1>2, Places DEF Local
  <1>4. ReadOnly \/ TurnTransaction(proc[p].run)
    BY <1>2, <1>3 DEF heartbeat, appendEvent, appendRunEvent, Run, TurnTransaction
  <1>5. Calm
    BY <1>1, <1>4, TurnCalm
  <1>6. CASE heartbeat(p)
    <2>1. CASE proc' = [proc EXCEPT ![p].pc = "push", ![p].back = proc[p].pc]
      <3>1. proc'[p].pc = "push" /\ proc'[p].run = proc[p].run
        BY <1>1, <2>1 DEF LocalsSound, Local
      <3> QED
        BY <1>1, <1>5, <3>1, TurnSetsKeeps DEF ExecPcs, TurnPcs
    <2>2. CASE Throw(p, toRunStopError(runs[proc[p].run]))
      BY <1>1, <1>5, <2>2, TurnThrowsKeeps
    <2> QED
      BY <1>6, <2>1, <2>2 DEF heartbeat, Run
  <1>7. CASE appendEvent(p) \/ appendRunEvent(p)
    <2>1. PICK pc \in {"turn", "tail", "persist", "progress"} : GoTo(p, pc)
      BY <1>1, <1>7 DEF appendEvent, appendRunEvent, LocalSound, At
    <2>2. pc \in ExecPcs \ {"lost"}
      BY DEF ExecPcs, TurnPcs
    <2> QED
      BY <1>1, <1>5, <2>1, <2>2, TurnGoesKeeps
  <1> QED
    BY <1>6, <1>7

LEMMA StreamEndsKeeps ==
    ASSUME NEW p \in Procs, Ready(p),
           streamEnds(p) \/ turnThrows(p) \/ startTerminalCommit(p)
    PROVE  Keeps(p)
  <1>1. proc[p].pc \in ExecPcs /\ UNCHANGED queue /\ LocalsSound /\ proc[p] \in Local
        /\ ReadOnly
    BY ReadyFacts DEF streamEnds, turnThrows, startTerminalCommit, At, ExecPcs, TurnPcs,
       NoEffect
  <1>2. Calm
    BY <1>1, TurnCalm
  <1>3. CASE streamEnds(p)
    <2>1. PICK end \in {<<"completed", "none">>, <<"paused", "none">>,
                       <<"cancelled", "CLIENT_CANCELLED">>}
                       \cup ({"failed"} \X TurnErrors) :
             proc' = [proc EXCEPT ![p].pc = "tail", ![p].out = end[1],
                                  ![p].code = end[2]]
      BY <1>3 DEF streamEnds
    <2>2. proc'[p].pc = "tail" /\ proc'[p].run = proc[p].run
      BY <1>1, <2>1 DEF LocalsSound, Local
    <2> QED
      BY <1>1, <1>2, <2>2, TurnSetsKeeps DEF ExecPcs, TurnPcs
  <1>4. CASE turnThrows(p)
    BY <1>1, <1>2, <1>4, TurnThrowsKeeps DEF turnThrows
  <1>5. CASE startTerminalCommit(p)
    BY <1>1, <1>2, <1>5, TurnGoesKeeps DEF startTerminalCommit, ExecPcs, TurnPcs
  <1> QED
    BY <1>3, <1>4, <1>5

\* The commit settles the run, or somebody else has taken it out of running.
LEMMA CommitKeeps ==
    ASSUME NEW p \in Procs, Ready(p), commitTurn(p)
    PROVE  Keeps(p)
  <1>1. /\ proc[p].pc \in ExecPcs /\ proc[p].pc = "commit" /\ UNCHANGED queue /\ LocalsSound
        /\ proc[p] \in Local /\ LocalSound(p, proc[p]) /\ TypeOK
    BY ReadyFacts DEF commitTurn, At, ExecPcs, TurnPcs, NoEffect
  <1>2. /\ proc[p].run \in Runs /\ p \in Workers
        /\ proc[p].out = "paused" \/ proc[p].out \in TerminalStatuses
    BY <1>1 DEF LocalSound, Ending, Turning, ExecPcs, TurnPcs
  <1>3. ASSUME NEW todo, CommitEffects(p, todo)
        PROVE  StaysWithRun(p)
    <2>1. proc'[p].pc = "effects" /\ proc'[p].run = proc[p].run
      BY <1>1, <1>3 DEF CommitEffects, LocalsSound, Local
    <2> QED
      BY <1>2, <2>1 DEF StaysWithRun
  <1>4. CASE /\ proc[p].out = "paused"
             /\ \E ids \in SUBSET Confs, knowsCall \in BOOLEAN :
                   markChatThreadRunWaitingForApproval(proc[p].run, ids, knowsCall)
             /\ CommitEffects(p, <<"paused_finish">>)
    <2>1. TurnTransaction(proc[p].run)
      BY <1>4 DEF TurnTransaction
    <2>2. runs'[proc[p].run].status = "waiting_for_approval"
      BY <1>1, <1>2, <1>4 DEF markChatThreadRunWaitingForApproval, TypeOK, Row
    <2>3. Calm
      BY <1>1, <2>1, TurnCalm
    <2> QED
      BY <1>1, <1>3, <1>4, <2>2, <2>3, TurnKeeps
  <1>5. CASE /\ proc[p].out # "paused"
             /\ finishChatThreadRun(proc[p].run, proc[p].out, proc[p].code, FALSE)
             /\ CommitEffects(p,
                   ReleaseIf(shouldReleaseSandboxLeaseForFinishedRun(proc[p].out, proc[p].code))
                   \o TerminalEvents(proc[p].out))
    <2>1. Calm /\ runs'[proc[p].run].status # "running"
      BY <1>1, <1>2, <1>5, CalmFinish DEF Needy
    <2> QED
      BY <1>1, <1>3, <1>5, <2>1, TurnKeeps
  <1>6. CASE /\ IF proc[p].out = "paused" THEN ~CanPause(proc[p].run)
                                          ELSE ~CanFinish(proc[p].run, proc[p].out, FALSE)
             /\ ReadOnly /\ GoTo(p, "lost")
    <2>1. runs[proc[p].run].status # "running"
      BY <1>2, <1>6 DEF CanPause, CanFinish, allowedSourceStatuses, ACTIVE_RUN_STATUSES
    <2>2. Calm /\ runs' = runs
      BY <1>1, <1>6, TurnCalm DEF ReadOnly, tableVars
    <2>3. StaysWithRun(p)
      <3>1. "lost" \in Pcs
        BY Places DEF ExecPcs
      <3>2. PICK new \in Local :
               proc' = [proc EXCEPT ![p] = new] /\ new.pc = "lost" /\ new.run = proc[p].run
        BY <1>1, <1>6, <3>1, Goes
      <3> QED
        BY <1>1, <1>2, <3>2 DEF StaysWithRun, LocalsSound
    <2> QED
      BY <1>1, <2>1, <2>2, <2>3, TurnKeeps
  <1> QED
    BY <1>4, <1>5, <1>6 DEF commitTurn, Run

\* A turn that fails gives the run up only when it is no longer running.
LEMMA CatchKeeps ==
    ASSUME NEW p \in Procs, Ready(p),
           lostCommit(p) \/ catchTurnError(p) \/ flushPendingDelta(p)
    PROVE  Keeps(p)
  <1>1. /\ proc[p].pc \in {"lost", "catch", "flush"} /\ proc[p].pc \in ExecPcs
        /\ UNCHANGED queue /\ LocalsSound /\ proc[p] \in Local
    BY ReadyFacts DEF lostCommit, catchTurnError, flushPendingDelta, At, ExecPcs, NoEffect
  <1>2. Calm
    <2>1. ReadOnly \/ TurnTransaction(proc[p].run)
      BY DEF lostCommit, catchTurnError, flushPendingDelta, Run, TurnTransaction
    <2> QED
      BY <1>1, <2>1, TurnCalm
  <1>3. CASE ReadOnly /\ End(p) /\ runs[proc[p].run].status # "running"
    <2>1. runs'[proc[p].run].status # "running" /\ StaysWithRun(p)
      BY <1>1, <1>3, EndStays DEF ReadOnly, tableVars
    <2> QED
      BY <1>1, <1>2, <2>1, TurnKeeps
  <1>4. CASE lostCommit(p)
    <2>1. runs[proc[p].run].status # "running"
      BY <1>4, ReadyFacts DEF lostCommit, At, SettledFor
    <2>2. CASE proc' = [proc EXCEPT ![p].pc = "persist", ![p].back = "catch",
                                    ![p].code = "CLIENT_CANCELLED"]
      <3>1. proc'[p].pc = "persist" /\ proc'[p].run = proc[p].run
        BY <1>1, <2>2 DEF LocalsSound, Local
      <3> QED
        BY <1>1, <1>2, <3>1, TurnSetsKeeps DEF ExecPcs
    <2> QED
      BY <1>3, <1>4, <2>1, <2>2 DEF lostCommit
  <1>5. CASE catchTurnError(p)
    <2>1. CASE GoTo(p, "flush")
      BY <1>1, <1>2, <2>1, TurnGoesKeeps DEF ExecPcs
    <2>2. CASE ~GoTo(p, "flush")
      BY <1>3, <1>5, <2>2 DEF catchTurnError, Run
    <2> QED
      BY <2>1, <2>2
  <1>6. CASE flushPendingDelta(p)
    <2>1. PICK pc \in {"push", "persist"} :
             proc' = [proc EXCEPT ![p].pc = pc, ![p].back = "persist"]
      BY <1>6 DEF flushPendingDelta
    <2>2. proc'[p].pc = pc /\ proc'[p].run = proc[p].run
      BY <1>1, <2>1 DEF LocalsSound, Local
    <2> QED
      BY <1>1, <1>2, <2>2, TurnSetsKeeps DEF ExecPcs, TurnPcs
  <1> QED
    BY <1>4, <1>5, <1>6

\* A failure is committed on whatever active status it finds.
LEMMA PersistKeeps ==
    ASSUME NEW p \in Procs, Ready(p), persistTerminalFailure(p)
    PROVE  Keeps(p)
  <1>1. /\ proc[p].pc \in {"persist", "boundary"} /\ UNCHANGED queue /\ LocalsSound
        /\ TypeOK /\ LocalSound(p, proc[p])
    BY ReadyFacts DEF persistTerminalFailure, NoEffect
  <1>2. proc[p].run \in Runs /\ p \in Workers
    BY <1>1 DEF LocalSound, Turning, ExecPcs
  <1>3. PICK status, code : code = proc[p].code /\ status = terminalStatusOf(code)
    OBVIOUS
  <1>4. status \in TerminalStatuses /\ status # "completed"
    BY <1>3 DEF terminalStatusOf, TerminalStatuses
  <1>5. Calm /\ StaysWithRun(p) /\ runs'[proc[p].run].status \notin Needy
    <2>1. CASE /\ finishChatThreadRun(proc[p].run, status, code, FALSE)
               /\ Do(p, ReleaseIf(shouldReleaseSandboxLeaseForFinishedRun(status, code))
                        \o TerminalEvents(status), code, "return")
      <3>1. Onward(p, "return")
        BY <1>2 DEF Onward
      <3>2. StaysWithRun(p)
        BY <1>1, <2>1, <3>1, DoStays
      <3> QED
        BY <1>1, <1>2, <1>4, <2>1, <3>2, CalmFinish
    <2>2. CASE ~CanFinish(proc[p].run, status, FALSE) /\ ReadOnly /\ End(p)
      <3>1. runs'[proc[p].run].status \notin Needy
        BY <1>4, <2>2 DEF CanFinish, allowedSourceStatuses, ACTIVE_RUN_STATUSES, Needy,
           ReadOnly, tableVars
      <3> QED
        BY <1>1, <1>2, <2>2, <3>1, CalmSteps, EndStays
    <2> QED
      BY <1>3, <2>1, <2>2 DEF persistTerminalFailure, Run
  <1>6. CASE proc[p].pc = "persist"
    BY <1>1, <1>5, <1>6, TurnKeeps DEF ExecPcs, Needy
  <1>7. CASE proc[p].pc = "boundary"
    <2>1. proc[p].pc \in AsidePcs
      BY <1>7 DEF AsidePcs, Pcs, ExecPcs, TurnPcs
    <2> QED
      BY <1>1, <1>2, <1>5, <2>1, AsideKeeps
  <1> QED
    BY <1>1, <1>6, <1>7

\* Working off effects changes no row: whoever owes the end of a stop goes on to it.
LEMMA EffectKeeps ==
    ASSUME NEW p \in Procs, Ready(p), EffectStep(p)
    PROVE  Keeps(p)
  <1>1. /\ proc[p].pc = "effects" /\ ReadOnly /\ UNCHANGED queue /\ LocalsSound
        /\ SettledFor(runs, p, proc[p]) /\ proc[p] \in Local
        /\ proc[p].run \in Runs /\ proc'[p] = afterEffect(proc[p])
    BY ReadyFacts DEF EffectStep, At, LocalSound, LocalsSound
  <1>2. runs' = runs
    BY <1>1 DEF ReadOnly, tableVars
  <1>3. Calm
    BY <1>2 DEF Calm
  <1>4. p \in Workers => Begun(runs, proc[p].run)
    BY <1>1 DEF SettledFor
  <1>5. SettledFor(runs', p, proc'[p])
        /\ (Serves(runs, proc[p], proc[p].run) => Serves(runs', proc'[p], proc[p].run))
    <2>1. CASE Tail(proc[p].todo) = <<>>
      <3>1. PICK back : back = proc[p].back
        OBVIOUS
      <3>2. proc'[p] = Resume(proc[p], back)
        BY <1>1, <2>1, <3>1 DEF afterEffect
      <3>3. back \in Backs /\ (back = "return" => p \in Workers)
        BY <1>1, <3>1, ReadyFacts DEF LocalSound, ExecPcs, TurnPcs, SettledFor
      <3>4. CASE back = "idle"
        <4>1. proc'[p].pc = "idle" /\ proc'[p].back = "idle"
          BY <3>2, <3>4, IdleFields DEF Resume
        <4> QED
          BY <1>1, <3>1, <3>4, <4>1 DEF SettledFor, Serves, ExecPcs, TurnPcs
      <3>5. CASE back # "idle"
        <4>1. proc'[p].pc = back /\ proc'[p].back = "idle" /\ proc'[p].run = proc[p].run
          BY <3>2, <3>5, ResumeFields
        <4>2. SettledFor(runs', p, proc'[p])
          BY <1>2, <1>4, <3>3, <4>1 DEF SettledFor, Backs
        <4>3. Serves(runs, proc[p], proc[p].run) => Serves(runs', proc'[p], proc[p].run)
          BY <1>1, <1>2, <3>1, <4>1 DEF Serves, ExecPcs, TurnPcs
        <4> QED
          BY <4>2, <4>3
      <3> QED
        BY <3>4, <3>5
    <2>2. CASE Tail(proc[p].todo) # <<>>
      <3>1. PICK old \in Local : old = proc[p]
        BY <1>1
      <3>2. PICK rest : rest = Tail(old.todo)
        OBVIOUS
      <3>3. proc'[p] = [old EXCEPT !.todo = rest]
        BY <1>1, <2>2, <3>1, <3>2 DEF afterEffect
      <3>4. /\ proc'[p].pc = old.pc /\ proc'[p].run = old.run
            /\ proc'[p].back = old.back /\ proc'[p].out = old.out
        BY <3>1, <3>3 DEF Local
      <3> QED
        BY <1>1, <1>2, <3>1, <3>4 DEF SettledFor, Serves
    <2> QED
      BY <2>1, <2>2
  <1> QED
    BY <1>1, <1>3, <1>5, HandsOwn DEF Keeps

\* A turn that is told to stop still has to unwind.
LEMMA AbortKeeps ==
    ASSUME NEW p \in Procs, Ready(p), checkRunOwnership(p) \/ interruptActiveChatRuns(p)
    PROVE  Keeps(p)
  <1>1. /\ proc[p].pc \in TurnPcs /\ ReadOnly /\ UNCHANGED queue /\ LocalsSound
        /\ proc[p] \in Local
    BY ReadyFacts DEF checkRunOwnership, interruptActiveChatRuns, Abortable, NoEffect, TurnPcs
  <1>2. PICK why : proc' = [proc EXCEPT ![p].why = why]
    BY DEF checkRunOwnership, interruptActiveChatRuns
  <1>3. proc'[p].pc = proc[p].pc /\ proc'[p].run = proc[p].run
    BY <1>1, <1>2 DEF LocalsSound, Local
  <1>4. proc[p].pc \in ExecPcs \ {"lost"}
    BY <1>1 DEF ExecPcs, TurnPcs
  <1>5. Calm
    BY <1>1, <1>4, TurnCalm
  <1> QED
    BY <1>1, <1>3, <1>4, <1>5, TurnSetsKeeps

-----------------------------------------------------------------------------
\* The system

\* A run that exists stays, and one that has left its execution never returns to it.
LEMMA RowStays ==
    ASSUME IInv, [Next]_tableVars, NEW r \in Runs
    PROVE  /\ runs[r].status # "absent" => runs'[r].status # "absent"
           /\ Begun(runs, r) /\ runs[r].status # "running" => runs'[r].status # "running"
  <1>1. TypeOK /\ RowsSound /\ runs \in [Runs -> Row]
    BY DEF IInv, TypeOK
  <1>2. ASSUME NEW s \in Runs, NEW t \in Threads, createChatThreadRun(s, t)
        PROVE  runs[r].status # "absent" => runs'[r].status = runs[r].status
    BY <1>1, <1>2 DEF createChatThreadRun, CanCreate, Exists
  <1>3. CASE Still
    BY <1>3 DEF Still
  <1>4. ASSUME NEW s \in Runs, Moved(s)
        PROVE  \/ runs'[r].status = runs[r].status
               \/ <<runs[r].status, runs'[r].status>> \in Moves
    BY <1>4 DEF Moved
  <1>5. \A from, to : <<from, to>> \in Moves =>
           to # "absent" /\ (to = "running" => from = "queued")
    BY DEF Moves, ACTIVE_RUN_STATUSES
  <1> QED
    BY <1>1, <1>2, <1>3, <1>4, <1>5, NextMoves DEF Begun

\* What a handler knows of its run stays true, whoever moves the run.
LEMMA SettledStays ==
    ASSUME SystemBase, [Next]_tableVars, NEW p \in Procs, SettledFor(runs, p, proc[p])
    PROVE  SettledFor(runs', p, proc[p])
  <1>1. /\ IInv /\ LocalSound(p, proc[p]) /\ Covered(runs, proc[p])
    BY DEF SystemBase, LocalsSound, CommitSeen
  <1>2. p \in Workers /\ proc[p].pc \notin {"idle", "job", "claim"} => Begun(runs', proc[p].run)
    BY <1>1, BegunStays DEF LocalSound, SettledFor
  <1>3. proc[p].pc \in {"enqueue", "job", "claim", "lost", "effects"} => proc[p].run \in Runs
    BY <1>1 DEF LocalSound
  <1>4. proc[p].pc \in {"lost", "effects"} => Begun(runs, proc[p].run)
    BY <1>1 DEF Covered, ExecPcs
  <1> QED
    BY <1>1, <1>2, <1>3, <1>4, RowStays DEF SettledFor

LEMMA ExistsStays ==
    ASSUME SystemBase, [Next]_tableVars, NEW r \in Runs, runs[r].status # "absent"
    PROVE  runs'[r].status # "absent"
  BY RowStays DEF SystemBase

\* Only the request that creates a run enqueues it, without a fault, and a delivery
\* takes from the queue or empties it.
LEMMA JobsExist ==
    ASSUME SystemBase, AllSettled, [Next]_tableVars, NEW p \in Procs,
           queue \in [Runs -> Nat],
           \/ UNCHANGED queue
           \/ enqueueThreadChatRunJob(p)
           \/ \E r \in Runs : Deliver(p, r)
           \/ JobReturns(p)
    PROVE  \A r \in Runs : queue'[r] > 0 => runs'[r].status # "absent"
  <1>1. SUFFICES ASSUME NEW r \in Runs, queue'[r] > 0
                 PROVE  runs'[r].status # "absent"
    OBVIOUS
  <1>2. runs[r].status # "absent" => runs'[r].status # "absent"
    BY ExistsStays
  <1>3. queue[r] > 0 => runs[r].status # "absent"
    BY DEF AllSettled
  <1>4. /\ SettledFor(runs, p, proc[p]) /\ LocalSound(p, proc[p]) /\ queue[r] \in Nat
    BY DEF AllSettled, SystemBase, LocalsSound
  <1>5. CASE UNCHANGED queue
    BY <1>1, <1>2, <1>3, <1>5
  <1>6. CASE enqueueThreadChatRunJob(p)
    <2>1. proc[p].pc = "enqueue" /\ queue' = [queue EXCEPT ![proc[p].run] = MaxDeliveries]
      BY <1>6 DEF enqueueThreadChatRunJob, At, Run
    <2>2. r = proc[p].run \/ queue'[r] = queue[r]
      BY <2>1
    <2> QED
      BY <1>1, <1>2, <1>3, <1>4, <2>1, <2>2 DEF SettledFor
  <1>7. ASSUME NEW s \in Runs, Deliver(p, s)
        PROVE  queue[r] > 0
    BY <1>1, <1>4, <1>7 DEF Deliver
  <1>8. CASE JobReturns(p)
    <2>1. queue' = [queue EXCEPT ![proc[p].run] = 0]
      BY <1>8 DEF JobReturns, Run
    <2>2. queue'[r] = 0 \/ queue'[r] = queue[r]
      BY <2>1
    <2> QED
      BY <1>1, <1>2, <1>3, <2>2
  <1> QED
    BY <1>2, <1>3, <1>5, <1>6, <1>7, <1>8

\* A step of p that keeps its run keeps the system: what the others own they still own.
LEMMA OneKeeps ==
    ASSUME NEW p \in Procs, Ready(p), AllServed, Keeps(p),
           \A r \in Runs : queue'[r] > 0 => runs'[r].status # "absent"
    PROVE  AllSettled' /\ AllServed'
  <1>1. \A q \in Procs \ {p} : proc'[q] = proc[q]
    BY DEF Ready, ProcStep
  <1>2. ASSUME NEW q \in Procs PROVE SettledFor(runs', q, proc'[q])
    <2>1. CASE q = p
      BY <2>1 DEF Keeps
    <2>2. CASE q # p
      BY <1>1, <2>2, SettledStays DEF Ready, AllSettled
    <2> QED
      BY <2>1, <2>2
  <1>3. ASSUME NEW r \in Runs, runs'[r].status \in Needy
        PROVE  Waits(runs', queue', r) \/ \E q \in Procs : Serves(runs', proc'[q], r)
    <2>1. SUFFICES ASSUME /\ runs'[r].status = runs[r].status
                          /\ ~Serves(runs, proc[p], r)
                          /\ ~Waits(runs, queue, r)
                   PROVE  \E q \in Procs : Serves(runs', proc'[q], r)
      BY <1>3 DEF Keeps, Hands
    <2>2. PICK q \in Procs : Serves(runs, proc[q], r)
      BY <1>3, <2>1 DEF AllServed
    <2>3. proc'[q] = proc[q]
      BY <1>1, <2>1, <2>2
    <2>4. Serves(runs', proc'[q], r)
      BY <2>1, <2>2, <2>3 DEF Serves
    <2> QED
      BY <2>4
  <1> QED
    BY <1>2, <1>3 DEF AllSettled, AllServed

\* A step without a handler leaves every run with its owner.
LEMMA QuietKeeps ==
    ASSUME SystemBase, AllSettled, AllServed, Calm, [Next]_tableVars,
           UNCHANGED <<proc, queue>>
    PROVE  AllSettled' /\ AllServed'
  <1>1. ASSUME NEW q \in Procs PROVE SettledFor(runs', q, proc'[q])
    BY SettledStays DEF AllSettled
  <1>2. ASSUME NEW r \in Runs, queue'[r] > 0 PROVE runs'[r].status # "absent"
    BY <1>2, ExistsStays DEF AllSettled
  <1>3. ASSUME NEW r \in Runs, runs'[r].status \in Needy
        PROVE  Waits(runs', queue', r) \/ \E q \in Procs : Serves(runs', proc'[q], r)
    <2>1. runs'[r].status = runs[r].status
      BY <1>3 DEF Calm
    <2> QED
      BY <1>3, <2>1 DEF AllServed, Waits, Serves
  <1> QED
    BY <1>1, <1>2, <1>3 DEF AllSettled, AllServed

\* Without a fault every handler keeps its run.
LEMMA HandlersKeep ==
    ASSUME NEW p \in Procs, Ready(p), ~enqueueFails(p),
           \/ Begin(p) \/ HandlerStep(p)
           \/ checkRunOwnership(p) \/ interruptActiveChatRuns(p)
    PROVE  Keeps(p)
  <1>1. CASE Begin(p) \/ RecoveryStep(p) \/ CreateStep(p)
    BY <1>1, BeginKeeps, RecoveryKeeps, CreateKeeps
  <1>2. CASE StopStep(p) \/ recordConfirmationResponse(p) \/ JobStep(p)
    BY <1>2, StopKeeps, JobKeeps
  <1>3. CASE TurnStep(p)
    BY <1>3, EventKeeps, StreamEndsKeeps, CommitKeeps, CatchKeeps, PersistKeeps
       DEF TurnStep
  <1>4. CASE EffectStep(p) \/ checkRunOwnership(p) \/ interruptActiveChatRuns(p)
    BY <1>4, EffectKeeps, AbortKeeps
  <1> QED
    BY <1>1, <1>2, <1>3, <1>4 DEF HandlerStep

LEMMA QuietCalm ==
    ASSUME TypeOK, EnvironmentStep \/ (\E p \in Procs : useProtectedTool(p)), SystemBase
    PROVE  Calm
  <1>1. ASSUME NEW p \in Procs, useProtectedTool(p)
        PROVE  Calm
    <2>1. proc[p].pc \in ExecPcs /\ TurnTransaction(proc[p].run)
      BY <1>1 DEF useProtectedTool, ExecPcs, TurnPcs, TurnTransaction, Run
    <2>2. proc[p].run \in Runs
      BY <2>1, TurnFacts DEF Turning
    <2> QED
      BY <2>1, <2>2, CalmSteps
  <1>2. CASE Tick
    <2>1. CASE Runs = {}
      BY <2>1 DEF Calm
    <2> QED
      BY <1>2, <2>1, CalmSteps
  <1>3. ASSUME NEW r \in Runs, ApprovalDeadlinePasses(r) \/ publishArtifact(r)
        PROVE  Calm
    <2>1. ApprovalDeadlinePasses(r) \/ TurnTransaction(r)
      BY <1>3 DEF publishArtifact, TurnTransaction
    <2> QED
      BY <2>1, CalmSteps
  <1> QED
    BY <1>1, <1>2, <1>3 DEF EnvironmentStep

\* What a handler does to the queue, and to the count of faults.
LEMMA QueueMoves ==
    ASSUME NEW p \in Procs, ~enqueueFails(p),
           \/ Begin(p) \/ HandlerStep(p)
           \/ checkRunOwnership(p) \/ interruptActiveChatRuns(p)
    PROVE  /\ UNCHANGED faults
           /\ \/ UNCHANGED queue
              \/ enqueueThreadChatRunJob(p)
              \/ \E r \in Runs : Deliver(p, r)
              \/ JobReturns(p)
  <1>1. CASE Begin(p)
    BY <1>1 DEF Begin, getOrCreateRun, stopRun, validateConfirmationResponse, readRun,
       sweep, Deliver, NoEffect
  <1>2. CASE CreateStep(p)
    BY <1>2 DEF CreateStep, recheckActiveRun, insertRun, enqueueThreadChatRunJob,
       failRunBeforeMessages, markQueued, NoEffect
  <1>3. CASE JobStep(p)
    BY <1>3 DEF JobStep, processRunJob, claimRun, cancelRunBeforeMessages, JobReturns,
       NoEffect
  <1>4. CASE RecoveryStep(p) \/ StopStep(p) \/ recordConfirmationResponse(p)
    BY <1>4 DEF RecoveryStep, expireApprovalWaitingRun,
       completeApprovalRunIfNoPendingConfirmations, finishRunIfSnapshotIsTerminal,
       recoverIfStillStale, failStaleActiveRun, StopStep, requestCancel,
       forceCancelStoppedRun, recordConfirmationResponse, NoEffect
  <1>5. CASE TurnStep(p)
    BY <1>5 DEF TurnStep, heartbeat, appendEvent, appendRunEvent, streamEnds,
       turnThrows, startTerminalCommit, commitTurn, lostCommit, catchTurnError,
       flushPendingDelta, persistTerminalFailure, NoEffect
  <1>6. CASE EffectStep(p) \/ checkRunOwnership(p) \/ interruptActiveChatRuns(p)
    BY <1>6 DEF EffectStep, checkRunOwnership, interruptActiveChatRuns, NoEffect
  <1> QED
    BY <1>1, <1>2, <1>3, <1>4, <1>5, <1>6 DEF HandlerStep

\* What the invariant says of owners is what the property asks.
LEMMA OwningShows == SystemBase /\ Owning => ActiveRunHasOwner
  <1> SUFFICES ASSUME SystemBase, AllServed, NEW r \in Runs
               PROVE  CASE runs[r].status = "queued" ->
                             \/ queue[r] > 0
                             \/ \E p \in Procs :
                                   /\ Run(p) = r
                                   /\ proc[p].pc \in {"enqueue", "job", "claim"}
                        [] runs[r].status = "running" ->
                             \E p \in Workers : Run(p) = r /\ Executing(p)
                        [] runs[r].status = "cancel_requested" ->
                             \E p \in Procs :
                                /\ Run(p) = r
                                /\ proc[p].pc \in {"effects", "force_cancel"}
                        [] OTHER -> TRUE
    BY DEF Owning, ActiveRunHasOwner
  <1>1. CASE runs[r].status \notin Needy
    BY <1>1 DEF Needy
  <1>2. CASE runs[r].status \in Needy
    <2>1. Waits(runs, queue, r) \/ \E p \in Procs : Serves(runs, proc[p], r)
      BY <1>2 DEF AllServed
    <2>2. CASE Waits(runs, queue, r)
      BY <2>2 DEF Waits
    <2>3. ASSUME NEW p \in Procs, Serves(runs, proc[p], r)
          PROVE  /\ Run(p) = r
                 /\ \/ runs[r].status = "queued" /\ proc[p].pc \in {"enqueue", "job", "claim"}
                    \/ runs[r].status = "running" /\ p \in Workers /\ Executing(p)
                    \/ /\ runs[r].status = "cancel_requested"
                       /\ proc[p].pc \in {"effects", "force_cancel"}
      <3>1. proc[p].pc \in ExecPcs => p \in Workers /\ Executing(p)
        BY DEF SystemBase, LocalsSound, LocalSound, Turning, Executing, ExecPcs
      <3> QED
        BY <2>3, <3>1 DEF Serves, Run
    <2> QED
      BY <2>1, <2>2, <2>3
  <1> QED
    BY <1>1, <1>2

LEMMA OwningInit == SystemInit => Owning
  <1> SUFFICES ASSUME SystemInit PROVE AllSettled /\ AllServed
    BY DEF Owning
  <1>1. \A p \in Procs : proc[p] = Idle
    BY DEF SystemInit
  <1>2. \A r \in Runs : runs[r].status = "absent" /\ queue[r] = 0
    <2>1. PICK t \in Threads : \A r \in Runs : runs[r].status = "absent"
      BY DEF SystemInit, Init
    <2> QED
      BY <2>1 DEF SystemInit
  <1>3. \A p \in Procs : SettledFor(runs, p, proc[p])
    BY <1>1, IdleFields DEF SettledFor
  <1> QED
    BY <1>2, <1>3 DEF AllSettled, AllServed, Needy

LEMMA OwningStep ==
    ASSUME SystemBase, Counted, Owning, [SystemNext]_vars
    PROVE  Owning'
  <1>1. SUFFICES ASSUME faults' = 0 PROVE AllSettled' /\ AllServed'
    BY DEF Owning
  <1>2. /\ [Next]_tableVars /\ faults \in Nat /\ queue \in [Runs -> Nat] /\ TypeOK
    <2>1. MaxDeliveries \in Nat /\ MaxFaults \in Nat
      BY DurableRunAssumption
    <2> QED
      BY <2>1, SystemStep DEF Counted, SystemBase, IInv
  <1>3. \A p \in Procs : ~FaultStep(p) /\ ~enqueueFails(p)
    BY <1>1, <1>2 DEF FaultStep, EffectFails, DatabaseFails, Crash, enqueueFails
  <1>4. faults = 0
    <2>1. ASSUME NEW p \in Procs, MonitorStep(p) PROVE UNCHANGED faults
      BY <2>1 DEF MonitorStep, checkRunOwnership, interruptActiveChatRuns,
         useProtectedTool, NoEffect, systemVars
    <2>2. CASE EnvironmentStep \/ UNCHANGED vars
      BY <1>1, <2>2 DEF EnvironmentStep, publishArtifact, systemVars, vars
    <2> QED
      BY <1>1, <1>3, <2>1, <2>2, QueueMoves DEF SystemNext
  <1>5. AllSettled /\ AllServed
    BY <1>4 DEF Owning
  <1>6. CASE UNCHANGED vars
    <2>1. Calm /\ UNCHANGED <<proc, queue>>
      BY <1>6 DEF vars, Calm
    <2> QED
      BY <1>2, <1>5, <2>1, QuietKeeps
  <1>7. CASE EnvironmentStep \/ \E p \in Procs : useProtectedTool(p)
    <2>1. Calm
      BY <1>2, <1>7, QuietCalm
    <2>2. UNCHANGED <<proc, queue>>
      BY <1>7, QuietSteps DEF systemVars
    <2> QED
      BY <1>2, <1>5, <2>1, <2>2, QuietKeeps
  <1>8. ASSUME NEW p \in Procs,
               \/ Begin(p) \/ HandlerStep(p)
               \/ checkRunOwnership(p) \/ interruptActiveChatRuns(p)
        PROVE  AllSettled' /\ AllServed'
    <2>1. ProcStep(p)
      BY <1>8, RecoveryStepSound, CreateStepSound, StopStepSound, RecordSound,
         JobStepSound, TurnStepSound, EffectStepSound, BeginSound, AbortSound
         DEF HandlerStep
    <2>2. Ready(p)
      BY <1>2, <1>5, <2>1 DEF Ready
    <2>3. Keeps(p)
      BY <1>3, <1>8, <2>2, HandlersKeep
    <2>4. \/ UNCHANGED queue
          \/ enqueueThreadChatRunJob(p)
          \/ \E r \in Runs : Deliver(p, r)
          \/ JobReturns(p)
      BY <1>3, <1>8, QueueMoves
    <2>5. \A r \in Runs : queue'[r] > 0 => runs'[r].status # "absent"
      BY <1>2, <1>5, <2>4, JobsExist
    <2> QED
      BY <1>5, <2>2, <2>3, <2>5, OneKeeps
  <1> QED
    BY <1>3, <1>6, <1>7, <1>8 DEF SystemNext, MonitorStep

\* Until a first fault every queued, running or stopping run is somebody's: whoever
\* leaves a run has handed it on or leaves it in a status that needs nobody.
THEOREM OwnersHold == SystemSpec => []ActiveRunHasOwner
  <1>1. SystemSpec => []Counted
    <2>1. SystemInit => Counted
      BY DurableRunAssumption DEF SystemInit, Counted
    <2> QED
      BY <2>1, CountedStep, BaseHolds, PTL DEF SystemSpec
  <1>2. SystemSpec => []Owning
    BY <1>1, OwningInit, OwningStep, BaseHolds, PTL DEF SystemSpec
  <1>3. SystemBase /\ Owning => ActiveRunHasOwner
    BY OwningShows
  <1> QED
    BY <1>2, <1>3, BaseHolds, PTL
=============================================================================
