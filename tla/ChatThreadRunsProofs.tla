------------------------ MODULE ChatThreadRunsProofs ------------------------
(***************************************************************************)
(* Proofs about the run table, for any sets of runs, threads, tool         *)
(* confirmations and protected operations and any grace periods.           *)
(***************************************************************************)
EXTENDS ChatThreadRuns, TLAPS

-----------------------------------------------------------------------------
\* Type correctness

\* A terminal write turns a row into a row.
LEMMA EndedRow ==
    ASSUME NEW row \in Row, NEW status \in TerminalStatuses, NEW code \in ErrorCodes
    PROVE  ended(row, status, code) \in Row
  <1>1. fenceProtectedOperationsForTerminal(row.ops) \in [OpKeys -> OpStatuses]
    BY DEF fenceProtectedOperationsForTerminal, Row, OpStatuses
  <1>2. 0 \in 0 .. MaxSilence
    BY GraceAssumption DEF MaxSilence
  <1> QED
    BY <1>1, <1>2 DEF ended, Row, RunStatuses, TerminalStatuses, SnapshotOutcomes

\* The transactions of a turn keep the table well typed.
LEMMA TurnTransactionType ==
    ASSUME TypeOK, NEW r \in Runs, TurnTransaction(r)
    PROVE  TypeOK'
  <1> USE DEF TypeOK
  <1>0. runs[r] \in Row /\ 0 \in 0 .. MaxSilence
    BY GraceAssumption DEF MaxSilence
  <1>1. CASE touchChatThreadRunHeartbeat(r)
    BY <1>0, <1>1 DEF touchChatThreadRunHeartbeat, Row
  <1>2. ASSUME NEW snap \in SnapshotOutcomes, NEW knowsCall \in BOOLEAN,
               updateChatThreadRunProgress(r, snap, knowsCall)
        PROVE  TypeOK'
    <2>1. mergePublication(runs[r].publication, knowsCall) \in Publications
      BY <1>0 DEF mergePublication, Publications, Row
    <2> QED
      BY <1>0, <1>2, <2>1 DEF updateChatThreadRunProgress, Row
  <1>3. CASE appendArtifactOutputToChatRun(r)
    BY <1>0, <1>3 DEF appendArtifactOutputToChatRun, Row, Publications
  <1>4. ASSUME NEW ids \in SUBSET Confs, NEW knowsCall \in BOOLEAN,
               markChatThreadRunWaitingForApproval(r, ids, knowsCall)
        PROVE  TypeOK'
    <2>1. mergePublication(runs[r].publication, knowsCall) \in Publications
      BY <1>0 DEF mergePublication, Publications, Row
    <2> QED
      BY <1>0, <1>4, <2>1 DEF markChatThreadRunWaitingForApproval, Row, RunStatuses,
         ACTIVE_RUN_STATUSES, SnapshotOutcomes
  <1>5. ASSUME NEW keys \in SUBSET OpKeys, claimMany(r, keys)
        PROVE  TypeOK'
    <2>1. [k \in OpKeys |-> IF k \in keys /\ runs[r].ops[k] = "none"
                            THEN "in_progress" ELSE runs[r].ops[k]]
             \in [OpKeys -> OpStatuses]
      BY <1>0 DEF Row, OpStatuses
    <2> QED
      BY <1>0, <1>5, <2>1 DEF claimMany, Row
  <1>6. ASSUME NEW k \in OpKeys, NEW fits \in BOOLEAN, complete(r, k, fits)
        PROVE  TypeOK'
    BY <1>0, <1>6 DEF complete, Row, OpStatuses
  <1>7. ASSUME NEW k \in OpKeys, markUnknown(r, k)
        PROVE  TypeOK'
    BY <1>0, <1>7 DEF markUnknown, Row, OpStatuses
  <1> QED
    BY <1>1, <1>2, <1>3, <1>4, <1>5, <1>6, <1>7 DEF TurnTransaction

\* Every step keeps the table well typed.
LEMMA NextType == TypeOK /\ [Next]_tableVars => TypeOK'
  <1> SUFFICES ASSUME TypeOK, [Next]_tableVars PROVE TypeOK'
    OBVIOUS
  <1> USE DEF TypeOK
  <1>0. 0 \in 0 .. MaxSilence
    BY GraceAssumption DEF MaxSilence
  <1>1. ASSUME NEW r \in Runs, NEW t \in Threads, createChatThreadRun(r, t)
        PROVE  TypeOK'
    <2>1. runs[r] \in Row
      OBVIOUS
    <2> QED
      BY <1>0, <1>1, <2>1 DEF createChatThreadRun, Row, RunStatuses, ACTIVE_RUN_STATUSES
  <1>2. ASSUME NEW r \in Runs, markChatThreadRunQueued(r)
        PROVE  TypeOK'
    <2>1. runs[r] \in Row
      OBVIOUS
    <2> QED
      BY <1>0, <1>2, <2>1 DEF markChatThreadRunQueued, Row
  <1>3. ASSUME NEW r \in Runs, markChatThreadRunRunning(r)
        PROVE  TypeOK'
    <2>1. runs[r] \in Row
      OBVIOUS
    <2> QED
      BY <1>0, <1>3, <2>1 DEF markChatThreadRunRunning, Row, RunStatuses,
         ACTIVE_RUN_STATUSES
  <1>4. ASSUME NEW r \in Runs, TurnTransaction(r)
        PROVE  TypeOK'
    BY <1>4, TurnTransactionType
  <1>5. ASSUME NEW r \in Runs, requestChatThreadRunCancel(r)
        PROVE  TypeOK'
    <2>1. ended(runs[r], "completed", runs[r].errorCode) \in Row
      BY EndedRow DEF Row, TerminalStatuses
    <2> QED
      BY <1>5, <2>1 DEF requestChatThreadRunCancel, Row, RunStatuses, ACTIVE_RUN_STATUSES
  <1>6. ASSUME NEW r \in Runs, NEW c \in Confs,
               recordChatThreadRunConfirmationResponse(r, c)
        PROVE  TypeOK'
    <2>1. ended(runs[r], "completed", "none") \in Row
      BY EndedRow DEF ErrorCodes, TerminalStatuses
    <2> QED
      BY <1>6, <2>1 DEF recordChatThreadRunConfirmationResponse, Row
  <1>7. ASSUME NEW r \in Runs, NEW status \in TerminalStatuses,
               NEW ifStale \in BOOLEAN, NEW code \in FinishCodes(status),
               finishChatThreadRun(r, status, code, ifStale)
        PROVE  TypeOK'
    <2>1. ended(runs[r], status, code) \in Row
      BY EndedRow DEF FinishCodes, ErrorCodes
    <2> QED
      BY <1>7, <2>1 DEF finishChatThreadRun
  <1>8. ASSUME NEW r \in Runs, ApprovalDeadlinePasses(r)
        PROVE  TypeOK'
    BY <1>8 DEF ApprovalDeadlinePasses, Row
  <1>9. CASE Tick
    <2>1. ASSUME NEW r \in Runs, runs[r].silence < MaxSilence
          PROVE  [runs[r] EXCEPT !.silence = runs[r].silence + 1] \in Row
      <3>1. runs[r] \in Row
        OBVIOUS
      <3>2. runs[r].silence + 1 \in 0 .. MaxSilence
        BY <2>1, <3>1, GraceAssumption DEF Row, MaxSilence
      <3> QED
        BY <3>1, <3>2 DEF Row
    <2> QED
      BY <1>9, <2>1 DEF Tick
  <1>10. CASE UNCHANGED tableVars
    BY <1>10 DEF tableVars
  <1> QED
    BY <1>1, <1>2, <1>3, <1>4, <1>5, <1>6, <1>7, <1>8, <1>9, <1>10 DEF Next

\* The initial table is well typed.
LEMMA InitType == Init => TypeOK
  BY GraceAssumption DEF Init, TypeOK, Row, MaxSilence, ErrorCodes, SnapshotOutcomes,
     Publications, OpStatuses

\* The rows of the table always have the shape of the schema.
THEOREM TypeCorrect == Spec => []TypeOK
  BY InitType, NextType, PTL DEF Spec

-----------------------------------------------------------------------------
\* The inductive invariant

\* What every row keeps to itself, whatever the other rows do.
RowSound(row) ==
    /\ row.status \in TerminalStatuses => \A k \in OpKeys : row.ops[k] # "in_progress"
    /\ (row.errorCode # "none") <=> (row.status \in {"failed", "cancelled"})
    /\ row.status = "cancel_requested" => row.publication # "paired"
    /\ row.status \in {"absent", "queued"} =>
          /\ row.publication = "none"
          /\ row.pending = {}
          /\ \A k \in OpKeys : row.ops[k] = "none"

RowsSound == \A r \in Runs : RowSound(runs[r])

IInv == TypeOK /\ RowsSound /\ OneActiveRunPerThread /\ ReportedAtMostOnce

\* A terminal write of an allowed status and code leaves a sound row.
LEMMA EndedSound ==
    ASSUME NEW row \in Row, NEW status \in TerminalStatuses,
           NEW code \in FinishCodes(status)
    PROVE  RowSound(ended(row, status, code))
  <1> DEFINE ops == fenceProtectedOperationsForTerminal(row.ops)
             end == ended(row, status, code)
  <1>1. end.ops = ops /\ end.status = status /\ end.errorCode = code
    BY DEF ended, Row
  <1>2. \A k \in OpKeys : ops[k] # "in_progress"
    BY DEF fenceProtectedOperationsForTerminal
  <1>3. (code # "none") <=> (status \in {"failed", "cancelled"})
    BY DEF FinishCodes, TerminalStatuses
  <1>4. status \notin {"absent", "queued", "cancel_requested"}
    BY DEF TerminalStatuses
  <1> QED
    BY <1>1, <1>2, <1>3, <1>4 DEF RowSound

\* Only the row a transaction names can become unsound.
LEMMA OneRowStep ==
    ASSUME TypeOK, RowsSound, NEW r \in Runs, NEW row,
           runs' = [runs EXCEPT ![r] = row], RowSound(row)
    PROVE  RowsSound'
  BY DEF TypeOK, RowsSound

\* The transactions of a turn keep the rows sound.
LEMMA TurnTransactionSound ==
    ASSUME TypeOK, RowsSound, NEW r \in Runs, Claimed(r), TurnTransaction(r)
    PROVE  RowsSound'
  <1>0. runs[r] \in Row /\ RowSound(runs[r]) /\ runs[r].status \notin {"absent", "queued"}
    BY DEF TypeOK, RowsSound, Claimed, Exists
  <1> SUFFICES RowSound(runs'[r]) /\ \A s \in Runs \ {r} : runs'[s] = runs[s]
    BY DEF RowsSound
  <1>1. CASE touchChatThreadRunHeartbeat(r)
    BY <1>0, <1>1 DEF touchChatThreadRunHeartbeat, TypeOK, Row, RowSound
  <1>2. ASSUME NEW snap \in SnapshotOutcomes, NEW knowsCall \in BOOLEAN,
               updateChatThreadRunProgress(r, snap, knowsCall)
        PROVE  RowSound(runs'[r]) /\ \A s \in Runs \ {r} : runs'[s] = runs[s]
    BY <1>0, <1>2 DEF updateChatThreadRunProgress, CanProgress, RUNNER_PROGRESS_STATUSES,
       TypeOK, Row, RowSound, TerminalStatuses
  <1>3. CASE appendArtifactOutputToChatRun(r)
    BY <1>0, <1>3 DEF appendArtifactOutputToChatRun, TypeOK, Row, RowSound
  <1>4. ASSUME NEW ids \in SUBSET Confs, NEW knowsCall \in BOOLEAN,
               markChatThreadRunWaitingForApproval(r, ids, knowsCall)
        PROVE  RowSound(runs'[r]) /\ \A s \in Runs \ {r} : runs'[s] = runs[s]
    BY <1>0, <1>4 DEF markChatThreadRunWaitingForApproval, CanPause, TypeOK, Row,
       RowSound, TerminalStatuses
  <1>5. ASSUME NEW keys \in SUBSET OpKeys, claimMany(r, keys)
        PROVE  RowSound(runs'[r]) /\ \A s \in Runs \ {r} : runs'[s] = runs[s]
    BY <1>0, <1>5 DEF claimMany, CanUseProtectedState, TypeOK, Row, RowSound,
       TerminalStatuses
  <1>6. ASSUME NEW k \in OpKeys, NEW fits \in BOOLEAN, complete(r, k, fits)
        PROVE  RowSound(runs'[r]) /\ \A s \in Runs \ {r} : runs'[s] = runs[s]
    BY <1>0, <1>6 DEF complete, CanUseProtectedState, TypeOK, Row, RowSound,
       TerminalStatuses
  <1>7. ASSUME NEW k \in OpKeys, markUnknown(r, k)
        PROVE  RowSound(runs'[r]) /\ \A s \in Runs \ {r} : runs'[s] = runs[s]
    BY <1>0, <1>7 DEF markUnknown, CanUseProtectedState, TypeOK, Row, RowSound,
       TerminalStatuses
  <1> QED
    BY <1>1, <1>2, <1>3, <1>4, <1>5, <1>6, <1>7 DEF TurnTransaction

\* Every step keeps the rows sound.
LEMMA NextSound == TypeOK /\ RowsSound /\ [Next]_tableVars => RowsSound'
  <1> SUFFICES ASSUME TypeOK, RowsSound, [Next]_tableVars PROVE RowsSound'
    OBVIOUS
  <1>0. ASSUME NEW r \in Runs
        PROVE  runs[r] \in Row /\ RowSound(runs[r])
    BY DEF TypeOK, RowsSound
  <1>1. ASSUME NEW r \in Runs, NEW t \in Threads, createChatThreadRun(r, t)
        PROVE  RowsSound'
    <2>1. RowSound(runs'[r])
      BY <1>0, <1>1 DEF createChatThreadRun, CanCreate, Exists, TypeOK, Row, RowSound,
         TerminalStatuses
    <2> QED
      BY <1>1, <2>1 DEF createChatThreadRun, TypeOK, RowsSound
  <1>2. ASSUME NEW r \in Runs, markChatThreadRunQueued(r)
        PROVE  RowsSound'
    <2>1. RowSound(runs'[r])
      BY <1>0, <1>2 DEF markChatThreadRunQueued, TypeOK, Row, RowSound
    <2> QED
      BY <1>2, <2>1 DEF markChatThreadRunQueued, TypeOK, RowsSound
  <1>3. ASSUME NEW r \in Runs, markChatThreadRunRunning(r)
        PROVE  RowsSound'
    <2>1. RowSound(runs'[r])
      BY <1>0, <1>3 DEF markChatThreadRunRunning, CanStart, TypeOK, Row, RowSound,
         TerminalStatuses
    <2> QED
      BY <1>3, <2>1 DEF markChatThreadRunRunning, TypeOK, RowsSound
  <1>4. ASSUME NEW r \in Runs, Claimed(r), TurnTransaction(r)
        PROVE  RowsSound'
    BY <1>4, TurnTransactionSound
  <1>5. ASSUME NEW r \in Runs, requestChatThreadRunCancel(r)
        PROVE  RowsSound'
    <2>1. CASE hasCommittedArtifactPublication(runs[r])
      <3>1. runs[r].errorCode = "none"
        BY <1>0, <1>5 DEF requestChatThreadRunCancel, CanRequestCancel, RowSound
      <3>2. RowSound(ended(runs[r], "completed", runs[r].errorCode))
        BY <1>0, <3>1, EndedSound DEF FinishCodes, TerminalStatuses
      <3> QED
        BY <1>5, <2>1, <3>2, OneRowStep DEF requestChatThreadRunCancel
    <2>2. CASE ~hasCommittedArtifactPublication(runs[r])
      <3>1. RowSound(runs'[r])
        BY <1>0, <1>5, <2>2 DEF requestChatThreadRunCancel, CanRequestCancel,
           hasCommittedArtifactPublication, TypeOK, Row, RowSound, TerminalStatuses
      <3> QED
        BY <1>5, <2>2, <3>1 DEF requestChatThreadRunCancel, TypeOK, RowsSound
    <2> QED
      BY <2>1, <2>2
  <1>6. ASSUME NEW r \in Runs, NEW c \in Confs,
               recordChatThreadRunConfirmationResponse(r, c)
        PROVE  RowsSound'
    <2>1. CASE runs[r].pending = {c}
      <3> DEFINE end == ended(runs[r], "completed", "none")
      <3>1. RowSound(end) /\ end \in Row
        BY <1>0, EndedSound, EndedRow DEF FinishCodes, TerminalStatuses, ErrorCodes
      <3>2. RowSound([end EXCEPT !.pending = {}])
        <4> HIDE DEF end
        <4> QED
          BY <3>1 DEF RowSound, Row
      <3> QED
        BY <1>6, <2>1, <3>2, OneRowStep DEF recordChatThreadRunConfirmationResponse
    <2>2. CASE runs[r].pending # {c}
      <3>1. RowSound(runs'[r])
        BY <1>0, <1>6, <2>2 DEF recordChatThreadRunConfirmationResponse, CanRecord,
           TypeOK, Row, RowSound, TerminalStatuses
      <3> QED
        BY <1>6, <2>2, <3>1 DEF recordChatThreadRunConfirmationResponse, TypeOK,
           RowsSound
    <2> QED
      BY <2>1, <2>2
  <1>7. ASSUME NEW r \in Runs, NEW status \in TerminalStatuses,
               NEW ifStale \in BOOLEAN, NEW code \in FinishCodes(status),
               finishChatThreadRun(r, status, code, ifStale)
        PROVE  RowsSound'
    <2>1. RowSound(ended(runs[r], status, code))
      BY <1>0, EndedSound
    <2> QED
      BY <1>7, <2>1, OneRowStep DEF finishChatThreadRun
  <1>8. ASSUME NEW r \in Runs, ApprovalDeadlinePasses(r)
        PROVE  RowsSound'
    <2>1. RowSound(runs'[r])
      BY <1>0, <1>8 DEF ApprovalDeadlinePasses, TypeOK, Row, RowSound
    <2> QED
      BY <1>8, <2>1 DEF ApprovalDeadlinePasses, TypeOK, RowsSound
  <1>9. CASE Tick
    <2> SUFFICES ASSUME NEW r \in Runs PROVE RowSound(runs'[r])
      BY DEF RowsSound
    <2>1. RowSound([runs[r] EXCEPT !.silence = runs[r].silence + 1])
      BY <1>0 DEF Row, RowSound
    <2> QED
      BY <1>0, <1>9, <2>1 DEF Tick
  <1>10. CASE UNCHANGED tableVars
    BY <1>10 DEF tableVars, RowsSound
  <1> QED
    BY <1>1, <1>2, <1>3, <1>4, <1>5, <1>6, <1>7, <1>8, <1>9, <1>10 DEF Next

-----------------------------------------------------------------------------
\* The moves between statuses

\* From which status to which a transaction takes the run it names.
Moves ==
    {<<"queued", "running">>, <<"running", "waiting_for_approval">>}
        \cup ({"queued", "running", "waiting_for_approval"} \X {"cancel_requested"})
        \cup ({"running", "waiting_for_approval"} \X {"completed"})
        \cup (ACTIVE_RUN_STATUSES \X {"failed", "cancelled"})

\* No run changes its status or its thread.
Still == \A s \in Runs : /\ runs'[s].status = runs[s].status
                         /\ runs'[s].thread = runs[s].thread

\* Run r alone changes its status, along Moves, and no run changes its thread.
Moved(r) == /\ <<runs[r].status, runs'[r].status>> \in Moves
            /\ runs'[r].thread = runs[r].thread
            /\ \A s \in Runs \ {r} : runs'[s] = runs[s]

\* The transactions of a turn only ever move their run to its approval pause.
LEMMA TurnTransactionMoves ==
    ASSUME TypeOK, NEW r \in Runs, TurnTransaction(r)
    PROVE  Still \/ Moved(r)
  <1>0. runs[r] \in Row
    BY DEF TypeOK
  <1>1. CASE touchChatThreadRunHeartbeat(r)
    BY <1>0, <1>1 DEF touchChatThreadRunHeartbeat, TypeOK, Row, Still
  <1>2. ASSUME NEW snap \in SnapshotOutcomes, NEW knowsCall \in BOOLEAN,
               updateChatThreadRunProgress(r, snap, knowsCall)
        PROVE  Still
    BY <1>0, <1>2 DEF updateChatThreadRunProgress, TypeOK, Row, Still
  <1>3. CASE appendArtifactOutputToChatRun(r)
    BY <1>0, <1>3 DEF appendArtifactOutputToChatRun, TypeOK, Row, Still
  <1>4. ASSUME NEW ids \in SUBSET Confs, NEW knowsCall \in BOOLEAN,
               markChatThreadRunWaitingForApproval(r, ids, knowsCall)
        PROVE  Moved(r)
    BY <1>0, <1>4 DEF markChatThreadRunWaitingForApproval, CanPause, TypeOK, Row,
       Moved, Moves
  <1>5. ASSUME NEW keys \in SUBSET OpKeys, claimMany(r, keys)
        PROVE  Still
    BY <1>0, <1>5 DEF claimMany, TypeOK, Row, Still
  <1>6. ASSUME NEW k \in OpKeys, NEW fits \in BOOLEAN, complete(r, k, fits)
        PROVE  Still
    BY <1>0, <1>6 DEF complete, TypeOK, Row, Still
  <1>7. ASSUME NEW k \in OpKeys, markUnknown(r, k)
        PROVE  Still
    BY <1>0, <1>7 DEF markUnknown, TypeOK, Row, Still
  <1> QED
    BY <1>1, <1>2, <1>3, <1>4, <1>5, <1>6, <1>7 DEF TurnTransaction

\* Every step creates a run, moves one along Moves, or moves none.
LEMMA NextMoves ==
    ASSUME TypeOK, RowsSound, [Next]_tableVars
    PROVE  \/ \E r \in Runs, t \in Threads : createChatThreadRun(r, t)
           \/ Still
           \/ \E r \in Runs : Moved(r)
  <1>0. ASSUME NEW r \in Runs
        PROVE  runs[r] \in Row /\ RowSound(runs[r])
    BY DEF TypeOK, RowsSound
  <1>1. ASSUME NEW r \in Runs, markChatThreadRunQueued(r)
        PROVE  Still
    BY <1>0, <1>1 DEF markChatThreadRunQueued, TypeOK, Row, Still
  <1>2. ASSUME NEW r \in Runs, markChatThreadRunRunning(r)
        PROVE  Moved(r)
    BY <1>0, <1>2 DEF markChatThreadRunRunning, CanStart, TypeOK, Row, Moved, Moves
  <1>3. ASSUME NEW r \in Runs, requestChatThreadRunCancel(r)
        PROVE  Moved(r)
    <2>1. CASE hasCommittedArtifactPublication(runs[r])
      <3>1. runs[r].status \in {"running", "waiting_for_approval"}
        BY <1>0, <1>3, <2>1 DEF requestChatThreadRunCancel, CanRequestCancel,
           hasCommittedArtifactPublication, RowSound
      <3> QED
        BY <1>0, <1>3, <2>1, <3>1 DEF requestChatThreadRunCancel, ended, TypeOK, Row,
           Moved, Moves
    <2>2. CASE ~hasCommittedArtifactPublication(runs[r])
      BY <1>0, <1>3, <2>2 DEF requestChatThreadRunCancel, CanRequestCancel, TypeOK, Row,
         Moved, Moves
    <2> QED
      BY <2>1, <2>2
  <1>4. ASSUME NEW r \in Runs, NEW c \in Confs,
               recordChatThreadRunConfirmationResponse(r, c)
        PROVE  Still \/ Moved(r)
    <2>1. CASE runs[r].pending = {c}
      BY <1>0, <1>4, <2>1 DEF recordChatThreadRunConfirmationResponse, CanRecord, ended,
         TypeOK, Row, Moved, Moves
    <2>2. CASE runs[r].pending # {c}
      BY <1>0, <1>4, <2>2 DEF recordChatThreadRunConfirmationResponse, TypeOK, Row, Still
    <2> QED
      BY <2>1, <2>2
  <1>5. ASSUME NEW r \in Runs, NEW status \in TerminalStatuses,
               NEW ifStale \in BOOLEAN, NEW code \in FinishCodes(status),
               finishChatThreadRun(r, status, code, ifStale)
        PROVE  Moved(r)
    <2>1. <<runs[r].status, status>> \in Moves
      BY <1>5 DEF finishChatThreadRun, CanFinish, allowedSourceStatuses,
         TerminalStatuses, ACTIVE_RUN_STATUSES, Moves
    <2>2. /\ ended(runs[r], status, code).status = status
          /\ ended(runs[r], status, code).thread = runs[r].thread
      BY <1>0 DEF ended, Row
    <2> QED
      BY <1>5, <2>1, <2>2 DEF finishChatThreadRun, TypeOK, Moved
  <1>6. ASSUME NEW r \in Runs, ApprovalDeadlinePasses(r)
        PROVE  Still
    BY <1>0, <1>6 DEF ApprovalDeadlinePasses, TypeOK, Row, Still
  <1>7. CASE Tick
    <2> SUFFICES ASSUME NEW r \in Runs
                 PROVE  runs'[r].status = runs[r].status /\ runs'[r].thread = runs[r].thread
      BY DEF Still
    <2> QED
      BY <1>0, <1>7 DEF Tick, Row
  <1>8. CASE UNCHANGED tableVars
    BY <1>8 DEF tableVars, Still
  <1> QED
    BY <1>1, <1>2, <1>3, <1>4, <1>5, <1>6, <1>7, <1>8, TurnTransactionMoves DEF Next

\* Every step keeps one active run per thread.
LEMMA NextOneActive ==
    ASSUME TypeOK, RowsSound, OneActiveRunPerThread, [Next]_tableVars
    PROVE  OneActiveRunPerThread'
  <1>1. ASSUME NEW r \in Runs, NEW t \in Threads, createChatThreadRun(r, t)
        PROVE  OneActiveRunPerThread'
    <2>1. \A s \in Runs \ {r} : runs'[s] = runs[s]
      BY <1>1 DEF createChatThreadRun, TypeOK
    <2>2. runs[r] \in Row
      BY DEF TypeOK
    <2>3. runs'[r].thread = t
      BY <1>1, <2>2 DEF createChatThreadRun, TypeOK, Row
    <2>4. \A s \in Runs \ {r} : ~(Active(s)' /\ runs'[s].thread = t)
      BY <1>1, <2>1 DEF createChatThreadRun, CanCreate, ActiveOn, Active
    <2> QED
      BY <2>1, <2>3, <2>4 DEF OneActiveRunPerThread, Active
  <1>2. CASE Still
    BY <1>2 DEF Still, OneActiveRunPerThread, Active
  <1>3. ASSUME NEW r \in Runs, Moved(r)
        PROVE  OneActiveRunPerThread'
    <2>1. Active(r)
      BY <1>3 DEF Moved, Moves, Active, ACTIVE_RUN_STATUSES
    <2> QED
      BY <1>3, <2>1 DEF Moved, OneActiveRunPerThread, Active
  <1> QED
    BY <1>1, <1>2, <1>3, NextMoves

\* Every step keeps the log of finished runs at one line per ended run at most.
LEMMA NextReported ==
    ASSUME TypeOK, RowsSound, ReportedAtMostOnce, [Next]_tableVars
    PROVE  ReportedAtMostOnce'
  <1>1. ASSUME NEW r \in Runs, NEW status \in TerminalStatuses,
               NEW ifStale \in BOOLEAN, NEW code \in FinishCodes(status),
               finishChatThreadRun(r, status, code, ifStale)
        PROVE  ReportedAtMostOnce'
    <2>1. runs[r] \in Row
      BY DEF TypeOK
    <2>2. ~Terminal(r)
      BY <1>1 DEF finishChatThreadRun, CanFinish, allowedSourceStatuses,
         ACTIVE_RUN_STATUSES, TerminalStatuses, Terminal
    <2>3. finishedLog[r] = 0
      BY <2>2 DEF ReportedAtMostOnce, TypeOK
    <2>4. ended(runs[r], status, code).status = status
      BY <2>1 DEF ended, Row
    <2>5. Terminal(r)'
      BY <1>1, <2>4 DEF finishChatThreadRun, TypeOK, Terminal
    <2>6. finishedLog'[r] = 1
      BY <1>1, <2>3 DEF finishChatThreadRun, TypeOK
    <2>7. \A s \in Runs \ {r} : runs'[s] = runs[s] /\ finishedLog'[s] = finishedLog[s]
      BY <1>1 DEF finishChatThreadRun, TypeOK
    <2> QED
      BY <2>5, <2>6, <2>7 DEF ReportedAtMostOnce, Terminal
  <1>2. CASE finishedLog' = finishedLog
    <2> SUFFICES ASSUME NEW s \in Runs
                 PROVE  Terminal(s) => Terminal(s)'
      BY <1>2 DEF ReportedAtMostOnce, TypeOK
    <2>1. ASSUME NEW r \in Runs, NEW t \in Threads, createChatThreadRun(r, t)
          PROVE  Terminal(s) => Terminal(s)'
      BY <2>1 DEF createChatThreadRun, CanCreate, Exists, Terminal, TerminalStatuses,
         TypeOK
    <2>2. CASE Still
      BY <2>2 DEF Still, Terminal
    <2>3. ASSUME NEW r \in Runs, Moved(r)
          PROVE  Terminal(s) => Terminal(s)'
      BY <2>3 DEF Moved, Moves, Terminal, TerminalStatuses, ACTIVE_RUN_STATUSES
    <2> QED
      BY <2>1, <2>2, <2>3, NextMoves
  <1>3. \/ finishedLog' = finishedLog
        \/ \E r \in Runs, status \in TerminalStatuses, ifStale \in BOOLEAN :
              \E code \in FinishCodes(status) :
                 finishChatThreadRun(r, status, code, ifStale)
    BY DEF Next, tableVars, createChatThreadRun, markChatThreadRunQueued,
       markChatThreadRunRunning, TurnTransaction, requestChatThreadRunCancel,
       recordChatThreadRunConfirmationResponse, ApprovalDeadlinePasses, Tick,
       touchChatThreadRunHeartbeat, updateChatThreadRunProgress,
       appendArtifactOutputToChatRun, markChatThreadRunWaitingForApproval, claimMany,
       complete, markUnknown
  <1> QED
    BY <1>1, <1>2, <1>3

-----------------------------------------------------------------------------
\* The theorems

\* The inductive invariant holds initially.
LEMMA InitInv == Init => IInv
  <1> SUFFICES ASSUME Init PROVE IInv
    OBVIOUS
  <1>1. TypeOK
    BY InitType
  <1>2. RowsSound
    BY DEF Init, RowsSound, RowSound, TerminalStatuses
  <1>3. OneActiveRunPerThread
    BY DEF Init, OneActiveRunPerThread, Active, ACTIVE_RUN_STATUSES
  <1>4. ReportedAtMostOnce
    BY DEF Init, ReportedAtMostOnce, Terminal, TerminalStatuses
  <1> QED
    BY <1>1, <1>2, <1>3, <1>4 DEF IInv

\* Every step keeps the inductive invariant.
LEMMA NextInv == IInv /\ [Next]_tableVars => IInv'
  BY NextType, NextSound, NextOneActive, NextReported DEF IInv

\* The inductive invariant holds of every reachable table.
THEOREM Inductive == Spec => []IInv
  BY InitInv, NextInv, PTL DEF Spec

\* However the requests of a thread race, at most one of its runs is active.
THEOREM OneActive == Spec => []OneActiveRunPerThread
  BY Inductive, PTL DEF IInv

\* Whichever transaction ended a run, its operations are fenced and its error
\* code agrees with its outcome.
THEOREM Settled == Spec => []TerminalRunsAreSettled
  <1>1. IInv => TerminalRunsAreSettled
    BY DEF IInv, RowsSound, RowSound, TerminalRunsAreSettled, Terminal
  <1> QED
    BY <1>1, Inductive, PTL

\* A stop is acknowledged only while no publication is committed, and none is
\* committed after it.
THEOREM StopSafe == Spec => []StopNeverCoversPublication
  <1>1. IInv => StopNeverCoversPublication
    BY DEF IInv, RowsSound, RowSound, StopNeverCoversPublication,
       hasCommittedArtifactPublication
  <1> QED
    BY <1>1, Inductive, PTL

\* No run is logged finished twice or before its end.
THEOREM Reported == Spec => []ReportedAtMostOnce
  BY Inductive, PTL DEF IInv

-----------------------------------------------------------------------------
\* Outcomes are final

\* The only write an ended row still takes is its late job id.
LEMMA TerminalRowStep ==
    ASSUME TypeOK, NEW r \in Runs, Terminal(r), [Next]_tableVars
    PROVE  \/ runs'[r] = runs[r]
           \/ runs'[r] = [runs[r] EXCEPT !.jobId = TRUE, !.silence = 0]
  <1>0. runs[r].status \in TerminalStatuses
    BY DEF Terminal
  <1>1. ASSUME NEW s \in Runs, markChatThreadRunQueued(s)
        PROVE  \/ runs'[r] = runs[r]
               \/ runs'[r] = [runs[r] EXCEPT !.jobId = TRUE, !.silence = 0]
    BY <1>1 DEF markChatThreadRunQueued, TypeOK
  <1>2. ASSUME NEW s \in Runs, TurnTransaction(s)
        PROVE  runs'[r] = runs[r]
    BY <1>0, <1>2 DEF TurnTransaction, TypeOK, TerminalStatuses, Active,
       ACTIVE_RUN_STATUSES, RUNNER_PROGRESS_STATUSES, CanProgress, CanPause,
       CanUseProtectedState, touchChatThreadRunHeartbeat, updateChatThreadRunProgress,
       appendArtifactOutputToChatRun, markChatThreadRunWaitingForApproval, claimMany,
       complete, markUnknown
  <1>3. ASSUME NEW s \in Runs, NEW t \in Threads, createChatThreadRun(s, t)
        PROVE  runs'[r] = runs[r]
    BY <1>0, <1>3 DEF createChatThreadRun, CanCreate, Exists, TypeOK, TerminalStatuses
  <1>4. ASSUME NEW s \in Runs, markChatThreadRunRunning(s)
        PROVE  runs'[r] = runs[r]
    BY <1>0, <1>4 DEF markChatThreadRunRunning, CanStart, TypeOK, TerminalStatuses
  <1>5. ASSUME NEW s \in Runs, requestChatThreadRunCancel(s)
        PROVE  runs'[r] = runs[r]
    BY <1>0, <1>5 DEF requestChatThreadRunCancel, CanRequestCancel, TypeOK,
       TerminalStatuses
  <1>6. ASSUME NEW s \in Runs, NEW c \in Confs,
               recordChatThreadRunConfirmationResponse(s, c)
        PROVE  runs'[r] = runs[r]
    BY <1>0, <1>6 DEF recordChatThreadRunConfirmationResponse, CanRecord, TypeOK,
       TerminalStatuses
  <1>7. ASSUME NEW s \in Runs, NEW status \in TerminalStatuses,
               NEW ifStale \in BOOLEAN, NEW code \in FinishCodes(status),
               finishChatThreadRun(s, status, code, ifStale)
        PROVE  runs'[r] = runs[r]
    <2>1. runs[s].status \notin TerminalStatuses
      BY <1>7 DEF finishChatThreadRun, CanFinish, allowedSourceStatuses,
         ACTIVE_RUN_STATUSES, TerminalStatuses
    <2> QED
      BY <1>0, <1>7, <2>1 DEF finishChatThreadRun, TypeOK
  <1>8. ASSUME NEW s \in Runs, ApprovalDeadlinePasses(s)
        PROVE  runs'[r] = runs[r]
    BY <1>0, <1>8 DEF ApprovalDeadlinePasses, TypeOK, TerminalStatuses
  <1>9. CASE Tick
    BY <1>0, <1>9 DEF Tick, Active, ACTIVE_RUN_STATUSES, TerminalStatuses
  <1>10. CASE UNCHANGED tableVars
    BY <1>10 DEF tableVars
  <1> QED
    BY <1>1, <1>2, <1>3, <1>4, <1>5, <1>6, <1>7, <1>8, <1>9, <1>10 DEF Next

\* No transaction that comes after the end of a run changes its outcome.
THEOREM Final == Spec => OutcomeIsFinal
  <1>1. ASSUME TypeOK, [Next]_tableVars, NEW r \in Runs, Terminal(r)
        PROVE  /\ Terminal(r)' /\ runs'[r].status = runs[r].status
               /\ runs'[r].errorCode = runs[r].errorCode
               /\ runs'[r].ops = runs[r].ops
               /\ runs'[r].pending = runs[r].pending
               /\ runs'[r].publication = runs[r].publication
    <2>1. runs[r] \in Row
      BY <1>1 DEF TypeOK
    <2>2. CASE runs'[r] = runs[r]
      BY <1>1, <2>2 DEF Terminal
    <2>3. CASE runs'[r] = [runs[r] EXCEPT !.jobId = TRUE, !.silence = 0]
      BY <1>1, <2>1, <2>3 DEF Terminal, Row
    <2> QED
      BY <1>1, <2>2, <2>3, TerminalRowStep
  <1>2. TypeOK /\ [Next]_tableVars =>
           [\A r \in Runs : Terminal(r) =>
               /\ Terminal(r)' /\ runs'[r].status = runs[r].status
               /\ runs'[r].errorCode = runs[r].errorCode
               /\ runs'[r].ops = runs[r].ops
               /\ runs'[r].pending = runs[r].pending
               /\ runs'[r].publication = runs[r].publication]_tableVars
    BY <1>1
  <1> QED
    BY <1>2, TypeCorrect, PTL DEF Spec, OutcomeIsFinal

-----------------------------------------------------------------------------
\* The table implements the life of a run

\* An initial table is an initial life of the runs.
LEMMA InitLifecycle == Init => Lifecycle!Init
  BY DEF Init, Lifecycle!Init

\* A step of the table is a step of the life of one run, or none.
LEMMA NextLifecycle ==
    ASSUME IInv, [Next]_tableVars
    PROVE  [Lifecycle!Next]_(Lifecycle!lifecycleVars)
  <1> USE DEF IInv
  <1>0. TypeOK'
    BY NextType
  <1>1. ASSUME NEW r \in Runs, NEW t \in Threads, createChatThreadRun(r, t)
        PROVE  Lifecycle!Create(r, t)
    <2>1. runs[r] \in Row
      BY DEF TypeOK
    <2>2. runs'[r].status = "queued" /\ runs'[r].thread = t
      BY <1>1, <2>1 DEF createChatThreadRun, TypeOK, Row
    <2>3. \A s \in Runs \ {r} : runs'[s] = runs[s]
      BY <1>1 DEF createChatThreadRun, TypeOK
    <2>4. runs[r].status = "absent"
      BY <1>1 DEF createChatThreadRun, CanCreate, Exists
    <2>5. ~Lifecycle!Busy(t)
      BY <1>1 DEF createChatThreadRun, CanCreate, ActiveOn, Active, Lifecycle!Busy,
         Lifecycle!ACTIVE_RUN_STATUSES, ACTIVE_RUN_STATUSES
    <2> QED
      BY <2>2, <2>3, <2>4, <2>5 DEF Lifecycle!Create
  <1>2. CASE Still
    BY <1>2 DEF Still, Lifecycle!lifecycleVars
  <1>3. ASSUME NEW r \in Runs, Moved(r)
        PROVE  Lifecycle!Next
    <2>1. ASSUME NEW sources, NEW target,
                 runs[r].status \in sources, runs'[r].status = target
          PROVE  Lifecycle!Move(r, sources, target)
      BY <1>3, <2>1 DEF Moved, Lifecycle!Move
    <2>2. \/ Lifecycle!Start(r) \/ Lifecycle!Pause(r) \/ Lifecycle!AcknowledgeStop(r)
          \/ Lifecycle!Complete(r) \/ Lifecycle!Fail(r) \/ Lifecycle!Cancel(r)
      BY <1>3, <2>1 DEF Moved, Moves, ACTIVE_RUN_STATUSES, Lifecycle!ACTIVE_RUN_STATUSES,
         Lifecycle!Start, Lifecycle!Pause, Lifecycle!AcknowledgeStop,
         Lifecycle!Complete, Lifecycle!Fail, Lifecycle!Cancel
    <2> QED
      BY <2>2 DEF Lifecycle!Next
  <1>4. (\E r \in Runs, t \in Threads : Lifecycle!Create(r, t)) => Lifecycle!Next
    BY DEF Lifecycle!Next
  <1> QED
    BY <1>1, <1>2, <1>3, <1>4, NextMoves

\* Every behaviour of the table is a life the component promises.
THEOREM Refines == Spec => LifecycleSpec
  BY InitLifecycle, NextLifecycle, Inductive, PTL
     DEF Spec, LifecycleSpec, Lifecycle!Spec

-----------------------------------------------------------------------------
\* Committed facts survive

\* What a committed publication or operation of an old row leaves in the new one.
FactsKept(old, new) ==
    /\ old.publication # "none" => new.publication # "none"
    /\ old.publication = "paired" => new.publication = "paired"
    /\ \A k \in OpKeys :
          /\ old.ops[k] # "none" => new.ops[k] # "none"
          /\ old.ops[k] \in {"completed", "unknown"} => new.ops[k] = old.ops[k]

\* Ending a run keeps its committed facts: the fence touches open claims only.
LEMMA EndedKeeps ==
    ASSUME NEW row \in Row, NEW status, NEW code
    PROVE  FactsKept(row, ended(row, status, code))
  <1>1. /\ ended(row, status, code).ops = fenceProtectedOperationsForTerminal(row.ops)
        /\ ended(row, status, code).publication = row.publication
    BY DEF ended, Row
  <1>2. \A k \in OpKeys : fenceProtectedOperationsForTerminal(row.ops)[k]
                             = IF row.ops[k] = "in_progress" THEN "unknown" ELSE row.ops[k]
    BY DEF fenceProtectedOperationsForTerminal
  <1> QED
    BY <1>1, <1>2 DEF FactsKept

\* The transactions of a turn keep the committed facts of every row.
LEMMA TurnTransactionKeeps ==
    ASSUME TypeOK, NEW r \in Runs, TurnTransaction(r)
    PROVE  \A s \in Runs : FactsKept(runs[s], runs'[s])
  <1>0. runs[r] \in Row
    BY DEF TypeOK
  <1>a. \A s \in Runs \ {r} : runs'[s] = runs[s]
    BY DEF TurnTransaction, TypeOK, touchChatThreadRunHeartbeat,
       updateChatThreadRunProgress, appendArtifactOutputToChatRun,
       markChatThreadRunWaitingForApproval, claimMany, complete, markUnknown
  <1> SUFFICES FactsKept(runs[r], runs'[r])
    BY <1>a DEF FactsKept
  <1>1. CASE touchChatThreadRunHeartbeat(r)
    BY <1>0, <1>1 DEF touchChatThreadRunHeartbeat, TypeOK, Row, FactsKept
  <1>2. ASSUME NEW snap \in SnapshotOutcomes, NEW knowsCall \in BOOLEAN,
               updateChatThreadRunProgress(r, snap, knowsCall)
        PROVE  FactsKept(runs[r], runs'[r])
    BY <1>0, <1>2 DEF updateChatThreadRunProgress, mergePublication, TypeOK, Row,
       FactsKept
  <1>3. CASE appendArtifactOutputToChatRun(r)
    BY <1>0, <1>3 DEF appendArtifactOutputToChatRun, TypeOK, Row, FactsKept
  <1>4. ASSUME NEW ids \in SUBSET Confs, NEW knowsCall \in BOOLEAN,
               markChatThreadRunWaitingForApproval(r, ids, knowsCall)
        PROVE  FactsKept(runs[r], runs'[r])
    BY <1>0, <1>4 DEF markChatThreadRunWaitingForApproval, mergePublication, TypeOK,
       Row, FactsKept
  <1>5. ASSUME NEW keys \in SUBSET OpKeys, claimMany(r, keys)
        PROVE  FactsKept(runs[r], runs'[r])
    BY <1>0, <1>5 DEF claimMany, TypeOK, Row, FactsKept
  <1>6. ASSUME NEW k \in OpKeys, NEW fits \in BOOLEAN, complete(r, k, fits)
        PROVE  FactsKept(runs[r], runs'[r])
    BY <1>0, <1>6 DEF complete, TypeOK, Row, FactsKept
  <1>7. ASSUME NEW k \in OpKeys, markUnknown(r, k)
        PROVE  FactsKept(runs[r], runs'[r])
    BY <1>0, <1>7 DEF markUnknown, TypeOK, Row, FactsKept
  <1> QED
    BY <1>1, <1>2, <1>3, <1>4, <1>5, <1>6, <1>7 DEF TurnTransaction

\* Every step keeps the committed facts of every row.
LEMMA NextKeeps ==
    ASSUME TypeOK, [Next]_tableVars
    PROVE  \A s \in Runs : FactsKept(runs[s], runs'[s])
  <1> SUFFICES ASSUME NEW s \in Runs PROVE FactsKept(runs[s], runs'[s])
    OBVIOUS
  <1>0. runs[s] \in Row
    BY DEF TypeOK
  <1>1. CASE runs'[s] = runs[s]
    BY <1>1 DEF FactsKept
  <1>2. ASSUME NEW t \in Threads, createChatThreadRun(s, t)
        PROVE  FactsKept(runs[s], runs'[s])
    BY <1>0, <1>2 DEF createChatThreadRun, TypeOK, Row, FactsKept
  <1>3. CASE markChatThreadRunQueued(s)
    BY <1>0, <1>3 DEF markChatThreadRunQueued, TypeOK, Row, FactsKept
  <1>4. CASE markChatThreadRunRunning(s)
    BY <1>0, <1>4 DEF markChatThreadRunRunning, TypeOK, Row, FactsKept
  <1>5. CASE requestChatThreadRunCancel(s)
    <2>1. CASE hasCommittedArtifactPublication(runs[s])
      BY <1>0, <1>5, <2>1, EndedKeeps DEF requestChatThreadRunCancel, TypeOK
    <2>2. CASE ~hasCommittedArtifactPublication(runs[s])
      BY <1>0, <1>5, <2>2 DEF requestChatThreadRunCancel, TypeOK, Row, FactsKept
    <2> QED
      BY <2>1, <2>2
  <1>6. ASSUME NEW c \in Confs, recordChatThreadRunConfirmationResponse(s, c)
        PROVE  FactsKept(runs[s], runs'[s])
    <2>1. CASE runs[s].pending = {c}
      <3> DEFINE end == ended(runs[s], "completed", "none")
      <3>1. FactsKept(runs[s], end) /\ end \in Row
        BY <1>0, EndedKeeps, EndedRow DEF TerminalStatuses, ErrorCodes
      <3>2. runs'[s] = [end EXCEPT !.pending = {}]
        BY <1>6, <2>1 DEF recordChatThreadRunConfirmationResponse, TypeOK
      <3> HIDE DEF end
      <3> QED
        BY <3>1, <3>2 DEF FactsKept, Row
    <2>2. CASE runs[s].pending # {c}
      BY <1>0, <1>6, <2>2 DEF recordChatThreadRunConfirmationResponse, TypeOK, Row,
         FactsKept
    <2> QED
      BY <2>1, <2>2
  <1>7. ASSUME NEW status \in TerminalStatuses, NEW ifStale \in BOOLEAN,
               NEW code \in FinishCodes(status),
               finishChatThreadRun(s, status, code, ifStale)
        PROVE  FactsKept(runs[s], runs'[s])
    BY <1>0, <1>7, EndedKeeps DEF finishChatThreadRun, TypeOK
  <1>8. CASE ApprovalDeadlinePasses(s)
    BY <1>0, <1>8 DEF ApprovalDeadlinePasses, TypeOK, Row, FactsKept
  <1>9. CASE Tick
    BY <1>0, <1>9 DEF Tick, Row, FactsKept
  <1>10. ASSUME NEW r \in Runs \ {s},
                \/ \E t \in Threads : createChatThreadRun(r, t)
                \/ markChatThreadRunQueued(r)
                \/ markChatThreadRunRunning(r)
                \/ requestChatThreadRunCancel(r)
                \/ \E c \in Confs : recordChatThreadRunConfirmationResponse(r, c)
                \/ \E status \in TerminalStatuses, ifStale \in BOOLEAN :
                      \E code \in FinishCodes(status) :
                         finishChatThreadRun(r, status, code, ifStale)
                \/ ApprovalDeadlinePasses(r)
         PROVE  runs'[s] = runs[s]
    BY <1>10 DEF TypeOK, createChatThreadRun, markChatThreadRunQueued,
       markChatThreadRunRunning, requestChatThreadRunCancel,
       recordChatThreadRunConfirmationResponse, finishChatThreadRun,
       ApprovalDeadlinePasses
  <1>11. CASE UNCHANGED tableVars
    BY <1>1, <1>11 DEF tableVars
  <1> QED
    BY <1>1, <1>2, <1>3, <1>4, <1>5, <1>6, <1>7, <1>8, <1>9, <1>10, <1>11,
       TurnTransactionKeeps DEF Next

\* A committed publication is never lost and an operation that may have taken
\* effect is never offered again, whatever the interleaving.
THEOREM Survive == Spec => CommittedFactsSurvive
  <1>1. TypeOK /\ [Next]_tableVars =>
           [\A r \in Runs :
               /\ runs[r].publication # "none" => runs'[r].publication # "none"
               /\ runs[r].publication = "paired" => runs'[r].publication = "paired"
               /\ \A k \in OpKeys :
                     /\ runs[r].ops[k] # "none" => runs'[r].ops[k] # "none"
                     /\ runs[r].ops[k] \in {"completed", "unknown"}
                           => runs'[r].ops[k] = runs[r].ops[k]]_tableVars
    BY NextKeeps DEF FactsKept
  <1> QED
    BY <1>1, TypeCorrect, PTL DEF Spec, CommittedFactsSurvive
=============================================================================
