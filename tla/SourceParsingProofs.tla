------------------------ MODULE SourceParsingProofs ------------------------
(***************************************************************************)
(* Theorems about SourceParsing, for any requests, attempts, polls and     *)
(* faults: late jobs of an older revision change nothing, and what is      *)
(* searchable is the text of the latest revision's own parse.              *)
(***************************************************************************)
EXTENDS SourceParsing, FiniteSetTheorems, TLAPS

-----------------------------------------------------------------------------
\* The inductive invariant

JobRow == [pc : JobPcs, tries : 0 .. Attempts - 1, meta : Metas, text : Texts,
           next : Attempt]
CallRow == [pc : CallPcs, op : Ops \cup {"none"}, meta : Metas, text : Texts,
            rev : 0 .. MaxRevs]

Typed ==
    /\ src \in Rows /\ object \in BOOLEAN /\ old \in BOOLEAN
    /\ revs \in 0 .. MaxRevs
    /\ docs \in [0 .. MaxRevs -> SUBSET Docs]
    /\ \A r \in 0 .. MaxRevs : \A d, e \in docs[r] : d = e
    /\ jobs \in [JobIds -> JobRow] /\ calls \in [Calls -> CallRow]
    /\ sweep \in SUBSET [meta : Metas, deleted : BOOLEAN]
    /\ saved \in SUBSET Revs /\ faults \in 0 .. MaxFaults

\* Nothing exists yet of a request that has not begun, or of a revision that
\* has not been created.
NothingAhead ==
    /\ \A c \in Calls : /\ calls[c].pc = "new" => calls[c].op = "none"
                        /\ calls[c].rev <= revs
    /\ \A j \in JobIds : RevOf(j) > revs => jobs[j].pc = "none"
    /\ \A r \in 0 .. MaxRevs : r > revs => docs[r] = {}

\* No index request and no edit of the text so far.
OnlyParsed == \A c \in Calls : calls[c].op \notin {"index", "edit"}

\* The row shows the text of the latest revision from the moment its job has
\* parsed it, and what the job indexes is that text.
LatestText ==
    OnlyParsed =>
        /\ \A j \in JobIds : jobs[j].pc \in {"index", "write"} /\ IsLatest(RevOf(j))
              => src.content = revs
        /\ \A j \in JobIds : jobs[j].pc = "write" => jobs[j].text = RevOf(j)
        /\ \A d \in docs[revs] : d.text = revs /\ d.chunks = revs /\ src.content = revs

IInv == Typed /\ NothingAhead /\ LatestText

-----------------------------------------------------------------------------
\* Helpers

Steps == {"uploading", "queued", "parsing", "chunking", "completed", "failed"}

LEMMA RangeFacts ==
    /\ MaxRevs \in Nat /\ Attempts \in Nat \ {0} /\ MaxPolls \in Nat \ {0}
    /\ \A j \in JobIds : RevOf(j) \in Revs /\ RevOf(j) \in Nat /\ RevOf(j) \in 0 .. MaxRevs
                         /\ RevOf(j) \in Texts
  <1>1. MaxRevs \in Nat
    BY SourceAssumption, FS_CardinalityType DEF MaxRevs
  <1> HIDE DEF MaxRevs
  <1>2. ASSUME NEW j \in JobIds PROVE RevOf(j) \in Revs
    BY DEF JobIds, RevOf
  <1>3. \A r \in Revs : r \in Nat /\ r \in 0 .. MaxRevs /\ r \in Texts
    BY <1>1 DEF Revs, Texts, Edited
  <1> QED
    BY <1>1, <1>2, <1>3, SourceAssumption

LEMMA StepTyped == \A meta \in Metas, step \in Steps : WithStep(meta, step) \in Metas
  BY DEF WithStep, Metas, Steps

LEMMA FirstRows ==
    /\ Uploaded \in Rows /\ NoJob \in JobRow /\ NoCall \in CallRow /\ Uploaded.meta \in Metas
    /\ Chunking \in Metas /\ [step |-> "completed", pending |-> {}] \in Metas
  <1>1. 0 \in Texts /\ 0 \in 0 .. MaxRevs /\ 0 \in Attempt /\ 0 \in 0 .. Attempts - 1
    BY RangeFacts DEF Texts, Edited, Attempt
  <1>2. Chunking \in Metas /\ [step |-> "completed", pending |-> {}] \in Metas
    BY DEF Chunking, Metas
  <1>3. Uploaded \in Rows /\ Uploaded.meta \in Metas
    BY <1>1 DEF Uploaded, Rows, Metas
  <1> QED
    BY <1>1, <1>2, <1>3 DEF NoJob, NoCall, JobRow, CallRow, JobPcs, CallPcs

LEMMA InitKeeps == Init => IInv
  <1> SUFFICES ASSUME Init PROVE IInv
    OBVIOUS
  <1>1. src \in Rows /\ revs = 0 /\ revs \in 0 .. MaxRevs /\ faults \in 0 .. MaxFaults
    BY FirstRows, RangeFacts, SourceAssumption DEF Init
  <1>2. /\ docs \in [0 .. MaxRevs -> SUBSET Docs]
        /\ \A r \in 0 .. MaxRevs : docs[r] = {}
        /\ jobs \in [JobIds -> JobRow] /\ calls \in [Calls -> CallRow]
        /\ \A j \in JobIds : jobs[j].pc = "none"
        /\ \A c \in Calls : calls[c].pc = "new" /\ calls[c].op = "none" /\ calls[c].rev = 0
    BY FirstRows DEF Init, NoJob, NoCall
  <1>3. Typed
    BY <1>1, <1>2 DEF Init, Typed
  <1>4. NothingAhead
    BY <1>1, <1>2, RangeFacts DEF NothingAhead
  <1>5. LatestText
    BY <1>1, <1>2, RangeFacts DEF LatestText
  <1> QED
    BY <1>3, <1>4, <1>5 DEF IInv

\* A request that moves on: it keeps to the revisions there are, and a request
\* for indexing or an edit remains one.
CallMoves(c, row) ==
    /\ calls' = [calls EXCEPT ![c] = row]
    /\ row \in CallRow /\ row.pc # "new"
    /\ row.op \notin {"index", "edit"} => calls[c].op \notin {"index", "edit"}

LEMMA CallsKept ==
    ASSUME Typed, NothingAhead, NEW c \in Calls, NEW row, CallMoves(c, row), revs' \in Nat,
           revs <= revs', row.rev <= revs'
    PROVE  /\ calls' \in [Calls -> CallRow]
           /\ \A d \in Calls : /\ calls'[d].pc = "new" => calls'[d].op = "none"
                               /\ calls'[d].rev <= revs'
           /\ OnlyParsed' => OnlyParsed
           /\ OnlyParsed' => row.op \notin {"index", "edit"}
  <1>1. /\ calls' \in [Calls -> CallRow] /\ calls'[c] = row
        /\ \A d \in Calls \ {c} : calls'[d] = calls[d]
    BY DEF Typed, CallMoves
  <1>2. revs \in Nat /\ \A d \in Calls : calls[d].rev \in Nat
    BY RangeFacts DEF Typed, CallRow
  <1>3. \A d \in Calls : /\ calls'[d].pc = "new" => calls'[d].op = "none"
                         /\ calls'[d].rev <= revs'
    BY <1>1, <1>2 DEF NothingAhead, CallMoves
  <1>4. OnlyParsed' => OnlyParsed
    BY <1>1 DEF OnlyParsed, CallMoves
  <1>5. OnlyParsed' => row.op \notin {"index", "edit"}
    BY <1>1 DEF OnlyParsed
  <1> QED
    BY <1>1, <1>3, <1>4, <1>5

LEMMA GotoMoves ==
    ASSUME Typed, NEW c \in Calls, NEW pc \in CallPcs \ {"new"}, Goto(c, pc)
    PROVE  \E row : CallMoves(c, row) /\ row.rev = calls[c].rev /\ row.pc = pc
                    /\ row.op = calls[c].op
  <1>1. PICK row : row = [calls[c] EXCEPT !.pc = pc]
    OBVIOUS
  <1>2. row \in CallRow /\ row.rev = calls[c].rev /\ row.pc = pc /\ row.op = calls[c].op
    BY <1>1 DEF Typed, CallRow
  <1>3. calls' = [calls EXCEPT ![c] = row]
    BY <1>1 DEF Goto
  <1> QED
    BY <1>2, <1>3 DEF CallMoves

LEMMA ReturnMoves ==
    ASSUME Typed, NEW c \in Calls, Return(c), calls[c].op # "edit"
    PROVE  \E row : CallMoves(c, row) /\ row.rev = 0
  <1>1. PICK row : row = [NoCall EXCEPT !.pc = "done",
                            !.op = IF calls[c].op = "index" THEN "index" ELSE "none"]
    OBVIOUS
  <1>2. row \in CallRow /\ row.rev = 0 /\ row.pc = "done"
        /\ row.op = (IF calls[c].op = "index" THEN "index" ELSE "none")
    <2>1. calls[c].op = "index" => "index" \in Ops
      BY DEF Typed, CallRow
    <2> QED
      BY <1>1, <2>1, FirstRows DEF CallRow, NoCall, CallPcs
  <1>3. calls' = [calls EXCEPT ![c] = row]
    BY <1>1 DEF Return
  <1> QED
    BY <1>2, <1>3 DEF CallMoves

\* A job that is added was unknown, and waits.
LEMMA AddFacts ==
    ASSUME NEW q \in [JobIds -> JobRow], NEW j
    PROVE  /\ Add(q, j) \in [JobIds -> JobRow]
           /\ \A k \in JobIds : Add(q, j)[k] # q[k] =>
                k = j /\ q[k].pc = "none" /\ Add(q, j)[k].pc = "waiting"
  <1>1. CASE j \in JobIds /\ q[j].pc = "none"
    <2>1. PICK row : row = [q[j] EXCEPT !.pc = "waiting"]
      OBVIOUS
    <2>2. row \in JobRow /\ row.pc = "waiting"
      BY <1>1, <2>1 DEF JobRow, JobPcs
    <2>3. Add(q, j) = [q EXCEPT ![j] = row]
      BY <1>1, <2>1 DEF Add
    <2> QED
      BY <1>1, <2>2, <2>3
  <1>2. CASE ~(j \in JobIds /\ q[j].pc = "none")
    BY <1>2 DEF Add
  <1> QED
    BY <1>1, <1>2

\* A request may write the row but not its text, create a revision and add a
\* job of one that exists.
LEMMA RequestKeeps ==
    ASSUME IInv, NEW c \in Calls, NEW row, CallMoves(c, row), row.rev <= revs',
           src' \in Rows, src'.content = src.content, old' \in BOOLEAN,
           revs' \in {revs, revs + 1} /\ revs' \in 0 .. MaxRevs,
           \/ jobs' = jobs
           \/ \E j : jobs' = Add(jobs, j) /\ (j \in JobIds => RevOf(j) <= revs),
           UNCHANGED <<object, docs, sweep, saved>>, faults' \in 0 .. MaxFaults
    PROVE  IInv'
  <1>1. Typed /\ NothingAhead /\ LatestText
    BY DEF IInv
  <1>2. revs \in Nat /\ revs' \in Nat /\ revs <= revs'
    BY <1>1, RangeFacts DEF Typed
  <1>3. /\ calls' \in [Calls -> CallRow]
        /\ \A d \in Calls : /\ calls'[d].pc = "new" => calls'[d].op = "none"
                            /\ calls'[d].rev <= revs'
        /\ OnlyParsed' => OnlyParsed
    BY <1>1, <1>2, CallsKept
  <1>4. /\ jobs' \in [JobIds -> JobRow]
        /\ \A j \in JobIds : jobs'[j] # jobs[j] => jobs'[j].pc = "waiting" /\ RevOf(j) <= revs
    <2>1. CASE jobs' = jobs
      BY <1>1, <2>1 DEF Typed
    <2>2. ASSUME NEW j, jobs' = Add(jobs, j), j \in JobIds => RevOf(j) <= revs
          PROVE  <1>4!1 /\ <1>4!2
      <3>1. jobs \in [JobIds -> JobRow]
        BY <1>1 DEF Typed
      <3> QED
        BY <2>2, <3>1, AddFacts
    <2> QED
      BY <2>1, <2>2
  <1>5. Typed'
    BY <1>1, <1>3, <1>4 DEF Typed
  <1>6. NothingAhead'
    <2>1. ASSUME NEW j \in JobIds, RevOf(j) > revs' PROVE jobs'[j].pc = "none"
      <3>1. RevOf(j) > revs
        BY <1>2, <2>1, RangeFacts
      <3>2. jobs'[j] = jobs[j]
        BY <1>2, <1>4, <3>1, RangeFacts
      <3> QED
        BY <1>1, <3>1, <3>2 DEF NothingAhead
    <2>2. \A r \in 0 .. MaxRevs : r > revs' => docs'[r] = {}
      BY <1>1, <1>2, RangeFacts DEF NothingAhead
    <2> QED
      BY <1>3, <2>1, <2>2 DEF NothingAhead
  <1>7. LatestText'
    <2> SUFFICES ASSUME OnlyParsed' PROVE LatestText'
      BY DEF LatestText
    <2>1. OnlyParsed
      BY <1>3
    <2>2. \A j \in JobIds : jobs'[j].pc \in {"index", "write"} => jobs'[j] = jobs[j]
      BY <1>4
    <2>3. CASE revs' = revs
      BY <1>1, <2>1, <2>2, <2>3 DEF LatestText, IsLatest
    <2>4. CASE revs' = revs + 1
      <3>1. \A j \in JobIds : jobs'[j].pc \in {"index", "write"} => RevOf(j) # revs'
        BY <1>1, <1>2, <2>2, <2>4, RangeFacts DEF NothingAhead
      <3>2. docs'[revs'] = {}
        BY <1>1, <1>2, <2>4, RangeFacts DEF NothingAhead
      <3> QED
        BY <1>1, <2>1, <2>2, <3>1, <3>2 DEF LatestText, IsLatest
    <2> QED
      BY <2>3, <2>4
  <1> QED
    BY <1>5, <1>6, <1>7 DEF IInv

-----------------------------------------------------------------------------
\* The steps of a request

LEMMA CallReadsKeeps ==
    ASSUME IInv, NEW c \in Calls, NEW op \in Ops, CallReads(c, op)
    PROVE  IInv'
  <1>1. Typed /\ NothingAhead
    BY DEF IInv
  <1>2. src.meta \in Metas /\ src.content \in Texts /\ 0 \in Texts
    BY <1>1, RangeFacts DEF Typed, Rows, Texts, Edited
  <1>3. PICK row : row = [NoCall EXCEPT !.op = op, !.meta = src.meta,
                   !.text = IF op = "index" THEN src.content ELSE 0,
                   !.pc = IF op = "reparse" THEN "queue"
                          ELSE IF op = "index" THEN "list"
                          ELSE IF StillUploading(src) THEN "head" ELSE "done"]
    OBVIOUS
  <1>4. row \in CallRow /\ row.rev = 0 /\ row.pc # "new"
    BY <1>2, <1>3, FirstRows, SourceAssumption DEF NoCall, CallRow, CallPcs
  <1>5. calls' = [calls EXCEPT ![c] = row] /\ calls[c].pc = "new"
    BY <1>3 DEF CallReads
  <1>6. CallMoves(c, row)
    BY <1>1, <1>4, <1>5 DEF CallMoves, NothingAhead
  <1> QED
    BY <1>1, <1>4, <1>6, RequestKeeps, RangeFacts DEF CallReads, Typed

\* Every write of the row by a request keeps its text.
Statuses == {"created", "queued", "processing", "indexed", "failed"}

LEMMA RowWritten ==
    ASSUME Typed, NEW status \in Statuses, NEW meta \in Metas,
           updateSourceRecord([src EXCEPT !.status = status, !.meta = meta])
    PROVE  src' \in Rows /\ src'.content = src.content /\ old' \in BOOLEAN
  BY DEF Typed, Rows, Statuses, updateSourceRecord

\* A request that fails or ends, with the row written or not.
LEMMA ReturnKeeps ==
    ASSUME IInv, NEW c \in Calls, Return(c), calls[c].op # "edit", src' \in Rows,
           src'.content = src.content, old' \in BOOLEAN,
           UNCHANGED <<object, revs, docs, jobs, sweep, saved>>, faults' \in 0 .. MaxFaults
    PROVE  IInv'
  <1>1. PICK row : CallMoves(c, row) /\ row.rev = 0
    BY ReturnMoves DEF IInv
  <1> QED
    BY <1>1, RequestKeeps, RangeFacts DEF IInv, Typed

LEMMA GotoKeeps ==
    ASSUME IInv, NEW c \in Calls, NEW pc \in CallPcs \ {"new"}, Goto(c, pc), src' \in Rows,
           src'.content = src.content, old' \in BOOLEAN,
           UNCHANGED <<object, revs, docs, sweep, saved>>, faults' \in 0 .. MaxFaults,
           \/ jobs' = jobs
           \/ \E j : jobs' = Add(jobs, j) /\ (j \in JobIds => RevOf(j) <= revs)
    PROVE  IInv'
  <1>1. PICK row : CallMoves(c, row) /\ row.rev = calls[c].rev
    BY GotoMoves DEF IInv
  <1> QED
    BY <1>1, RequestKeeps, RangeFacts DEF IInv, Typed, NothingAhead

LEMMA HeadObjectKeeps ==
    ASSUME IInv, NEW c \in Calls, HeadObject(c)
    PROVE  IInv'
  <1>1. calls[c].op # "edit" /\ src' = src /\ src \in Rows /\ "queue" \in CallPcs \ {"new"}
    BY DEF HeadObject, CallAt, IInv, Typed, CallPcs
  <1>2. CASE object
    BY <1>1, <1>2, GotoKeeps DEF HeadObject, IInv, Typed
  <1>3. CASE ~object
    BY <1>1, <1>3, ReturnKeeps DEF HeadObject, IInv, Typed
  <1> QED
    BY <1>2, <1>3

LEMMA MarkQueuedKeeps ==
    ASSUME IInv, NEW c \in Calls, MarkQueued(c)
    PROVE  IInv'
  <1>1. PICK meta : meta = WithStep(calls[c].meta, "queued")
    OBVIOUS
  <1>2. meta \in Metas /\ calls[c] \in CallRow
    BY <1>1, StepTyped DEF IInv, Typed, CallRow, Steps
  <1>3. PICK row : row = [calls[c] EXCEPT !.pc = "revision", !.meta = meta]
    OBVIOUS
  <1>4. row \in CallRow /\ row.pc = "revision" /\ row.rev = calls[c].rev
        /\ row.op = calls[c].op
    BY <1>2, <1>3 DEF CallRow, CallPcs
  <1>5. calls' = [calls EXCEPT ![c] = row]
    BY <1>1, <1>3 DEF MarkQueued
  <1>6. CallMoves(c, row)
    BY <1>4, <1>5 DEF CallMoves
  <1>7. src' \in Rows /\ src'.content = src.content
    <2>1. updateSourceRecord([src EXCEPT !.status = "queued", !.meta = meta])
      BY <1>1 DEF MarkQueued
    <2> QED
      BY <1>2, <2>1, RowWritten DEF IInv, Statuses
  <1>8. row.rev <= revs'
    BY <1>4 DEF MarkQueued, IInv, NothingAhead
  <1> QED
    BY <1>6, <1>7, <1>8, RequestKeeps DEF MarkQueued, updateSourceRecord, IInv, Typed

LEMMA NewRevisionKeeps ==
    ASSUME IInv, NEW c \in Calls, NewRevision(c)
    PROVE  IInv'
  <1>1. revs \in Nat /\ revs' = revs + 1 /\ revs' \in 0 .. MaxRevs /\ revs' \in Nat
    BY RangeFacts DEF NewRevision, createSourceRevisionRecord, IInv, Typed
  <1>2. PICK row : row = [calls[c] EXCEPT !.pc = "enqueue", !.rev = revs']
    OBVIOUS
  <1>3. row \in CallRow /\ row.pc = "enqueue" /\ row.rev = revs' /\ row.op = calls[c].op
    BY <1>1, <1>2 DEF IInv, Typed, CallRow, CallPcs
  <1>4. calls' = [calls EXCEPT ![c] = row]
    BY <1>2 DEF NewRevision
  <1>5. CallMoves(c, row)
    BY <1>3, <1>4 DEF CallMoves
  <1> QED
    BY <1>1, <1>3, <1>5, RequestKeeps DEF NewRevision, IInv, Typed

LEMMA EnqueueParseKeeps ==
    ASSUME IInv, NEW c \in Calls, EnqueueParse(c)
    PROVE  IInv'
  <1>1. RevOf(ParseJob(calls[c].rev)) <= revs
    BY DEF RevOf, ParseJob, IInv, NothingAhead
  <1>2. "trail" \in CallPcs \ {"new"}
    BY DEF CallPcs
  <1> QED
    BY <1>1, <1>2, GotoKeeps DEF EnqueueParse, IInv, Typed

LEMMA FaultTyped ==
    ASSUME Typed, NEW f, Fault(f)
    PROVE  faults' \in 0 .. MaxFaults
  BY SourceAssumption DEF Fault, Typed

LEMMA EnqueueParseFailsKeeps ==
    ASSUME IInv, NEW c \in Calls, EnqueueParseFails(c)
    PROVE  IInv'
  <1>1. Typed /\ calls[c].op # "edit" /\ calls[c].meta \in Metas
    BY DEF IInv, EnqueueParseFails, CallAt, Queueing, Typed, CallRow
  <1>2. faults' \in 0 .. MaxFaults
    BY <1>1, FaultTyped DEF EnqueueParseFails
  <1>3. PICK meta : meta = WithStep(calls[c].meta, "failed")
    OBVIOUS
  <1>4. meta \in Metas
    BY <1>1, <1>3, StepTyped DEF Steps
  <1>5. src' \in Rows /\ src'.content = src.content /\ old' \in BOOLEAN
    <2>1. CASE calls[c].op = "complete"
      <3>1. updateSourceRecord([src EXCEPT !.status = "failed", !.meta = meta])
        BY <1>3, <2>1 DEF EnqueueParseFails
      <3> QED
        BY <1>1, <1>4, <3>1, RowWritten DEF Statuses
    <2>2. CASE calls[c].op # "complete"
      BY <1>1, <2>2 DEF EnqueueParseFails, Typed
    <2> QED
      BY <2>1, <2>2
  <1> QED
    BY <1>1, <1>2, <1>5, ReturnKeeps DEF EnqueueParseFails

LEMMA TrailingWriteKeeps ==
    ASSUME IInv, NEW c \in Calls, TrailingWrite(c)
    PROVE  IInv'
  <1>1. Typed /\ calls[c].op # "edit" /\ calls[c].meta \in Metas
    BY DEF IInv, TrailingWrite, CallAt, Queueing, Typed, CallRow
  <1>2. PICK meta : meta = WithStep(calls[c].meta, "queued")
    OBVIOUS
  <1>3. meta \in Metas
    BY <1>1, <1>2, StepTyped DEF Steps
  <1>4. src' \in Rows /\ src'.content = src.content /\ old' \in BOOLEAN
    BY <1>1, <1>2, <1>3 DEF TrailingWrite, updateSourceRecord, Typed, Rows
  <1> QED
    BY <1>1, <1>4, ReturnKeeps DEF TrailingWrite, Typed

LEMMA IndexListsKeeps ==
    ASSUME IInv, NEW c \in Calls, IndexListsRevisions(c)
    PROVE  IInv'
  <1>1. PICK row : row = [calls[c] EXCEPT !.pc = "claim", !.rev = revs]
    OBVIOUS
  <1>2. row \in CallRow /\ row.pc = "claim" /\ row.rev = revs /\ row.op = calls[c].op
        /\ revs \in Nat
    <2>1. revs \in 0 .. MaxRevs /\ calls[c] \in CallRow
      BY DEF IInv, Typed
    <2>2. revs \in Nat
      BY <2>1, RangeFacts
    <2> QED
      BY <1>1, <2>1, <2>2 DEF CallRow, CallPcs
  <1>3. calls' = [calls EXCEPT ![c] = row]
    BY <1>1 DEF IndexListsRevisions
  <1>4. CallMoves(c, row)
    BY <1>2, <1>3 DEF CallMoves
  <1> QED
    BY <1>2, <1>4, RequestKeeps DEF IndexListsRevisions, IInv, Typed

LEMMA IndexClaimsKeeps ==
    ASSUME IInv, NEW c \in Calls, IndexClaims(c)
    PROVE  IInv'
  <1>1. Typed /\ calls[c].op # "edit" /\ calls[c].meta \in Metas
    BY DEF IInv, IndexClaims, CallAt, Typed, CallRow
  <1>2. CASE IsLatest(calls[c].rev)
    <2>1. updateSourceRecord([src EXCEPT !.status = "processing", !.meta = calls[c].meta])
          /\ Goto(c, "write")
      BY <1>2 DEF IndexClaims
    <2>2. src' \in Rows /\ src'.content = src.content /\ old' \in BOOLEAN
      BY <1>1, <2>1, RowWritten DEF Statuses
    <2>3. "write" \in CallPcs \ {"new"}
      BY DEF CallPcs
    <2> QED
      BY <1>1, <2>1, <2>2, <2>3, GotoKeeps DEF IndexClaims, Typed
  <1>3. CASE ~IsLatest(calls[c].rev)
    BY <1>1, <1>3, ReturnKeeps DEF IndexClaims, Typed
  <1> QED
    BY <1>2, <1>3

LEMMA IndexFailedKeeps ==
    ASSUME IInv, NEW c \in Calls, calls[c].op # "edit", IndexFailed(c),
           UNCHANGED <<object, revs, docs, jobs, sweep, saved>>, faults' \in 0 .. MaxFaults
    PROVE  IInv'
  <1>1. Typed /\ calls[c].meta \in Metas
    BY DEF IInv, Typed, CallRow
  <1>2. src' \in Rows /\ src'.content = src.content /\ old' \in BOOLEAN
    BY <1>1, RowWritten DEF IndexFailed, Statuses
  <1> QED
    BY <1>1, <1>2, ReturnKeeps DEF IndexFailed

LEMMA IndexMetersKeeps ==
    ASSUME IInv, NEW c \in Calls, IndexMeters(c)
    PROVE  IInv'
  <1>1. Typed /\ calls[c].op # "edit"
        /\ UNCHANGED <<object, revs, docs, jobs, sweep, saved>>
    BY DEF IInv, IndexMeters, CallAt
  <1>2. CASE Return(c) /\ UNCHANGED <<src, old, faults>>
    BY <1>1, <1>2, ReturnKeeps DEF Typed
  <1>3. CASE IndexFailed(c) /\ UNCHANGED faults
    BY <1>1, <1>3, IndexFailedKeeps DEF Typed
  <1>4. CASE Fault("billing") /\ IndexFailed(c)
    BY <1>1, <1>4, FaultTyped, IndexFailedKeeps
  <1> QED
    BY <1>2, <1>3, <1>4 DEF IndexMeters

\* The new document of a revision is its only one.
LEMMA DocumentWritten ==
    ASSUME Typed, NEW r \in 0 .. MaxRevs, NEW text \in Texts, NEW chunks \in Texts,
           WriteDocument(r, text, chunks)
    PROVE  /\ docs' \in [0 .. MaxRevs -> SUBSET Docs]
           /\ \A s \in 0 .. MaxRevs : \A d, e \in docs'[s] : d = e
           /\ \A s \in (0 .. MaxRevs) \ {r} : docs'[s] = docs[s]
           /\ \A d \in docs'[r] : d.text = text /\ d.chunks = chunks
           /\ src' \in Rows /\ src'.content = src.content /\ old' \in BOOLEAN
  <1>1. PICK doc : doc = [text |-> text, chunks |-> chunks]
    OBVIOUS
  <1>2. doc \in Docs /\ doc.text = text /\ doc.chunks = chunks
    BY <1>1 DEF Docs
  <1>3. docs' = [docs EXCEPT ![r] = {doc}]
    BY <1>1 DEF WriteDocument
  <1>4. src' \in Rows /\ src'.content = src.content /\ old' \in BOOLEAN
    BY DEF WriteDocument, updateSourceRecord, Typed, Rows
  <1> QED
    BY <1>2, <1>3, <1>4 DEF Typed

\* A document written by an index request, or none left after an edit: neither
\* is a behaviour LatestText speaks about.
LEMMA OtherwiseKeeps ==
    ASSUME IInv, NEW c \in Calls, NEW row, CallMoves(c, row), row.rev <= revs,
           row.op \in {"index", "edit"},
           src' \in Rows, old' \in BOOLEAN, UNCHANGED <<object, revs, jobs, sweep, saved>>,
           faults' \in 0 .. MaxFaults,
           docs' \in [0 .. MaxRevs -> SUBSET Docs],
           \A r \in 0 .. MaxRevs : \A d, e \in docs'[r] : d = e,
           \A r \in 0 .. MaxRevs : r > revs => docs'[r] = {}
    PROVE  IInv'
  <1>1. Typed /\ NothingAhead
    BY DEF IInv
  <1>2. revs \in Nat
    BY <1>1, RangeFacts DEF Typed
  <1>3. /\ calls' \in [Calls -> CallRow]
        /\ \A d \in Calls : /\ calls'[d].pc = "new" => calls'[d].op = "none"
                            /\ calls'[d].rev <= revs
        /\ ~OnlyParsed'
    <2>1. revs' \in Nat /\ revs <= revs' /\ row.rev <= revs'
      BY <1>2
    <2> QED
      BY <1>1, <2>1, CallsKept
  <1>4. Typed'
    BY <1>1, <1>3 DEF Typed
  <1>5. NothingAhead'
    BY <1>1, <1>3 DEF NothingAhead
  <1>6. LatestText'
    BY <1>3 DEF LatestText
  <1> QED
    BY <1>4, <1>5, <1>6 DEF IInv

LEMMA IndexWritesKeeps ==
    ASSUME IInv, NEW c \in Calls, IndexWrites(c)
    PROVE  IInv'
  <1>1. Typed /\ NothingAhead /\ calls[c].op = "index" /\ calls[c].op # "edit"
        /\ UNCHANGED <<object, revs, jobs, sweep, saved>>
    BY DEF IInv, IndexWrites, CallAt
  <1>2. CASE IsLatest(calls[c].rev) /\ UNCHANGED faults /\ Goto(c, "meter")
             /\ WriteDocument(calls[c].rev, calls[c].text, calls[c].text)
    <2>1. calls[c].rev = revs /\ revs \in 0 .. MaxRevs /\ calls[c].text \in Texts
          /\ revs \in Nat
      BY <1>1, <1>2, RangeFacts DEF IsLatest, Typed, CallRow
    <2>2. /\ docs' \in [0 .. MaxRevs -> SUBSET Docs]
          /\ \A s \in 0 .. MaxRevs : \A d, e \in docs'[s] : d = e
          /\ \A s \in (0 .. MaxRevs) \ {revs} : docs'[s] = docs[s]
          /\ src' \in Rows /\ old' \in BOOLEAN
      BY <1>1, <1>2, <2>1, DocumentWritten
    <2>3. \A r \in 0 .. MaxRevs : r > revs => docs'[r] = {}
      BY <1>1, <2>1, <2>2, RangeFacts DEF NothingAhead
    <2>4. PICK row : CallMoves(c, row) /\ row.rev = calls[c].rev /\ row.op = calls[c].op
      BY <1>1, <1>2, GotoMoves DEF CallPcs
    <2>5. row.rev <= revs /\ row.op \in {"index", "edit"}
      BY <1>1, <2>1, <2>4
    <2>6. faults' \in 0 .. MaxFaults
      BY <1>1, <1>2 DEF Typed
    <2> QED
      BY <1>1, <2>2, <2>3, <2>4, <2>5, <2>6, OtherwiseKeeps
  <1>3. CASE IndexFailed(c) /\ UNCHANGED <<docs, faults>>
    BY <1>1, <1>3, IndexFailedKeeps DEF Typed
  <1>4. CASE Fault("provider") /\ IndexFailed(c) /\ UNCHANGED docs
    BY <1>1, <1>4, FaultTyped, IndexFailedKeeps
  <1> QED
    BY <1>2, <1>3, <1>4 DEF IndexWrites

LEMMA EditTextKeeps ==
    ASSUME IInv, NEW c \in Calls, EditText(c)
    PROVE  IInv'
  <1>1. Typed /\ NothingAhead
    BY DEF IInv
  <1>2. PICK row : row = [NoCall EXCEPT !.pc = "done", !.op = "edit"]
    OBVIOUS
  <1>3. row \in CallRow /\ row.rev = 0 /\ row.pc = "done" /\ row.op = "edit"
    BY <1>2, FirstRows DEF NoCall, CallRow, CallPcs, EditText
  <1>4. calls' = [calls EXCEPT ![c] = row]
    BY <1>2 DEF EditText
  <1>5. CallMoves(c, row)
    BY <1>3, <1>4 DEF CallMoves
  <1>6. src' \in Rows /\ old' \in BOOLEAN
    <2>1. Edited \in Texts
      BY RangeFacts DEF Edited, Texts
    <2> QED
      BY <1>1, <2>1 DEF EditText, updateSourceRecord, Typed, Rows
  <1>7. /\ docs' \in [0 .. MaxRevs -> SUBSET Docs]
        /\ \A r \in 0 .. MaxRevs : docs'[r] = {}
    BY <1>1 DEF EditText, Typed
  <1>8. row.rev <= revs
    BY <1>1, <1>3, RangeFacts DEF Typed
  <1>9. faults' \in 0 .. MaxFaults /\ UNCHANGED <<object, revs, jobs, sweep, saved>>
    BY <1>1 DEF EditText, Typed
  <1> QED
    BY <1>3, <1>5, <1>6, <1>7, <1>8, <1>9, OtherwiseKeeps

-----------------------------------------------------------------------------
\* The steps of a job

\* A job may write the row but not its text, and add a job of its revision, on
\* the way to anywhere but the steps that index.
LEMMA JobKeeps ==
    ASSUME IInv, NEW j \in JobIds, jobs[j].pc # "none",
           NEW q, q = jobs \/ (\E k : q = Add(jobs, k) /\ (k \in JobIds => RevOf(k) = RevOf(j))),
           NEW row \in JobRow, jobs' = [q EXCEPT ![j] = row],
           row.pc \notin {"index", "write"},
           src' \in Rows, src'.content = src.content, old' \in BOOLEAN,
           UNCHANGED <<object, revs, docs, calls, sweep>>,
           saved' \in SUBSET Revs, faults' \in 0 .. MaxFaults
    PROVE  IInv'
  <1>1. Typed /\ NothingAhead /\ LatestText
    BY DEF IInv
  <1>2. /\ q \in [JobIds -> JobRow]
        /\ \A k \in JobIds : q[k] # jobs[k] => q[k].pc = "waiting" /\ RevOf(k) = RevOf(j)
    BY <1>1, AddFacts DEF Typed
  <1>3. /\ jobs' \in [JobIds -> JobRow]
        /\ \A k \in JobIds : jobs'[k] # jobs[k] =>
              jobs'[k].pc \notin {"index", "write"} /\ RevOf(k) = RevOf(j)
    BY <1>2
  <1>4. Typed'
    BY <1>1, <1>3 DEF Typed
  <1>5. NothingAhead'
    BY <1>1, <1>3 DEF NothingAhead
  <1>6. LatestText'
    <2>1. OnlyParsed' => OnlyParsed
      BY DEF OnlyParsed
    <2>2. \A k \in JobIds : jobs'[k].pc \in {"index", "write"} => jobs'[k] = jobs[k]
      BY <1>3
    <2> QED
      BY <1>1, <2>1, <2>2 DEF LatestText, IsLatest
  <1> QED
    BY <1>4, <1>5, <1>6 DEF IInv

\* One that only moves, or ends.
LEMMA JobMovesKeeps ==
    ASSUME IInv, NEW j \in JobIds, jobs[j].pc # "none",
           NEW row \in JobRow, jobs' = [jobs EXCEPT ![j] = row],
           row.pc \notin {"index", "write"},
           src' \in Rows, src'.content = src.content, old' \in BOOLEAN,
           UNCHANGED <<object, revs, docs, calls, sweep>>,
           saved' \in SUBSET Revs, faults' \in 0 .. MaxFaults
    PROVE  IInv'
  <1>1. PICK q : q = jobs
    OBVIOUS
  <1>2. jobs' = [q EXCEPT ![j] = row]
    BY <1>1
  <1> QED
    BY <1>1, <1>2, JobKeeps

LEMMA DoneRow == [NoJob EXCEPT !.pc = "done"] \in JobRow
  BY FirstRows DEF JobRow, NoJob, JobPcs

LEMMA JobEndsKeeps ==
    ASSUME IInv, NEW j \in JobIds, jobs[j].pc # "none", JobEnds(j),
           UNCHANGED <<src, old, object, revs, docs, calls, sweep>>,
           saved' \in SUBSET Revs, faults' \in 0 .. MaxFaults
    PROVE  IInv'
  <1>1. PICK row : row = [NoJob EXCEPT !.pc = "done"]
    OBVIOUS
  <1>2. row \in JobRow /\ row.pc = "done"
    BY <1>1, DoneRow DEF NoJob
  <1>3. jobs' = [jobs EXCEPT ![j] = row]
    BY <1>1 DEF JobEnds
  <1> QED
    BY <1>2, <1>3, JobMovesKeeps DEF IInv, Typed

\* A conditional update, refused or not.
LEMMA UpdateKeeps ==
    ASSUME IInv, NEW j \in JobIds, jobs[j].pc # "none",
           NEW row \in Rows, row.content = src.content,
           NEW job \in JobRow, job.pc \notin {"index", "write"}, Update(j, row, job),
           UNCHANGED <<object, revs, docs, calls, sweep>>,
           saved' \in SUBSET Revs, faults' \in 0 .. MaxFaults
    PROVE  IInv'
  <1>1. CASE IsLatest(RevOf(j))
    BY <1>1, JobMovesKeeps DEF Update, updateSourceRecord
  <1>2. CASE ~IsLatest(RevOf(j))
    BY <1>2, JobEndsKeeps DEF Update
  <1> QED
    BY <1>1, <1>2

LEMMA AgainRow ==
    ASSUME NEW tries \in 0 .. Attempts - 1
    PROVE  [NoJob EXCEPT !.pc = "waiting", !.tries = tries] \in JobRow
  BY FirstRows DEF JobRow, NoJob, JobPcs

LEMMA JobFailsKeeps ==
    ASSUME IInv, NEW j \in JobIds, jobs[j].pc # "none",
           NEW row \in Rows, row.content = src.content, JobFails(j, row),
           UNCHANGED <<object, revs, docs, calls, sweep>>,
           saved' \in SUBSET Revs, faults' \in 0 .. MaxFaults
    PROVE  IInv'
  <1>1. jobs[j] \in JobRow
    BY DEF IInv, Typed
  <1>2. CASE ~isFinalAttempt(j)
    <2>1. jobs[j].tries + 1 \in 0 .. Attempts - 1
      BY <1>1, <1>2, RangeFacts DEF isFinalAttempt, JobRow
    <2>2. PICK job : job = [NoJob EXCEPT !.pc = "waiting", !.tries = jobs[j].tries + 1]
      OBVIOUS
    <2>3. job \in JobRow /\ job.pc = "waiting"
      BY <2>1, <2>2, AgainRow DEF NoJob
    <2>4. jobs' = [jobs EXCEPT ![j] = job] /\ src' = row /\ old' = (old /\ row = src)
      BY <1>2, <2>2 DEF JobFails, JobAgain
    <2>5. old' \in BOOLEAN
      BY <2>4, Zenon
    <2> QED
      BY <2>3, <2>4, <2>5, JobMovesKeeps
  <1>3. CASE isFinalAttempt(j)
    <2>1. PICK meta : meta = WithStep(jobs[j].meta, "failed")
      OBVIOUS
    <2>2. meta \in Metas
      BY <1>1, <2>1, StepTyped DEF JobRow, Steps
    <2>3. PICK failed : failed = [row EXCEPT !.status = "failed", !.meta = meta]
      OBVIOUS
    <2>4. failed \in Rows /\ failed.content = src.content
      BY <2>2, <2>3 DEF Rows
    <2>5. PICK job : job = [NoJob EXCEPT !.pc = "done"]
      OBVIOUS
    <2>6. job \in JobRow /\ job.pc = "done"
      BY <2>5, DoneRow DEF NoJob
    <2>7. Update(j, failed, job)
      BY <1>3, <2>1, <2>3, <2>5 DEF JobFails, failSource
    <2> QED
      BY <2>4, <2>6, <2>7, UpdateKeeps
  <1> QED
    BY <1>2, <1>3

\* The catch of indexSourceRevision.
LEMMA IndexingFailsKeeps ==
    ASSUME IInv, NEW j \in JobIds, jobs[j].pc # "none", IndexingFails(j),
           UNCHANGED <<object, revs, docs, calls, sweep>>,
           saved' \in SUBSET Revs, faults' \in 0 .. MaxFaults
    PROVE  IInv'
  <1>1. CASE IsLatest(RevOf(j))
    <2>1. PICK row : row = [src EXCEPT !.status = "failed", !.meta = Chunking]
      OBVIOUS
    <2>2. row \in Rows /\ row.content = src.content
      BY <2>1, FirstRows DEF IInv, Typed, Rows
    <2>3. JobFails(j, row)
      BY <1>1, <2>1 DEF IndexingFails
    <2> QED
      BY <2>2, <2>3, JobFailsKeeps
  <1>2. CASE ~IsLatest(RevOf(j))
    BY <1>2, JobEndsKeeps DEF IndexingFails
  <1> QED
    BY <1>1, <1>2

LEMMA JobStartsKeeps ==
    ASSUME IInv, NEW j \in JobIds, JobStarts(j)
    PROVE  IInv'
  <1>1. Typed /\ jobs[j].pc = "waiting" /\ jobs[j] \in JobRow
        /\ UNCHANGED <<src, object, old, revs, docs, calls, sweep, saved, faults>>
    BY DEF IInv, Typed, JobStarts, JobAt
  <1>2. CASE IsLatest(RevOf(j))
    <2>1. PICK row : row = [jobs[j] EXCEPT !.meta = src.meta,
                       !.pc = IF j = ParseJob(RevOf(j)) THEN "begin" ELSE "fetch"]
      OBVIOUS
    <2>2. row \in JobRow /\ row.pc \notin {"index", "write"}
      BY <1>1, <2>1 DEF JobRow, JobPcs, Typed, Rows
    <2>3. jobs' = [jobs EXCEPT ![j] = row]
      BY <1>2, <2>1 DEF JobStarts
    <2> QED
      BY <1>1, <2>2, <2>3, JobMovesKeeps DEF Typed
  <1>3. CASE ~IsLatest(RevOf(j))
    BY <1>1, <1>3, JobEndsKeeps DEF JobStarts, Typed
  <1> QED
    BY <1>2, <1>3

LEMMA JobBeginsKeeps ==
    ASSUME IInv, NEW j \in JobIds, JobBegins(j)
    PROVE  IInv'
  <1>1. Typed /\ jobs[j].pc = "begin" /\ jobs[j] \in JobRow
        /\ UNCHANGED <<object, revs, docs, calls, sweep, saved, faults>>
    BY DEF IInv, Typed, JobBegins, JobAt
  <1>2. CASE savedPendingToken(j) # {}
    <2>1. PICK k \in savedPendingToken(j) :
            jobs' = [jobs EXCEPT ![j].pc = "enqueue", ![j].next = k]
      BY <1>2 DEF JobBegins
    <2>2. k \in Attempt /\ UNCHANGED <<src, old>>
      BY <1>2 DEF savedPendingToken, JobBegins
    <2>3. PICK row : row = [jobs[j] EXCEPT !.pc = "enqueue", !.next = k]
      OBVIOUS
    <2>4. row \in JobRow /\ row.pc = "enqueue"
      BY <1>1, <2>2, <2>3 DEF JobRow, JobPcs
    <2>5. jobs' = [jobs EXCEPT ![j] = row]
      BY <2>1, <2>3
    <2> QED
      BY <1>1, <2>2, <2>4, <2>5, JobMovesKeeps DEF Typed
  <1>3. CASE savedPendingToken(j) = {}
    <2>1. PICK meta : meta = WithStep(jobs[j].meta, "parsing")
      OBVIOUS
    <2>2. meta \in Metas
      BY <1>1, <2>1, StepTyped DEF JobRow, Steps
    <2>3. PICK row : row = [src EXCEPT !.status = "processing", !.meta = meta]
      OBVIOUS
    <2>4. row \in Rows /\ row.content = src.content
      BY <1>1, <2>2, <2>3 DEF Typed, Rows
    <2>5. PICK job : job = [jobs[j] EXCEPT !.pc = "fetch"]
      OBVIOUS
    <2>6. job \in JobRow /\ job.pc = "fetch"
      BY <1>1, <2>5 DEF JobRow, JobPcs
    <2>7. Update(j, row, job)
      BY <1>3, <2>1, <2>3, <2>5 DEF JobBegins
    <2> QED
      BY <1>1, <2>4, <2>6, <2>7, UpdateKeeps DEF Typed
  <1> QED
    BY <1>2, <1>3

LEMMA JobFetchesKeeps ==
    ASSUME IInv, NEW j \in JobIds, JobFetches(j)
    PROVE  IInv'
  <1>1. Typed /\ jobs[j].pc = "fetch" /\ jobs[j] \in JobRow /\ src \in Rows
        /\ UNCHANGED <<object, revs, docs, calls, sweep, saved>>
    BY DEF IInv, Typed, JobFetches, JobAt
  <1>2. CASE JobGoto(j, "complete") /\ UNCHANGED <<src, old, faults>>
    <2>1. PICK row : row = [jobs[j] EXCEPT !.pc = "complete"]
      OBVIOUS
    <2>2. row \in JobRow /\ row.pc = "complete"
      BY <1>1, <2>1 DEF JobRow, JobPcs
    <2>3. jobs' = [jobs EXCEPT ![j] = row]
      BY <1>2, <2>1 DEF JobGoto
    <2> QED
      BY <1>1, <1>2, <2>2, <2>3, JobMovesKeeps DEF Typed
  <1>3. CASE /\ NextAttempt(j) \in Attempt
             /\ jobs' = [jobs EXCEPT ![j].pc = "save", ![j].next = NextAttempt(j)]
             /\ UNCHANGED <<src, old, faults>>
    <2>1. PICK row : row = [jobs[j] EXCEPT !.pc = "save", !.next = NextAttempt(j)]
      OBVIOUS
    <2>2. row \in JobRow /\ row.pc = "save"
      BY <1>1, <1>3, <2>1 DEF JobRow, JobPcs
    <2>3. jobs' = [jobs EXCEPT ![j] = row]
      BY <1>3, <2>1
    <2> QED
      BY <1>1, <1>3, <2>2, <2>3, JobMovesKeeps DEF Typed
  <1>4. CASE JobFails(j, src) /\ UNCHANGED faults
    BY <1>1, <1>4, JobFailsKeeps DEF Typed
  <1>5. CASE Fault("provider") /\ JobFails(j, src)
    BY <1>1, <1>5, FaultTyped, JobFailsKeeps DEF Typed
  <1> QED
    BY <1>2, <1>3, <1>4, <1>5 DEF JobFetches

LEMMA SaveTokenKeeps ==
    ASSUME IInv, NEW j \in JobIds, SaveToken(j)
    PROVE  IInv'
  <1>1. Typed /\ jobs[j].pc = "save" /\ jobs[j] \in JobRow /\ RevOf(j) \in Revs
        /\ UNCHANGED <<object, revs, docs, calls, sweep, faults>>
    BY RangeFacts DEF IInv, Typed, SaveToken, JobAt
  <1>2. PICK meta : meta = [step |-> "parsing", pending |-> {<<RevOf(j), jobs[j].next>>}]
    OBVIOUS
  <1>3. meta \in Metas
    BY <1>1, <1>2 DEF Metas, JobRow
  <1>4. PICK row : row = [src EXCEPT !.meta = meta]
    OBVIOUS
  <1>5. row \in Rows /\ row.content = src.content
    BY <1>1, <1>3, <1>4 DEF Typed, Rows
  <1>6. PICK job : job = [jobs[j] EXCEPT !.pc = "enqueue",
                            !.meta = IF j = ParseJob(RevOf(j)) THEN meta ELSE @]
    OBVIOUS
  <1>7. job \in JobRow /\ job.pc = "enqueue"
    BY <1>1, <1>3, <1>6 DEF JobRow, JobPcs
  <1>8. Update(j, row, job)
    BY <1>2, <1>4, <1>6 DEF SaveToken
  <1>9. saved' \in SUBSET Revs
    BY <1>1 DEF SaveToken, Typed
  <1> QED
    BY <1>1, <1>5, <1>7, <1>8, <1>9, UpdateKeeps DEF Typed

LEMMA EnqueuePollKeeps ==
    ASSUME IInv, NEW j \in JobIds, EnqueuePoll(j)
    PROVE  IInv'
  <1>1. Typed /\ jobs[j].pc = "enqueue" /\ jobs[j] \in JobRow /\ src \in Rows
        /\ UNCHANGED <<object, revs, docs, calls, sweep, saved>>
    BY DEF IInv, Typed, EnqueuePoll, JobAt
  <1>2. CASE /\ jobs' = [Add(jobs, PollJob(RevOf(j), jobs[j].next))
                           EXCEPT ![j] = [NoJob EXCEPT !.pc = "done"]]
             /\ UNCHANGED <<src, old, faults>>
    <2>1. PICK k : k = PollJob(RevOf(j), jobs[j].next)
      OBVIOUS
    <2>2. PICK q : q = Add(jobs, k)
      OBVIOUS
    <2>3. RevOf(k) = RevOf(j)
      BY <2>1 DEF RevOf, PollJob
    <2>4. PICK row : row = [NoJob EXCEPT !.pc = "done"]
      OBVIOUS
    <2>5. row \in JobRow /\ row.pc = "done"
      BY <2>4, DoneRow DEF NoJob
    <2>6. jobs' = [q EXCEPT ![j] = row]
      BY <1>2, <2>1, <2>2, <2>4
    <2> QED
      BY <1>1, <1>2, <2>2, <2>3, <2>5, <2>6, JobKeeps DEF Typed
  <1>3. CASE Fault("enqueue") /\ JobFails(j, src)
    BY <1>1, <1>3, FaultTyped, JobFailsKeeps DEF Typed
  <1> QED
    BY <1>2, <1>3 DEF EnqueuePoll

LEMMA JobMetersKeeps ==
    ASSUME IInv, NEW j \in JobIds, JobMeters(j)
    PROVE  IInv'
  <1>1. Typed /\ jobs[j].pc = "meter" /\ jobs[j] \in JobRow
        /\ UNCHANGED <<object, revs, docs, calls, sweep, saved>>
    BY DEF IInv, Typed, JobMeters, JobAt
  <1>2. CASE JobGoto(j, "finish") /\ UNCHANGED <<src, old, faults>>
    <2>1. PICK row : row = [jobs[j] EXCEPT !.pc = "finish"]
      OBVIOUS
    <2>2. row \in JobRow /\ row.pc = "finish"
      BY <1>1, <2>1 DEF JobRow, JobPcs
    <2>3. jobs' = [jobs EXCEPT ![j] = row]
      BY <1>2, <2>1 DEF JobGoto
    <2> QED
      BY <1>1, <1>2, <2>2, <2>3, JobMovesKeeps DEF Typed
  <1>3. CASE JobEnds(j) /\ UNCHANGED <<src, old, faults>>
    BY <1>1, <1>3, JobEndsKeeps DEF Typed
  <1>4. CASE Fault("billing") /\ IndexingFails(j)
    BY <1>1, <1>4, FaultTyped, IndexingFailsKeeps DEF Typed
  <1> QED
    BY <1>2, <1>3, <1>4 DEF JobMeters

LEMMA JobFinishesKeeps ==
    ASSUME IInv, NEW j \in JobIds, JobFinishes(j)
    PROVE  IInv'
  <1>1. Typed /\ jobs[j].pc = "finish"
        /\ UNCHANGED <<object, revs, docs, calls, sweep, saved, faults>>
    BY DEF IInv, JobFinishes, JobAt
  <1>2. PICK row : row = [src EXCEPT !.meta = [step |-> "completed", pending |-> {}]]
    OBVIOUS
  <1>3. row \in Rows /\ row.content = src.content
    BY <1>1, <1>2, FirstRows DEF Typed, Rows
  <1>4. PICK job : job = [NoJob EXCEPT !.pc = "done"]
    OBVIOUS
  <1>5. job \in JobRow /\ job.pc = "done"
    BY <1>4, DoneRow DEF NoJob
  <1>6. Update(j, row, job)
    BY <1>2, <1>4 DEF JobFinishes
  <1> QED
    BY <1>1, <1>3, <1>5, <1>6, UpdateKeeps DEF Typed

LEMMA WorkerCrashKeeps ==
    ASSUME IInv, NEW j \in JobIds, WorkerCrash(j)
    PROVE  IInv'
  <1>1. Typed /\ jobs[j].pc # "none" /\ jobs[j].tries \in 0 .. Attempts - 1
        /\ UNCHANGED <<src, object, old, revs, docs, calls, sweep, saved>>
    BY DEF IInv, Typed, JobRow, WorkerCrash
  <1>2. faults' \in 0 .. MaxFaults
    BY <1>1, FaultTyped DEF WorkerCrash
  <1>3. PICK row : row = [NoJob EXCEPT !.pc = "waiting", !.tries = jobs[j].tries]
    OBVIOUS
  <1>4. row \in JobRow /\ row.pc = "waiting"
    BY <1>1, <1>3, AgainRow DEF NoJob
  <1>5. jobs' = [jobs EXCEPT ![j] = row]
    BY <1>3 DEF WorkerCrash, JobAgain
  <1> QED
    BY <1>1, <1>2, <1>4, <1>5, JobMovesKeeps DEF Typed

\* The steps that index: the job of the latest revision writes its text, reads
\* it again and writes the document.
LEMMA CompleteParsedKeeps ==
    ASSUME IInv, NEW j \in JobIds, CompleteParsed(j)
    PROVE  IInv'
  <1>1. Typed /\ NothingAhead /\ LatestText /\ jobs[j].pc = "complete"
        /\ UNCHANGED <<object, revs, docs, calls, sweep, saved, faults>>
    BY DEF IInv, CompleteParsed, JobAt
  <1>2. CASE IsLatest(RevOf(j))
    <2>1. /\ src' = [src EXCEPT !.content = RevOf(j), !.status = "created", !.meta = Chunking]
          /\ old' = FALSE
          /\ jobs' = [jobs EXCEPT ![j] = [jobs[j] EXCEPT !.pc = "index"]]
      BY <1>2 DEF CompleteParsed, Update, updateSourceRecord
    <2>2. PICK row : row = [jobs[j] EXCEPT !.pc = "index"]
      OBVIOUS
    <2>3. row \in JobRow /\ row.pc = "index"
      BY <1>1, <2>2 DEF Typed, JobRow, JobPcs
    <2>4. jobs' = [jobs EXCEPT ![j] = row]
      BY <2>1, <2>2
    <2>5. src' \in Rows /\ src'.content = revs /\ RevOf(j) = revs
      BY <1>1, <1>2, <2>1, FirstRows, RangeFacts DEF Typed, Rows, IsLatest
    <2>6. /\ jobs' \in [JobIds -> JobRow]
          /\ \A k \in JobIds : jobs'[k] # jobs[k] => k = j /\ jobs'[k].pc = "index"
      BY <1>1, <2>3, <2>4 DEF Typed
    <2>7. Typed'
      BY <1>1, <2>1, <2>5, <2>6 DEF Typed
    <2>8. NothingAhead'
      BY <1>1, <2>6 DEF NothingAhead
    <2>9. LatestText'
      <3>1. OnlyParsed' => OnlyParsed
        BY <1>1 DEF OnlyParsed
      <3>2. \A k \in JobIds : jobs'[k].pc = "write" => jobs'[k] = jobs[k]
        BY <2>6
      <3> QED
        BY <1>1, <2>5, <3>1, <3>2 DEF LatestText
    <2> QED
      BY <2>7, <2>8, <2>9 DEF IInv
  <1>3. CASE ~IsLatest(RevOf(j))
    BY <1>1, <1>3, JobEndsKeeps DEF CompleteParsed, Update, Typed
  <1> QED
    BY <1>2, <1>3

LEMMA JobIndexesKeeps ==
    ASSUME IInv, NEW j \in JobIds, JobIndexes(j)
    PROVE  IInv'
  <1>1. Typed /\ NothingAhead /\ LatestText /\ jobs[j].pc = "index" /\ src \in Rows
        /\ UNCHANGED <<object, revs, docs, calls, sweep, saved>>
    BY DEF IInv, Typed, JobIndexes, JobAt
  <1>2. CASE UNCHANGED faults /\ IsLatest(RevOf(j))
             /\ Update(j, [src EXCEPT !.status = "processing"],
                       [jobs[j] EXCEPT !.pc = "write", !.text = src.content])
    <2>1. PICK row : row = [jobs[j] EXCEPT !.pc = "write", !.text = src.content]
      OBVIOUS
    <2>2. row \in JobRow /\ row.pc = "write" /\ row.text = src.content
      BY <1>1, <2>1 DEF Typed, Rows, JobRow, JobPcs
    <2>3. jobs' = [jobs EXCEPT ![j] = row] /\ src' = [src EXCEPT !.status = "processing"]
          /\ old' = FALSE
      BY <1>2, <2>1 DEF Update, updateSourceRecord
    <2>4. src' \in Rows /\ src'.content = src.content
      BY <1>1, <2>3 DEF Rows
    <2>5. /\ jobs' \in [JobIds -> JobRow] /\ jobs'[j] = row
          /\ \A k \in JobIds \ {j} : jobs'[k] = jobs[k]
      BY <1>1, <2>2, <2>3 DEF Typed
    <2>6. Typed'
      BY <1>1, <1>2, <2>3, <2>4, <2>5 DEF Typed
    <2>7. NothingAhead'
      BY <1>1, <2>5 DEF NothingAhead
    <2>8. LatestText'
      <3> SUFFICES ASSUME OnlyParsed PROVE LatestText'
        BY <1>1 DEF LatestText, OnlyParsed
      <3>1. src.content = revs /\ RevOf(j) = revs
        BY <1>1, <1>2 DEF LatestText, IsLatest
      <3>2. \A k \in JobIds : jobs'[k].pc = "write" => jobs'[k].text = RevOf(k)
        BY <1>1, <2>2, <2>5, <3>1 DEF LatestText
      <3> QED
        BY <1>1, <2>4, <3>1, <3>2 DEF LatestText
    <2> QED
      BY <2>6, <2>7, <2>8 DEF IInv
  <1>3. CASE UNCHANGED faults /\ ~IsLatest(RevOf(j))
             /\ Update(j, [src EXCEPT !.status = "processing"],
                       [jobs[j] EXCEPT !.pc = "write", !.text = src.content])
    BY <1>1, <1>3, JobEndsKeeps DEF Update, Typed
  <1>4. CASE Fault("billing") /\ JobFails(j, src)
    BY <1>1, <1>4, FaultTyped, JobFailsKeeps DEF Typed
  <1> QED
    BY <1>2, <1>3, <1>4 DEF JobIndexes

LEMMA JobWritesKeeps ==
    ASSUME IInv, NEW j \in JobIds, JobWrites(j)
    PROVE  IInv'
  <1>1. Typed /\ NothingAhead /\ LatestText /\ jobs[j].pc = "write" /\ jobs[j] \in JobRow
        /\ UNCHANGED <<object, revs, calls, sweep, saved>>
    BY DEF IInv, Typed, JobWrites, JobAt
  <1>2. CASE IsLatest(RevOf(j)) /\ WriteDocument(RevOf(j), jobs[j].text, RevOf(j))
             /\ JobGoto(j, "meter") /\ UNCHANGED faults
    <2>1. PICK row : row = [jobs[j] EXCEPT !.pc = "meter"]
      OBVIOUS
    <2>2. row \in JobRow /\ row.pc = "meter"
      BY <1>1, <2>1 DEF JobRow, JobPcs
    <2>3. jobs' = [jobs EXCEPT ![j] = row]
      BY <1>2, <2>1 DEF JobGoto
    <2>4. RevOf(j) = revs /\ revs \in 0 .. MaxRevs /\ revs \in Texts /\ revs \in Nat
          /\ jobs[j].text \in Texts
      BY <1>1, <1>2, RangeFacts DEF IsLatest, JobRow
    <2>5. /\ docs' \in [0 .. MaxRevs -> SUBSET Docs]
          /\ \A s \in 0 .. MaxRevs : \A d, e \in docs'[s] : d = e
          /\ \A s \in (0 .. MaxRevs) \ {revs} : docs'[s] = docs[s]
          /\ \A d \in docs'[revs] : d.text = jobs[j].text /\ d.chunks = revs
          /\ src' \in Rows /\ src'.content = src.content /\ old' \in BOOLEAN
      <3>1. PICK r \in 0 .. MaxRevs : r = RevOf(j) /\ r \in Texts
        BY RangeFacts
      <3>2. PICK text \in Texts : text = jobs[j].text
        BY <2>4
      <3>3. WriteDocument(r, text, r)
        BY <1>2, <3>1, <3>2
      <3> QED
        BY <1>1, <2>4, <3>1, <3>2, <3>3, DocumentWritten
    <2>6. /\ jobs' \in [JobIds -> JobRow] /\ jobs'[j] = row
          /\ \A k \in JobIds \ {j} : jobs'[k] = jobs[k]
      BY <1>1, <2>2, <2>3 DEF Typed
    <2>7. Typed'
      BY <1>1, <1>2, <2>5, <2>6 DEF Typed
    <2>8. NothingAhead'
      <3>1. \A r \in 0 .. MaxRevs : r > revs => docs'[r] = {}
        BY <1>1, <2>4, <2>5 DEF NothingAhead
      <3> QED
        BY <1>1, <2>6, <3>1 DEF NothingAhead
    <2>9. LatestText'
      <3> SUFFICES ASSUME OnlyParsed PROVE LatestText'
        BY <1>1 DEF LatestText, OnlyParsed
      <3>1. src.content = revs /\ jobs[j].text = revs
        BY <1>1, <1>2, <2>4 DEF LatestText
      <3>2. \A k \in JobIds : jobs'[k].pc = "write" => jobs'[k].text = RevOf(k)
        BY <1>1, <2>2, <2>6 DEF LatestText
      <3> QED
        BY <1>1, <2>5, <3>1, <3>2 DEF LatestText
    <2> QED
      BY <2>7, <2>8, <2>9 DEF IInv
  <1>3. CASE JobEnds(j) /\ UNCHANGED <<src, old, docs, faults>>
    BY <1>1, <1>3, JobEndsKeeps DEF Typed
  <1>4. CASE Fault("provider") /\ IndexingFails(j) /\ UNCHANGED docs
    BY <1>1, <1>4, FaultTyped, IndexingFailsKeeps DEF Typed
  <1> QED
    BY <1>2, <1>3, <1>4 DEF JobWrites

-----------------------------------------------------------------------------
\* The upload, its sweep and the invariant

\* What touches neither requests nor jobs nor documents.
LEMMA OthersKeep ==
    ASSUME IInv, src' \in Rows, src'.content = src.content, old' \in BOOLEAN,
           object' \in BOOLEAN, sweep' \in SUBSET [meta : Metas, deleted : BOOLEAN],
           UNCHANGED <<revs, docs, jobs, calls, saved, faults>>
    PROVE  IInv'
  <1>1. Typed'
    BY DEF IInv, Typed
  <1>2. NothingAhead'
    BY DEF IInv, NothingAhead
  <1>3. LatestText'
    BY DEF IInv, LatestText, OnlyParsed, IsLatest
  <1> QED
    BY <1>1, <1>2, <1>3 DEF IInv

LEMMA SweepKeeps ==
    ASSUME IInv, ClientPut \/ SweepStep
    PROVE  IInv'
  <1>1. src \in Rows /\ object \in BOOLEAN /\ old \in BOOLEAN /\ src.meta \in Metas
        /\ sweep \in SUBSET [meta : Metas, deleted : BOOLEAN]
    BY DEF IInv, Typed, Rows
  <1>2. CASE ClientPut \/ HourPasses
    BY <1>1, <1>2, OthersKeep DEF ClientPut, HourPasses
  <1>3. CASE SweepLists
    BY <1>1, <1>3, OthersKeep DEF SweepLists
  <1>4. CASE SweepDeletesObject
    <2>1. PICK w \in sweep : sweep' = {[w EXCEPT !.deleted = TRUE]}
      BY <1>4 DEF SweepDeletesObject
    <2>2. sweep' \in SUBSET [meta : Metas, deleted : BOOLEAN]
      BY <1>1, <2>1
    <2> QED
      BY <1>1, <1>4, <2>2, OthersKeep DEF SweepDeletesObject
  <1>5. CASE SweepMarksFailed
    <2>1. PICK w \in sweep :
            updateSourceRecord([src EXCEPT !.status = "failed",
                                  !.meta = WithStep(w.meta, "failed")])
      BY <1>5 DEF SweepMarksFailed
    <2>2. PICK meta : meta = WithStep(w.meta, "failed")
      OBVIOUS
    <2>3. meta \in Metas
      BY <1>1, <2>2, StepTyped DEF Steps
    <2>4. updateSourceRecord([src EXCEPT !.status = "failed", !.meta = meta])
      BY <2>1, <2>2
    <2>5. src' \in Rows /\ src'.content = src.content /\ old' \in BOOLEAN
      BY <2>3, <2>4, RowWritten DEF IInv, Statuses
    <2> QED
      BY <1>1, <1>5, <2>5, OthersKeep DEF SweepMarksFailed
  <1> QED
    BY <1>2, <1>3, <1>4, <1>5 DEF SweepStep

LEMMA StepKeeps == IInv /\ [Next]_vars => IInv'
  <1> SUFFICES ASSUME IInv, [Next]_vars PROVE IInv'
    OBVIOUS
  <1>1. CASE ClientPut \/ SweepStep
    BY <1>1, SweepKeeps
  <1>2. ASSUME NEW c \in Calls,
               (\E op \in Ops : CallReads(c, op)) \/ EditText(c) \/ CallStep(c)
               \/ EnqueueParseFails(c)
        PROVE  IInv'
    <2>1. CASE (\E op \in Ops : CallReads(c, op)) \/ EditText(c) \/ EnqueueParseFails(c)
      BY <2>1, CallReadsKeeps, EditTextKeeps, EnqueueParseFailsKeeps
    <2>2. CASE CallStep(c)
      BY <2>2, HeadObjectKeeps, MarkQueuedKeeps, NewRevisionKeeps, EnqueueParseKeeps,
         TrailingWriteKeeps, IndexListsKeeps, IndexClaimsKeeps, IndexWritesKeeps,
         IndexMetersKeeps DEF CallStep
    <2> QED
      BY <1>2, <2>1, <2>2
  <1>3. ASSUME NEW j \in JobIds, JobStep(j) \/ WorkerCrash(j)
        PROVE  IInv'
    BY <1>3, JobStartsKeeps, JobBeginsKeeps, JobFetchesKeeps, SaveTokenKeeps,
       EnqueuePollKeeps, CompleteParsedKeeps, JobIndexesKeeps, JobWritesKeeps,
       JobMetersKeeps, JobFinishesKeeps, WorkerCrashKeeps DEF JobStep
  <1>4. CASE UNCHANGED vars
    BY <1>4, OthersKeep DEF vars, IInv, Typed
  <1> QED
    BY <1>1, <1>2, <1>3, <1>4 DEF Next

LEMMA Invariance == Spec => []IInv
  <1> QED
    BY InitKeeps, StepKeeps, PTL DEF Spec

-----------------------------------------------------------------------------
\* The theorems

\* The row, its documents, jobs and requests keep to their types (source_documents
\* has one newest document per revision).
THEOREM TypeCorrect == Spec => []TypeOK
  <1>1. IInv => TypeOK
    <2> SUFFICES ASSUME IInv PROVE TypeOK
      OBVIOUS
    <2>1. Typed
      BY DEF IInv
    <2>2. ASSUME NEW r \in DOMAIN docs PROVE Cardinality(docs[r]) <= 1
      <3>1. r \in 0 .. MaxRevs
        BY <2>1 DEF Typed
      <3>2. CASE docs[r] = {}
        <4>1. Cardinality({}) = 0
          BY FS_EmptySet
        <4> QED
          BY <3>2, <4>1
      <3>3. CASE docs[r] # {}
        <4>1. PICK d \in docs[r] : docs[r] = {d}
          BY <2>1, <3>1, <3>3 DEF Typed
        <4>2. Cardinality({d}) = 1
          BY FS_Singleton
        <4>3. Cardinality(docs[r]) = 1
          BY <4>1, <4>2, Zenon
        <4> QED
          BY <4>3
      <3> QED
        BY <3>2, <3>3
    <2> QED
      BY <2>1, <2>2 DEF Typed, TypeOK, JobRow, CallRow
  <1> QED
    BY <1>1, Invariance, PTL

\* Unless the text is edited or indexed by a request, what retrieval finds of an
\* indexed source is the row's text, parsed by the latest revision's job
\* (updateSourceParsingForLatestRevision, createSourceDocumentChunksAndEmbeddings).
THEOREM SearchableTextIsCurrent == Spec => []SearchableIsCurrent
  <1>1. IInv => SearchableIsCurrent
    BY DEF IInv, LatestText, OnlyParsed, SearchableIsCurrent
  <1> QED
    BY <1>1, Invariance, PTL

\* A conditional update by a job of an older revision changes no row.
LEMMA RefusedUpdate ==
    ASSUME NEW j, NEW row, NEW job, ~IsLatest(RevOf(j)), Update(j, row, job)
    PROVE  src' = src
  BY DEF Update

LEMMA RefusedFailure ==
    ASSUME NEW j, ~IsLatest(RevOf(j)), JobFails(j, src) \/ IndexingFails(j)
    PROVE  src' = src
  BY RefusedUpdate DEF JobFails, IndexingFails

\* A job of an older revision changes neither the row nor a document
\* (the ...ForLatestRevision updates of sources/repository.ts).
THEOREM OldJobsChangeNothing == Spec => OldJobChangesNothing
  <1>1. ASSUME IInv, [Next]_vars, NEW j \in JobIds, jobs'[j] # jobs[j],
               jobs[j].pc # "none", RevOf(j) < revs
        PROVE  UNCHANGED <<src, docs>>
    <2>1. ~IsLatest(RevOf(j)) /\ jobs \in [JobIds -> JobRow]
      BY <1>1, RangeFacts DEF IInv, Typed, IsLatest
    <2>2. JobStep(j) \/ WorkerCrash(j)
      <3>1. ~(ClientPut \/ SweepStep \/ UNCHANGED vars)
        BY <1>1 DEF ClientPut, SweepStep, HourPasses, SweepLists, SweepDeletesObject,
           SweepMarksFailed, vars
      <3>2. ASSUME NEW c \in Calls
            PROVE  ~((\E op \in Ops : CallReads(c, op)) \/ EditText(c) \/ CallStep(c)
                     \/ EnqueueParseFails(c))
        <4>1. ~EnqueueParse(c)
          BY <1>1, <2>1, AddFacts DEF EnqueueParse
        <4> QED
          BY <1>1, <4>1 DEF CallReads, EditText, CallStep, EnqueueParseFails, HeadObject,
             MarkQueued, NewRevision, TrailingWrite, IndexListsRevisions, IndexClaims,
             IndexWrites, IndexMeters
      <3>3. ASSUME NEW k \in JobIds, k # j, JobStep(k) \/ WorkerCrash(k)
            PROVE  FALSE
        <4>1. \A row : [jobs EXCEPT ![k] = row][j] = jobs[j]
          BY <2>1, <3>3
        <4>2. ~EnqueuePoll(k)
          <5> SUFFICES ASSUME EnqueuePoll(k) PROVE FALSE
            OBVIOUS
          <5>1. CASE JobFails(k, src)
            BY <1>1, <4>1, <5>1 DEF JobFails, JobAgain, Update, JobEnds
          <5>2. CASE jobs' = [Add(jobs, PollJob(RevOf(k), jobs[k].next))
                                EXCEPT ![k] = [NoJob EXCEPT !.pc = "done"]]
            <6>1. PICK q : q = Add(jobs, PollJob(RevOf(k), jobs[k].next))
              OBVIOUS
            <6>2. q \in [JobIds -> JobRow] /\ q[j] = jobs[j]
              BY <1>1, <2>1, <6>1, AddFacts
            <6> QED
              BY <1>1, <3>3, <5>2, <6>1, <6>2
          <5> QED
            BY <5>1, <5>2 DEF EnqueuePoll
        <4> QED
          BY <1>1, <3>3, <4>1, <4>2 DEF JobStep, JobStarts, JobBegins, JobFetches, SaveToken,
             CompleteParsed, JobIndexes, JobWrites, JobMeters, JobFinishes, WorkerCrash,
             JobFails, IndexingFails, JobAgain, Update, JobEnds, JobGoto
      <3> QED
        BY <1>1, <3>1, <3>2, <3>3 DEF Next
    <2>3. CASE JobStarts(j) \/ WorkerCrash(j)
      BY <2>3 DEF JobStarts, WorkerCrash
    <2>4. CASE JobBegins(j) \/ SaveToken(j) \/ CompleteParsed(j) \/ JobFinishes(j)
      BY <2>1, <2>4, RefusedUpdate DEF JobBegins, SaveToken, CompleteParsed, JobFinishes
    <2>5. CASE JobFetches(j) \/ EnqueuePoll(j)
      BY <2>1, <2>5, RefusedFailure DEF JobFetches, EnqueuePoll
    <2>6. CASE JobIndexes(j)
      BY <2>1, <2>6, RefusedFailure, RefusedUpdate DEF JobIndexes
    <2>7. CASE JobWrites(j)
      BY <2>1, <2>7, RefusedFailure DEF JobWrites
    <2>8. CASE JobMeters(j)
      BY <2>1, <2>8, RefusedFailure DEF JobMeters
    <2> QED
      BY <2>2, <2>3, <2>4, <2>5, <2>6, <2>7, <2>8 DEF JobStep
  <1>2. IInv /\ [Next]_vars =>
          [\A j \in JobIds : jobs'[j] # jobs[j] /\ jobs[j].pc # "none" /\ RevOf(j) < revs
             => UNCHANGED <<src, docs>>]_vars
    BY <1>1
  <1> QED
    BY <1>2, Invariance, PTL DEF Spec, OldJobChangesNothing
=============================================================================
