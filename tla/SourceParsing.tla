--------------------------- MODULE SourceParsing ---------------------------
(***************************************************************************)
(* One uploaded source from its reserved row to a searchable document:     *)
(* completing the direct upload, reparsing, indexing and editing by API    *)
(* calls (sources/service.ts, parsing-service.ts, indexing-service.ts), the*)
(* parse and poll jobs of the worker, and the sweep of abandoned uploads.  *)
(*                                                                         *)
(* What a revision's job parses is abstracted to the revision's number, so *)
(* that a text tells which job it is from.  The row's metadata is written  *)
(* as a whole, merged into what the writer read before; of it the model    *)
(* keeps currentStep and documentParsePending.                             *)
(***************************************************************************)
EXTENDS Naturals, FiniteSets

CONSTANTS
    Calls,      \* concurrent API requests on the source
    Ops,        \* what they may be: subset of {"complete", "reparse", "index", "edit"}
    Attempts,   \* SOURCE_PARSE_JOB_ATTEMPTS
    MaxPolls,   \* pollMaxAttempts of the document provider
    Sweeping,   \* whether the stale upload sweep runs
    Faults,     \* subset of {"crash", "enqueue", "reparse", "provider", "billing"}
    MaxFaults   \* bound on them

ASSUME SourceAssumption ==
    /\ Ops \subseteq {"complete", "reparse", "index", "edit"}
    /\ Faults \subseteq {"crash", "enqueue", "reparse", "provider", "billing"}
    /\ Attempts \in Nat \ {0} /\ MaxPolls \in Nat \ {0} /\ MaxFaults \in Nat
    /\ Sweeping \in BOOLEAN /\ IsFiniteSet(Calls)

VARIABLES
    src,     \* the sources row
    object,  \* the uploaded object is in the store
    old,     \* the row has not been written for an hour
    revs,    \* revisionNo of the latest source revision
    docs,    \* newest document of each revision; 0 is "no revision"
    jobs,    \* BullMQ jobs: a parse job per revision and its poll jobs
    calls,
    sweep,   \* the metadata of the row the sweep listed, if it did
    saved,   \* revisions whose provider task has been persisted
    faults

vars == <<src, object, old, revs, docs, jobs, calls, sweep, saved, faults>>

MaxRevs == Cardinality(Calls)
Revs == 1 .. MaxRevs
Edited == MaxRevs + 1
Texts == 0 .. Edited
Attempt == 0 .. MaxPolls - 1

\* The parse job of a revision, and the poll job for each provider attempt.
ParseJob(r) == <<r, 0>>
PollJob(r, k) == <<r, k + 1>>
JobIds == Revs \X (0 .. MaxPolls)
RevOf(j) == j[1]

Metas == [step : {"uploading", "queued", "parsing", "chunking", "completed", "failed"},
          pending : SUBSET (Revs \X Attempt)]
Rows == [status : {"created", "queued", "processing", "indexed", "failed"},
         content : Texts, meta : Metas]
Docs == [text : Texts, chunks : Texts]
JobPcs == {"none", "waiting", "begin", "fetch", "save", "enqueue", "complete",
           "index", "write", "meter", "finish", "done"}
CallPcs == {"new", "head", "queue", "revision", "enqueue", "trail", "list", "claim",
            "write", "meter", "done"}

Uploaded == [status |-> "created", content |-> 0,
             meta |-> [step |-> "uploading", pending |-> {}]]

\* meta, text  what the request or job read of the row
\* rev         the revision a request works on;  next: provider attempt to poll
NoJob == [pc |-> "none", tries |-> 0, meta |-> Uploaded.meta, text |-> 0, next |-> 0]
NoCall == [pc |-> "new", op |-> "none", meta |-> Uploaded.meta, text |-> 0, rev |-> 0]

TypeOK ==
    /\ src \in Rows /\ object \in BOOLEAN /\ old \in BOOLEAN
    /\ revs \in 0 .. MaxRevs
    /\ docs \in [0 .. MaxRevs -> SUBSET Docs]
    /\ \A r \in DOMAIN docs : Cardinality(docs[r]) <= 1
    /\ jobs \in [JobIds -> [pc : JobPcs, tries : 0 .. Attempts - 1, meta : Metas,
                            text : Texts, next : Attempt]]
    /\ calls \in [Calls -> [pc : CallPcs, op : Ops \cup {"none"}, meta : Metas,
                            text : Texts, rev : 0 .. MaxRevs]]
    /\ sweep \subseteq [meta : Metas, deleted : BOOLEAN]
    /\ saved \subseteq Revs /\ faults \in 0 .. MaxFaults

Init ==
    /\ src = Uploaded /\ object \in BOOLEAN /\ old = FALSE
    /\ revs = 0 /\ docs = [r \in 0 .. MaxRevs |-> {}]
    /\ jobs = [j \in JobIds |-> NoJob]
    /\ calls = [c \in Calls |-> NoCall]
    /\ sweep = {} /\ saved = {} /\ faults = 0

Fault(f) == f \in Faults /\ faults < MaxFaults /\ faults' = faults + 1

-----------------------------------------------------------------------------
\* The tables

\* updateSourceRecord: the row as given, whatever the revision.
updateSourceRecord(row) == src' = row /\ old' = FALSE

\* Mutation: the exists condition on the latest revision is missing.
M_anyRevision(r) == TRUE

\* The condition of the ...ForLatestRevision updates.
IsLatest(r) == r = revs

\* createSourceRevisionRecord, serialised by the lock on the source row.
createSourceRevisionRecord ==
    /\ revs < MaxRevs
    /\ revs' = revs + 1

\* createSourceDocumentChunksAndEmbeddings, when the revision is the latest one.
WriteDocument(r, text, chunks) ==
    /\ docs' = [docs EXCEPT ![r] = {[text |-> text, chunks |-> chunks]}]
    /\ updateSourceRecord([src EXCEPT !.status = "indexed"])

\* BullMQ adds no job whose id it still knows.
Add(q, j) == IF q[j].pc # "none" THEN q ELSE [q EXCEPT ![j].pc = "waiting"]

\* Metadata with another currentStep.
WithStep(meta, step) == [meta EXCEPT !.step = step]

-----------------------------------------------------------------------------
\* API calls

Goto(c, pc) == calls' = [calls EXCEPT ![c].pc = pc]
Return(c) ==
    calls' = [calls EXCEPT ![c] = [NoCall EXCEPT !.pc = "done",
                !.op = IF calls[c].op = "index" THEN "index" ELSE "none"]]
CallAt(c, op, pc) == calls[c].op \in op /\ calls[c].pc = pc
Queueing == {"complete", "reparse"}

\* The client puts its file; the URL is valid for ten minutes.
ClientPut ==
    /\ ~object /\ ~old /\ src.meta.step = "uploading"
    /\ object' = TRUE
    /\ UNCHANGED <<src, old, revs, docs, jobs, calls, sweep, saved, faults>>

\* Anything past uploading has been completed before.
StillUploading(row) == row.meta.step = "uploading"

\* requireContentSource, and the early return of a repeated completion.
CallReads(c, op) ==
    /\ calls[c].pc = "new" /\ op # "edit"
    /\ calls' = [calls EXCEPT ![c] = [NoCall EXCEPT !.op = op, !.meta = src.meta,
                   !.text = IF op = "index" THEN src.content ELSE 0,
                   !.pc = IF op = "reparse" THEN "queue"
                          ELSE IF op = "index" THEN "list"
                          ELSE IF StillUploading(src) THEN "head" ELSE "done"]]
    /\ UNCHANGED <<src, object, old, revs, docs, jobs, sweep, saved, faults>>

\* headSourceObject: nothing uploaded is an error that changes no row.
HeadObject(c) ==
    /\ CallAt(c, {"complete"}, "head")
    /\ IF object THEN Goto(c, "queue") ELSE Return(c)
    /\ UNCHANGED <<src, object, old, revs, docs, jobs, sweep, saved, faults>>

\* The row becomes queued, with the metadata read before.
MarkQueued(c) ==
    /\ CallAt(c, Queueing, "queue")
    /\ LET meta == WithStep(calls[c].meta, "queued") IN
       /\ updateSourceRecord([src EXCEPT !.status = "queued", !.meta = meta])
       /\ calls' = [calls EXCEPT ![c].pc = "revision", ![c].meta = meta]
    /\ UNCHANGED <<object, revs, docs, jobs, sweep, saved, faults>>

NewRevision(c) ==
    /\ CallAt(c, Queueing, "revision")
    /\ createSourceRevisionRecord
    /\ calls' = [calls EXCEPT ![c].pc = "enqueue", ![c].rev = revs']
    /\ UNCHANGED <<src, object, old, docs, jobs, sweep, saved, faults>>

\* enqueueSourceParseJob
EnqueueParse(c) ==
    /\ CallAt(c, Queueing, "enqueue")
    /\ jobs' = Add(jobs, ParseJob(calls[c].rev))
    /\ Goto(c, "trail")
    /\ UNCHANGED <<src, object, old, revs, docs, sweep, saved, faults>>

\* It fails: completeSourceUpload marks the source failed, reparseSource throws.
EnqueueParseFails(c) ==
    /\ CallAt(c, Queueing, "enqueue")
    /\ IF calls[c].op = "complete"
       THEN /\ Fault("enqueue")
            /\ updateSourceRecord([src EXCEPT !.status = "failed",
                                     !.meta = WithStep(calls[c].meta, "failed")])
       ELSE Fault("reparse") /\ UNCHANGED <<src, old>>
    /\ Return(c)
    /\ UNCHANGED <<object, revs, docs, jobs, sweep, saved>>

\* The job id is recorded in the metadata, merged into the row of MarkQueued.
TrailingWrite(c) ==
    /\ CallAt(c, Queueing, "trail")
    /\ updateSourceRecord([src EXCEPT !.meta = WithStep(calls[c].meta, "queued")])
    /\ Return(c)
    /\ UNCHANGED <<object, revs, docs, jobs, sweep, saved, faults>>

\* updateSource with a text: updateSourceRecordAndInvalidateDocuments.
EditText(c) ==
    /\ "edit" \in Ops /\ calls[c].pc = "new"
    /\ updateSourceRecord([src EXCEPT !.content = Edited, !.status = "created"])
    /\ docs' = [r \in DOMAIN docs |-> {}]
    /\ calls' = [calls EXCEPT ![c] = [NoCall EXCEPT !.pc = "done", !.op = "edit"]]
    /\ UNCHANGED <<object, revs, jobs, sweep, saved, faults>>

\* indexSource: the revision is looked up after the text was read.
IndexListsRevisions(c) ==
    /\ CallAt(c, {"index"}, "list")
    /\ calls' = [calls EXCEPT ![c].pc = "claim", ![c].rev = revs]
    /\ UNCHANGED <<src, object, old, revs, docs, jobs, sweep, saved, faults>>

\* A newer revision is an error; else processing, without a condition.
IndexClaims(c) ==
    /\ CallAt(c, {"index"}, "claim")
    /\ IF IsLatest(calls[c].rev)
       THEN /\ updateSourceRecord([src EXCEPT !.status = "processing",
                                     !.meta = calls[c].meta])
            /\ Goto(c, "write")
       ELSE Return(c) /\ UNCHANGED <<src, old>>
    /\ UNCHANGED <<object, revs, docs, jobs, sweep, saved, faults>>

\* The catch of indexSource: failed, without a condition.
IndexFailed(c) ==
    /\ updateSourceRecord([src EXCEPT !.status = "failed", !.meta = calls[c].meta])
    /\ Return(c)

IndexWrites(c) ==
    /\ CallAt(c, {"index"}, "write")
    /\ \/ /\ IsLatest(calls[c].rev)
          /\ WriteDocument(calls[c].rev, calls[c].text, calls[c].text)
          /\ Goto(c, "meter")
          /\ UNCHANGED faults
       \/ ~IsLatest(calls[c].rev) /\ IndexFailed(c) /\ UNCHANGED <<docs, faults>>
       \/ Fault("provider") /\ IndexFailed(c) /\ UNCHANGED docs
    /\ UNCHANGED <<object, revs, jobs, sweep, saved>>

IndexMeters(c) ==
    /\ CallAt(c, {"index"}, "meter")
    /\ \/ IsLatest(calls[c].rev) /\ Return(c) /\ UNCHANGED <<src, old, faults>>
       \/ ~IsLatest(calls[c].rev) /\ IndexFailed(c) /\ UNCHANGED faults
       \/ Fault("billing") /\ IndexFailed(c)
    /\ UNCHANGED <<object, revs, docs, jobs, sweep, saved>>

-----------------------------------------------------------------------------
\* Worker jobs

JobAt(j, pc) == jobs[j].pc = pc
JobGoto(j, pc) == jobs' = [jobs EXCEPT ![j].pc = pc]
JobEnds(j) == jobs' = [jobs EXCEPT ![j] = [NoJob EXCEPT !.pc = "done"]]
JobAgain(j, tries) ==
    jobs' = [jobs EXCEPT ![j] = [NoJob EXCEPT !.pc = "waiting", !.tries = tries]]

\* A conditional update by a job, which ends as a stale one when it is refused.
Update(j, row, job) ==
    IF IsLatest(RevOf(j))
    THEN updateSourceRecord(row) /\ jobs' = [jobs EXCEPT ![j] = job]
    ELSE JobEnds(j) /\ UNCHANGED <<src, old>>

\* Mutation: the last attempt is taken for one that will be retried.
M_finalAttempt(j) == jobs[j].tries > Attempts - 1

isFinalAttempt(j) == jobs[j].tries + 1 >= Attempts

\* Mutation: only the metadata says that the source failed.
M_stepOnly(j, row) == [row EXCEPT !.meta = WithStep(jobs[j].meta, "failed")]

\* failSource, from the row the job read when it started.
failSource(j, row) ==
    [row EXCEPT !.status = "failed", !.meta = WithStep(jobs[j].meta, "failed")]

\* The catch of a job: the last attempt fails the source.
JobFails(j, row) ==
    IF ~isFinalAttempt(j)
    THEN /\ JobAgain(j, jobs[j].tries + 1)
         /\ src' = row /\ old' = (old /\ row = src)
    ELSE Update(j, failSource(j, row), [NoJob EXCEPT !.pc = "done"])

\* findSourceRecord and isCurrentRevision
JobStarts(j) ==
    /\ JobAt(j, "waiting")
    /\ IF IsLatest(RevOf(j))
       THEN jobs' = [jobs EXCEPT ![j].meta = src.meta,
                       ![j].pc = IF j = ParseJob(RevOf(j)) THEN "begin" ELSE "fetch"]
       ELSE JobEnds(j)
    /\ UNCHANGED <<src, object, old, revs, docs, calls, sweep, saved, faults>>

\* savedPendingToken: the provider's attempt saved for this revision.
savedPendingToken(j) == {k \in Attempt : <<RevOf(j), k>> \in jobs[j].meta.pending}

\* A saved task is polled on; else the source is being parsed.
JobBegins(j) ==
    /\ JobAt(j, "begin")
    /\ IF savedPendingToken(j) # {}
       THEN /\ \E k \in savedPendingToken(j) :
                 jobs' = [jobs EXCEPT ![j].pc = "enqueue", ![j].next = k]
            /\ UNCHANGED <<src, old>>
       ELSE Update(j, [src EXCEPT !.status = "processing",
                         !.meta = WithStep(jobs[j].meta, "parsing")],
                   [jobs[j] EXCEPT !.pc = "fetch"])
    /\ UNCHANGED <<object, revs, docs, calls, sweep, saved, faults>>

\* The attempt number of a task that is still pending.
NextAttempt(j) == j[2]

\* Download, then submit the file or ask for the task's result: done, pending
\* or, after the last poll, timed out.
JobFetches(j) ==
    /\ JobAt(j, "fetch")
    /\ \/ /\ object
          /\ JobGoto(j, "complete")
          /\ UNCHANGED <<src, old, faults>>
       \/ /\ object /\ NextAttempt(j) \in Attempt
          /\ jobs' = [jobs EXCEPT ![j].pc = "save", ![j].next = NextAttempt(j)]
          /\ UNCHANGED <<src, old, faults>>
       \/ /\ ~object \/ NextAttempt(j) \notin Attempt
          /\ JobFails(j, src)
          /\ UNCHANGED faults
       \/ Fault("provider") /\ JobFails(j, src)
    /\ UNCHANGED <<object, revs, docs, calls, sweep, saved>>

\* The task is persisted before its poll is queued.
SaveToken(j) ==
    /\ JobAt(j, "save")
    /\ LET meta == [step |-> "parsing", pending |-> {<<RevOf(j), jobs[j].next>>}] IN
       Update(j, [src EXCEPT !.meta = meta],
              [jobs[j] EXCEPT !.pc = "enqueue",
                 !.meta = IF j = ParseJob(RevOf(j)) THEN meta ELSE @])
    /\ saved' = IF IsLatest(RevOf(j)) THEN saved \cup {RevOf(j)} ELSE saved
    /\ UNCHANGED <<object, revs, docs, calls, sweep, faults>>

EnqueuePoll(j) ==
    /\ JobAt(j, "enqueue")
    /\ \/ /\ jobs' = [Add(jobs, PollJob(RevOf(j), jobs[j].next))
                        EXCEPT ![j] = [NoJob EXCEPT !.pc = "done"]]
          /\ UNCHANGED <<src, old, faults>>
       \/ Fault("enqueue") /\ JobFails(j, src)
    /\ UNCHANGED <<object, revs, docs, calls, sweep, saved>>

\* completeParsedSource: the text, without the parse's own metadata.
Chunking == [step |-> "chunking", pending |-> {}]

CompleteParsed(j) ==
    /\ JobAt(j, "complete")
    /\ Update(j, [src EXCEPT !.content = RevOf(j), !.status = "created", !.meta = Chunking],
              [jobs[j] EXCEPT !.pc = "index"])
    /\ UNCHANGED <<object, revs, docs, calls, sweep, saved, faults>>

\* indexSourceRevision reads the row again; no pages left is refused first.
JobIndexes(j) ==
    /\ JobAt(j, "index")
    /\ \/ /\ Update(j, [src EXCEPT !.status = "processing"],
                    [jobs[j] EXCEPT !.pc = "write", !.text = src.content])
          /\ UNCHANGED faults
       \/ Fault("billing") /\ JobFails(j, src)
    /\ UNCHANGED <<object, revs, docs, calls, sweep, saved>>

\* The catch of indexSourceRevision, then the job's.
IndexingFails(j) ==
    IF IsLatest(RevOf(j))
    THEN JobFails(j, [src EXCEPT !.status = "failed", !.meta = Chunking])
    ELSE JobEnds(j) /\ UNCHANGED <<src, old>>

JobWrites(j) ==
    /\ JobAt(j, "write")
    /\ \/ /\ IsLatest(RevOf(j))
          /\ WriteDocument(RevOf(j), jobs[j].text, RevOf(j))
          /\ JobGoto(j, "meter")
          /\ UNCHANGED faults
       \/ ~IsLatest(RevOf(j)) /\ JobEnds(j) /\ UNCHANGED <<src, old, docs, faults>>
       \/ Fault("provider") /\ IndexingFails(j) /\ UNCHANGED docs
    /\ UNCHANGED <<object, revs, calls, sweep, saved>>

JobMeters(j) ==
    /\ JobAt(j, "meter")
    /\ \/ /\ IF IsLatest(RevOf(j)) THEN JobGoto(j, "finish") ELSE JobEnds(j)
          /\ UNCHANGED <<src, old, faults>>
       \/ Fault("billing") /\ IndexingFails(j)
    /\ UNCHANGED <<object, revs, docs, calls, sweep, saved>>

JobFinishes(j) ==
    /\ JobAt(j, "finish")
    /\ Update(j, [src EXCEPT !.meta = [step |-> "completed", pending |-> {}]],
              [NoJob EXCEPT !.pc = "done"])
    /\ UNCHANGED <<object, revs, docs, calls, sweep, saved, faults>>

\* The worker dies in the job; the queue delivers it again.
WorkerCrash(j) ==
    /\ jobs[j].pc \notin {"none", "waiting", "done"}
    /\ Fault("crash")
    /\ JobAgain(j, jobs[j].tries)
    /\ UNCHANGED <<src, object, old, revs, docs, calls, sweep, saved>>

-----------------------------------------------------------------------------
\* The sweep of abandoned uploads

Quiet ==
    /\ \A j \in JobIds : jobs[j].pc \in {"none", "done"}
    /\ \A c \in Calls : calls[c].pc \in {"new", "done"}

\* An hour without a write; requests and jobs do not take that long.
HourPasses ==
    /\ Sweeping /\ Quiet /\ ~old /\ src.status = "created" /\ old' = TRUE
    /\ UNCHANGED <<src, object, revs, docs, jobs, calls, sweep, saved, faults>>

\* listStaleUploadingSourceRecords: created and not written for an hour.
SweepLists ==
    /\ Sweeping /\ sweep = {} /\ src.status = "created" /\ old
    /\ sweep' = {[meta |-> src.meta, deleted |-> FALSE]}
    /\ UNCHANGED <<src, object, old, revs, docs, jobs, calls, saved, faults>>

SweepDeletesObject ==
    /\ \E w \in sweep : ~w.deleted /\ sweep' = {[w EXCEPT !.deleted = TRUE]}
    /\ object' = FALSE
    /\ UNCHANGED <<src, old, revs, docs, jobs, calls, saved, faults>>

SweepMarksFailed ==
    /\ \E w \in sweep :
         /\ w.deleted
         /\ updateSourceRecord([src EXCEPT !.status = "failed",
                                 !.meta = WithStep(w.meta, "failed")])
    /\ sweep' = {}
    /\ UNCHANGED <<object, revs, docs, jobs, calls, saved, faults>>

-----------------------------------------------------------------------------

CallStep(c) ==
    \/ HeadObject(c) \/ MarkQueued(c) \/ NewRevision(c) \/ EnqueueParse(c)
    \/ TrailingWrite(c) \/ IndexListsRevisions(c) \/ IndexClaims(c)
    \/ IndexWrites(c) \/ IndexMeters(c)

JobStep(j) ==
    \/ JobStarts(j) \/ JobBegins(j) \/ JobFetches(j) \/ SaveToken(j)
    \/ EnqueuePoll(j) \/ CompleteParsed(j) \/ JobIndexes(j) \/ JobWrites(j)
    \/ JobMeters(j) \/ JobFinishes(j)

SweepStep == HourPasses \/ SweepLists \/ SweepDeletesObject \/ SweepMarksFailed

Next ==
    \/ ClientPut \/ SweepStep
    \/ \E c \in Calls : \/ \E op \in Ops : CallReads(c, op)
                        \/ EditText(c) \/ CallStep(c) \/ EnqueueParseFails(c)
    \/ \E j \in JobIds : JobStep(j) \/ WorkerCrash(j)

Spec == Init /\ [][Next]_vars

\* Requests and jobs go on, the queue delivers and the scheduler sweeps on every
\* tick: as their steps are finitely many, no fairness between them is needed.
FairSpec ==
    Spec /\ WF_vars(\/ \E c \in Calls : CallStep(c)
                     \/ \E j \in JobIds : JobStep(j)
                     \/ SweepStep)

-----------------------------------------------------------------------------
\* Properties

\* What retrieval finds (status indexed, newest document of the latest
\* revision) is the text the row shows, from the latest revision's own parse,
\* in its chunks too: no late job of an older revision gets in between.  An edit
\* or an index request while a job embeds is the exception.
SearchableIsCurrent ==
    src.status = "indexed" /\ (\A c \in Calls : calls[c].op \notin {"index", "edit"}) =>
        \A d \in docs[revs] : d.text = src.content /\ d.chunks = src.content

\* A job of an older revision changes neither the row nor a document, however
\* long ago it last checked that it was current.
OldJobChangesNothing ==
    [][\A j \in JobIds : jobs'[j] # jobs[j] /\ jobs[j].pc # "none" /\ RevOf(j) < revs
         => UNCHANGED <<src, docs>>]_vars

\* A source does not stay created, queued or processing: it ends up indexed or
\* failed, an abandoned upload too.
SourceSettles == []<>(src.status \in {"indexed", "failed"})
=============================================================================
