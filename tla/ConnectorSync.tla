--------------------------- MODULE ConnectorSync ---------------------------
(***************************************************************************)
(* What a sync run does between "running" and its result: read provider    *)
(* changes page by page, apply them to the workspace's sources and advance *)
(* the durable cursor (connectors/sync-orchestrator.ts run and upsertItem, *)
(* repository/sync-state.ts), for the adapter that has a cursor            *)
(* (builtin-connector-gmail/src/adapter.ts discoverPages).                 *)
(*                                                                         *)
(* The provider holds messages with a label and a history of which message *)
(* changed.  The connector's scope selects the messages with one label.  A *)
(* message's content never changes, its label does.  Runs of the connector *)
(* exclude each other by the advisory lock (ConnectorScheduler), so there  *)
(* is one run at a time here and the generation of the cursor row, which   *)
(* tells two of them apart, is left out.                                   *)
(***************************************************************************)
EXTENDS Naturals, Sequences, FiniteSets

CONSTANTS
    Messages,
    Scopes,      \* labels a connector may be configured to index
    FirstScope,  \* the label it is created with
    Off,         \* the configuration with indexing disabled, if in Scopes
    Oversized,   \* messages larger than a billing cycle's pages on a small plan
    MaxHistory,  \* bound on the provider's history
    MaxFaults,   \* bound on crashes, errors and blocks of runs
    MaxEdits     \* bound on changes of the scope

ASSUME SyncAssumption ==
    /\ Oversized \subseteq Messages /\ FirstScope \in Scopes \ {Off}
    /\ MaxHistory \in Nat /\ MaxFaults \in Nat /\ MaxEdits \in Nat

None == "none"
Labels == (Scopes \ {Off}) \cup {"gone"}

VARIABLES
    label,    \* the provider's messages
    history,  \* the message of each change, oldest first
    floor,    \* changes at or before it are no longer listed
    scope,    \* the connector's configuration
    sources,  \* status of each message's source in the workspace
    seen,     \* sources whose syncRunId is the current run's
    cursor,   \* connector_sync_state
    run,      \* the run that holds the connector's lock
    crashed,  \* a worker died in the current run
    small,    \* the team is on a small plan
    spent

vars == <<label, history, floor, scope, small, sources, seen, cursor, run, crashed,
          spent>>

SourceStatuses == {"none", "created", "failed", "indexed", "archived"}
Cursors == 0 .. MaxHistory
Pcs == {"idle", "state", "profile", "page", "items", "index", "drop",
        "reconcile", "commit"}

\* mode     "history" from a committed cursor or "full", a scan of everything
\* id       history id of the profile;  start: the one the listing starts from
\* next     the position of the page
\* todo     items of the page to apply;  gone: ids it reports as deleted
\* left     messages the full scan has not listed yet
\* ghost    "replay": redelivered after a crash; "off": indexing was turned off
\*          while it ran.  The cursor's ghost is that of the runs behind it.
NoRun == [pc |-> "idle", scope |-> Off, mode |-> "history", id |-> 0, start |-> 0,
          next |-> 0, todo |-> {}, gone |-> {}, left |-> {}, item |-> {},
          complete |-> FALSE, failures |-> FALSE, ghost |-> {}]

NoCursor == [scope |-> None, committed |-> {}, page |-> {}, ghost |-> {}]

\* A cursor is {} or the singleton of its value.
TypeOK ==
    /\ label \in [Messages -> Labels]
    /\ history \in Seq(Messages) /\ Len(history) <= MaxHistory
    /\ floor \in Cursors /\ scope \in Scopes
    /\ sources \in [Messages -> SourceStatuses]
    /\ seen \subseteq Messages
    /\ cursor.scope \in Scopes \cup {None}
    /\ cursor.committed \subseteq Cursors /\ Cardinality(cursor.committed) <= 1
    /\ \A c \in cursor.page : c.mode \in {"history", "full"}
    /\ run.pc \in Pcs /\ run.scope \in Scopes \cup {Off}
    /\ run.id \in Cursors /\ run.start \in Cursors /\ run.next \in Cursors
    /\ run.todo \cup run.gone \cup run.left \cup run.item \subseteq Messages
    /\ run.ghost \cup cursor.ghost \subseteq {"replay", "off"}
    /\ crashed \in BOOLEAN /\ small \in BOOLEAN
    /\ spent \in [faults : 0 .. MaxFaults, edits : 0 .. MaxEdits]

Init ==
    /\ label \in [Messages -> Labels]
    /\ history = <<>> /\ floor = 0
    /\ scope = FirstScope
    /\ sources = [m \in Messages |-> "none"]
    /\ seen = {}
    /\ cursor = NoCursor
    /\ run = NoRun
    /\ crashed = FALSE /\ small = FALSE
    /\ spent = [faults |-> 0, edits |-> 0]

At(pc) == run.pc = pc
Selected(m, s) == s # Off /\ label[m] = s
Provider == <<label, history, floor, scope, small>>

-----------------------------------------------------------------------------
\* The provider and the user

\* A message arrives, is relabelled or deleted; a deleted id never returns.
MessageChanges(m, to) ==
    /\ Len(history) < MaxHistory
    /\ label[m] # to
    /\ label[m] = "gone" => \A i \in DOMAIN history : history[i] # m
    /\ label' = [label EXCEPT ![m] = to]
    /\ history' = Append(history, m)
    /\ UNCHANGED <<floor, scope, small, sources, seen, cursor, run, crashed, spent>>

HistoryExpires ==
    /\ floor < Len(history)
    /\ floor' = Len(history)
    /\ UNCHANGED <<label, history, scope, small, sources, seen, cursor, run, crashed,
                   spent>>

\* The team moves to a plan with fewer pages in a billing cycle.
PlanShrinks ==
    /\ Oversized # {} /\ ~small /\ small' = TRUE
    /\ UNCHANGED <<label, history, floor, scope, sources, seen, cursor, run, crashed,
                   spent>>

\* updateConnector with another configuration; turning indexing off archives
\* the connector's sources.
EditScope(to) ==
    /\ to # scope /\ spent.edits < MaxEdits
    /\ spent' = [spent EXCEPT !.edits = @ + 1]
    /\ scope' = to
    /\ sources' = IF to = Off
                  THEN [m \in Messages |-> IF sources[m] = "none" THEN "none"
                                           ELSE "archived"]
                  ELSE sources
    /\ LET noted == IF to = Off THEN {"off"} ELSE {} IN
       /\ run' = IF At("idle") THEN run ELSE [run EXCEPT !.ghost = @ \cup noted]
       /\ cursor' = IF cursor.committed = {} THEN cursor
                    ELSE [cursor EXCEPT !.ghost = @ \cup noted]
    /\ UNCHANGED <<label, history, floor, small, seen, crashed>>

-----------------------------------------------------------------------------
\* A run

\* A new run, or the redelivered job of the run whose worker died: it has the
\* same id, so what it saw before counts as seen.
StartRun ==
    /\ At("idle")
    /\ \/ /\ run' = [NoRun EXCEPT !.pc = "state", !.scope = scope]
          /\ seen' = {}
       \/ /\ crashed
          /\ run' = [NoRun EXCEPT !.pc = "state", !.scope = scope,
                                 !.ghost = {"replay"}]
          /\ UNCHANGED seen
    /\ crashed' = FALSE
    /\ UNCHANGED <<Provider, sources, cursor, spent>>

\* Mutation: the cursor of another scope is used.
M_keepCursor ==
    /\ At("state")
    /\ cursor' = [cursor EXCEPT !.scope = run.scope]
    /\ run' = [run EXCEPT !.pc = "profile"]
    /\ UNCHANGED <<Provider, sources, seen, crashed, spent>>

\* Another scope than the cursor's starts from nothing.
getOrResetConnectorSyncState ==
    /\ At("state")
    /\ cursor' = IF cursor.scope = run.scope THEN cursor
                 ELSE [NoCursor EXCEPT !.scope = run.scope]
    /\ run' = [run EXCEPT !.pc = "profile"]
    /\ UNCHANGED <<Provider, sources, seen, crashed, spent>>

\* A history listing goes on from the page the last run committed; a full scan
\* always begins again and keeps the history id of the profile read before it.
Incremental ==
    /\ cursor.committed # {}
    /\ \A c \in cursor.page : c.mode = "history"

FullScan(id) == [run EXCEPT !.pc = "page", !.mode = "full", !.start = id,
                            !.id = 0, !.next = 0, !.left = Messages]

ReadProfile ==
    /\ At("profile")
    /\ run' = IF run.scope = Off
              THEN [run EXCEPT !.pc = "items", !.complete = TRUE, !.mode = "off"]
              ELSE IF ~Incremental THEN FullScan(Len(history))
              ELSE LET base == CHOOSE c \in cursor.committed : TRUE IN
                   [run EXCEPT !.pc = "page", !.id = Len(history), !.start = base,
                      !.next = IF cursor.page = {} THEN base
                               ELSE (CHOOSE c \in cursor.page : TRUE).next]
    /\ UNCHANGED <<Provider, sources, seen, cursor, crashed, spent>>

\* One page of changes: each changed message is looked up as it is now.
historyPage(to) ==
    LET changed == {history[i] : i \in run.next + 1 .. to} IN
    [run EXCEPT !.pc = "items", !.next = to,
        !.todo = {m \in changed : Selected(m, run.scope)},
        !.gone = {m \in changed : ~Selected(m, run.scope)},
        !.complete = to = Len(history)]

\* One page of the scan; a message deleted since it was listed is passed over.
fullPage(listed) ==
    [run EXCEPT !.pc = "items", !.left = @ \ listed, !.gone = {},
        !.todo = {m \in listed : Selected(m, run.scope)},
        !.complete = listed = run.left]

\* An expired start makes the run scan everything instead.
FetchPage ==
    /\ At("page")
    /\ IF run.mode = "full"
       THEN \E listed \in SUBSET run.left :
              /\ listed # {} \/ run.left = {}
              /\ run' = fullPage(listed)
       ELSE IF run.start < floor THEN run' = FullScan(run.id)
       ELSE \E to \in run.next .. Len(history) :
              /\ to > run.next \/ to = Len(history)
              /\ run' = historyPage(to)
    /\ UNCHANGED <<Provider, sources, seen, cursor, crashed, spent>>

Existing(m) == sources[m] \notin {"none", "archived"}

\* shouldSkipExtract: only an indexed source is evidence that it is current.
Current(m) == sources[m] = "indexed"

TooBig(m) == small /\ m \in Oversized

\* upsertItem leaves a current source as it is, and an oversized item its last
\* version, and marks both as seen by this run.
MarkedSeen(m) == Current(m) \/ (TooBig(m) /\ Existing(m))

\* Any other item gets its content written and then indexed, except an
\* oversized one that has no source: it is passed over.
UpsertItem(m) ==
    /\ At("items") /\ m \in run.todo
    /\ LET write == ~MarkedSeen(m) /\ ~TooBig(m) IN
       /\ seen' = IF MarkedSeen(m) \/ write THEN seen \cup {m} ELSE seen
       /\ sources' = IF write THEN [sources EXCEPT ![m] = "created"] ELSE sources
       /\ run' = [run EXCEPT !.todo = @ \ {m},
                    !.pc = IF write THEN "index" ELSE @,
                    !.item = IF write THEN {m} ELSE {}]
    /\ UNCHANGED <<Provider, cursor, crashed, spent>>

IndexItem ==
    /\ At("index")
    /\ sources' = [m \in Messages |-> IF m \in run.item THEN "indexed" ELSE sources[m]]
    /\ run' = [run EXCEPT !.pc = "items", !.item = {}]
    /\ UNCHANGED <<Provider, seen, cursor, crashed, spent>>

Spend == /\ spent.faults < MaxFaults
         /\ spent' = [spent EXCEPT !.faults = @ + 1]

\* One item fails; the others of the page are still applied.
ItemFails ==
    /\ Spend
    /\ \/ /\ At("items") /\ \E m \in run.todo :
               run' = [run EXCEPT !.todo = @ \ {m}, !.failures = TRUE]
          /\ UNCHANGED sources
       \/ /\ At("index")
          /\ sources' = [m \in Messages |-> IF m \in run.item THEN "failed" ELSE sources[m]]
          /\ run' = [run EXCEPT !.pc = "items", !.item = {}, !.failures = TRUE]
    /\ UNCHANGED <<Provider, seen, cursor, crashed>>

\* Mutation: a page with failed items goes on like any other.
M_ignoreFailures ==
    /\ At("items") /\ run.todo = {}
    /\ run' = [run EXCEPT !.pc = "drop"]
    /\ UNCHANGED <<Provider, sources, seen, cursor, crashed, spent>>

\* CONNECTOR_PAGE_INCOMPLETE: a page with failures ends the run.
PageApplied ==
    /\ At("items") /\ run.todo = {}
    /\ run' = IF run.failures THEN NoRun ELSE [run EXCEPT !.pc = "drop"]
    /\ UNCHANGED <<Provider, sources, seen, cursor, crashed, spent>>

DropDeleted ==
    /\ At("drop")
    /\ IF run.gone = {}
       THEN run' = [run EXCEPT !.pc = "reconcile"] /\ UNCHANGED sources
       ELSE \E m \in run.gone :
              /\ run' = [run EXCEPT !.gone = @ \ {m}]
              /\ sources' = [sources EXCEPT ![m] =
                              IF Existing(m) THEN "archived" ELSE @]
    /\ UNCHANGED <<Provider, seen, cursor, crashed, spent>>

\* Mutation: an incomplete scan reconciles.
M_reconcileEveryPage == run.mode = "full"

ReconcileMissing == run.mode = "full" /\ run.complete

\* archiveConnectorSourcesNotSeenInRun, after the scan's last page.
Reconcile ==
    /\ At("reconcile")
    /\ sources' = IF ReconcileMissing
                  THEN [m \in Messages |-> IF Existing(m) /\ m \notin seen
                                           THEN "archived" ELSE sources[m]]
                  ELSE sources
    /\ run' = [run EXCEPT !.pc = "commit"]
    /\ UNCHANGED <<Provider, seen, cursor, crashed, spent>>

\* Mutation: the checkpoint is the history id after the page's.
M_checkpointNext == {run.next + 1}

\* Mutation: the checkpoint is the history id after the scan.
M_checkpointNow == {Len(history)}

\* The checkpoint of a complete listing: the end of the history it listed; of a
\* complete scan: the history id from before the scan.
Checkpoint ==
    IF run.mode = "history" THEN {run.next}
    ELSE IF run.mode = "full" THEN {run.start} ELSE {}

commitConnectorSyncPage ==
    /\ At("commit") /\ cursor.scope = run.scope
    /\ cursor' = IF run.complete
                 THEN [cursor EXCEPT !.committed = Checkpoint, !.page = {},
                         !.ghost = IF run.mode = "full" THEN run.ghost
                                   ELSE @ \cup (run.ghost \ {"replay"})]
                 ELSE [cursor EXCEPT !.page = {[mode |-> run.mode, next |-> run.next]}]
    /\ run' = IF run.complete THEN NoRun ELSE [run EXCEPT !.pc = "page"]
    /\ UNCHANGED <<Provider, sources, seen, crashed, spent>>

\* An error or a block ends the run wherever it is; so does its worker's death,
\* and then the queue may deliver the run again.
RunEnds ==
    /\ ~At("idle") /\ Spend
    /\ run' = NoRun
    /\ crashed' = TRUE
    /\ UNCHANGED <<Provider, sources, seen, cursor>>

Step ==
    \/ StartRun \/ getOrResetConnectorSyncState \/ ReadProfile \/ FetchPage
    \/ \E m \in Messages : UpsertItem(m)
    \/ IndexItem \/ PageApplied \/ DropDeleted \/ Reconcile
    \/ commitConnectorSyncPage

Next ==
    \/ Step \/ RunEnds \/ ItemFails \/ HistoryExpires \/ PlanShrinks
    \/ \E m \in Messages, to \in Labels : MessageChanges(m, to)
    \/ \E to \in Scopes : EditScope(to)

Spec == Init /\ [][Next]_vars

\* The scheduler keeps starting runs and a live worker goes on.
FairSpec == Spec /\ WF_vars(Step)

-----------------------------------------------------------------------------
\* Properties

\* A committed cursor of the configured scope promises something about every
\* message whose last change it covers.
Covered(m) ==
    /\ cursor.committed # {} /\ cursor.scope = scope
    /\ \A c \in cursor.committed : \A i \in c + 1 .. Len(history) : history[i] # m

\* No change is lost: a selected message whose changes the cursor covers is
\* indexed, whichever pages, crashes, failures, expiries and scopes led there.
\* The exception: turning indexing off archives the sources and keeps the cursor.
NothingMissed ==
    "off" \notin cursor.ghost => \A m \in Messages \ Oversized :
        Covered(m) /\ Selected(m, scope) => sources[m] = "indexed"

\* Nothing outlives its message: a message that is deleted or not selected, and
\* whose changes the cursor covers, is not searchable.  The exception: a full
\* scan redelivered after a crash counts what it saw before as seen.
NothingStale ==
    "replay" \notin cursor.ghost => \A m \in Messages :
        Covered(m) /\ ~Selected(m, scope) => sources[m] # "indexed"

\* Reconciliation archives a source only because its message left the scope,
\* before the scan or after it began: never because the scan is not finished,
\* its item could not be indexed or is too large for the plan.
OnlyUnselectedArchived ==
    [][\A m \in Messages :
         /\ At("reconcile") /\ run'.pc = "commit"
         /\ Existing(m) /\ sources'[m] = "archived"
         => \/ ~Selected(m, run.scope)
            \/ \E i \in run.start + 1 .. Len(history) : history[i] = m]_vars

\* Once messages and configuration stop changing, the sources become exactly
\* the selected messages and stay so.
Converges ==
    <>[](scope # Off /\ cursor.ghost = {}
         => \A m \in Messages \ Oversized :
              sources[m] = "indexed" <=> Selected(m, scope))
=============================================================================
