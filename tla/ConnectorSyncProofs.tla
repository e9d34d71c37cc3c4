------------------------- MODULE ConnectorSyncProofs -------------------------
(***************************************************************************)
(* Theorems about ConnectorSync: for any mailbox, scopes, histories, edits *)
(* and failures of runs, what a committed cursor covers is in the          *)
(* workspace, and nothing else is searchable.                              *)
(*                                                                         *)
(* A message that did not change after some position of the history has    *)
(* the label it had there, so every part of the invariant speaks about the *)
(* messages that did not change after a position: the cursor's, the page's *)
(* or the one where a scan of everything began.                            *)
(***************************************************************************)
EXTENDS ConnectorSync, FiniteSetTheorems, SequenceTheorems, TLAPS

-----------------------------------------------------------------------------
\* The inductive invariant

Modes == {"history", "full", "off"}

RunRow == [pc : Pcs, scope : Scopes \cup {Off}, mode : Modes, id : Cursors,
           start : Cursors, next : Cursors, todo : SUBSET Messages,
           gone : SUBSET Messages, left : SUBSET Messages, item : SUBSET Messages,
           complete : BOOLEAN, failures : BOOLEAN, ghost : SUBSET {"replay", "off"}]

CursorRow == [scope : Scopes \cup {None}, committed : SUBSET Cursors,
              page : SUBSET [mode : {"history", "full"}, next : Cursors],
              ghost : SUBSET {"replay", "off"}]

Typed ==
    /\ label \in [Messages -> Labels]
    /\ history \in Seq(Messages) /\ Len(history) <= MaxHistory
    /\ floor \in Cursors /\ scope \in Scopes
    /\ sources \in [Messages -> SourceStatuses]
    /\ seen \in SUBSET Messages
    /\ cursor \in CursorRow /\ run \in RunRow
    /\ crashed \in BOOLEAN /\ small \in BOOLEAN
    /\ spent \in [faults : 0 .. MaxFaults, edits : 0 .. MaxEdits]

\* Message m changed after position x.
Changed(m, x) == \E i \in x + 1 .. Len(history) : history[i] = m

\* The run reads the mailbox, from its profile to its commit.
Listing == run.pc \in {"page", "items", "index", "drop", "reconcile", "commit"}

HistoryPages == {p \in cursor.page : p.mode = "history"}

\* What a run holds at each place.
Shaped ==
    /\ run.pc # "idle" => run.scope \in Scopes
    /\ run.pc \in {"state", "profile"} =>
          /\ run.mode = "history"
          /\ "replay" \notin run.ghost => seen = {}
    /\ run.pc \in {"state", "profile", "page", "reconcile", "commit"} => run.gone = {}
    /\ run.pc \notin {"items", "index"} => run.todo = {} /\ ~run.failures
    /\ run.pc # "index" => run.item = {}
    /\ run.item \subseteq seen
    /\ \A m \in run.item : sources[m] # "indexed"
    /\ run.pc \in {"state", "profile", "page"} => ~run.complete
    /\ run.mode = "off" => /\ run.complete /\ run.todo = {} /\ run.item = {}
                           /\ run.gone = {}
    /\ run.mode = "full" => run.gone = {} /\ (run.complete => run.left = {})

\* The positions of the cursor and of the run, in order.
Ordered ==
    /\ \A c, d \in cursor.committed : c = d
    /\ \A p, q \in cursor.page : p = q
    /\ \A c \in cursor.committed : c <= Len(history)
    /\ \A p \in HistoryPages : /\ cursor.committed # {} /\ p.next <= Len(history)
                               /\ \A c \in cursor.committed : c <= p.next
    /\ run.pc \notin {"idle", "state"} => cursor.scope = run.scope
    /\ Listing /\ run.mode = "history" =>
          /\ cursor.committed # {} /\ run.id <= Len(history) /\ run.next <= Len(history)
          /\ \A c \in cursor.committed : c <= run.next
          /\ \A p \in cursor.page : p.mode = "history" /\ p.next <= run.next

\* A message that did not change after x and is selected is indexed ...
Kept(m, x) ==
    ~Changed(m, x) /\ Selected(m, cursor.scope) => sources[m] = "indexed"

\* ... and one that is not selected is not.
Clean(m, x) ==
    ~Changed(m, x) /\ ~Selected(m, cursor.scope) => sources[m] # "indexed"

\* A selected message was selected at x, or changed since.
Chosen(m, x) == ~Changed(m, x) => Selected(m, run.scope)

\* What the committed cursor and a committed page promise.
CursorKeeps ==
    "off" \notin cursor.ghost => \A m \in Messages \ Oversized :
        /\ \A c \in cursor.committed : Kept(m, c)
        /\ \A p \in HistoryPages : Kept(m, p.next)

CursorCleans ==
    "replay" \notin cursor.ghost => \A m \in Messages :
        /\ \A c \in cursor.committed : Clean(m, c)
        /\ \A p \in HistoryPages : Clean(m, p.next)

\* What a listing of the history has done up to its position.
HistoryDone ==
    Listing /\ run.mode = "history" =>
        /\ "off" \notin cursor.ghost /\ ~run.failures =>
              \A m \in Messages \ (Oversized \cup run.todo \cup run.item) :
                 Kept(m, run.next)
        /\ "replay" \notin cursor.ghost =>
              \A m \in Messages \ run.gone : Clean(m, run.next)
        /\ \A m \in run.gone : Selected(m, run.scope) => Changed(m, run.next)
        /\ \A m \in run.todo \cup run.item : Chosen(m, run.next) /\ Chosen(m, run.id)
        /\ "replay" \notin run.ghost => \A m \in seen : Chosen(m, run.id)

\* What a scan that began at position from has done so far.
ScannedFrom(from) ==
    /\ \A c \in cursor.committed : c <= from
    /\ \A p \in HistoryPages : p.next <= from
    /\ \A m \in run.todo \cup run.item : Chosen(m, from)
    /\ ~run.failures => \A m \in Messages \ (run.left \cup run.todo) :
          ~Changed(m, from) /\ Selected(m, run.scope) =>
              /\ m \in seen \/ ~Existing(m)
              /\ "off" \notin run.ghost /\ m \notin Oversized =>
                    m \in run.item \/ sources[m] = "indexed"

ScanDone ==
    Listing /\ run.mode = "full" =>
        /\ \E from \in run.start .. Len(history) : ScannedFrom(from)
        /\ "replay" \notin run.ghost => \A m \in seen : Chosen(m, run.start)
        /\ run.pc = "commit" /\ run.complete /\ "replay" \notin run.ghost =>
              \A m \in Messages : Clean(m, run.start)

IInv == /\ Typed /\ Shaped /\ Ordered /\ CursorKeeps /\ CursorCleans
        /\ HistoryDone /\ ScanDone

-----------------------------------------------------------------------------
\* Helpers

LEMMA NoRunTyped == NoRun \in RunRow
  BY SyncAssumption DEF NoRun, RunRow, Modes, Pcs, Cursors

LEMMA InitKeeps == Init => IInv
  <1> SUFFICES ASSUME Init PROVE IInv
    OBVIOUS
  <1>1. cursor \in CursorRow
    BY DEF Init, CursorRow, NoCursor
  <1>2. history \in Seq(Messages) /\ Len(history) = 0
    BY DEF Init
  <1>a. floor \in Cursors /\ Len(history) <= MaxHistory /\ scope \in Scopes
    BY <1>2, SyncAssumption DEF Init, Cursors
  <1>b. sources \in [Messages -> SourceStatuses]
    BY DEF Init, SourceStatuses
  <1>c. spent \in [faults : 0 .. MaxFaults, edits : 0 .. MaxEdits]
    BY SyncAssumption DEF Init
  <1>3. Typed
    BY <1>1, <1>2, <1>a, <1>b, <1>c, NoRunTyped DEF Init, Typed
  <1>4. run.pc = "idle" /\ cursor.committed = {} /\ cursor.page = {} /\ HistoryPages = {}
    BY DEF Init, NoRun, NoCursor, HistoryPages
  <1>5. Shaped
    BY DEF Init, NoRun, Shaped
  <1>6. ~Listing
    BY <1>4 DEF Listing
  <1> QED
    BY <1>3, <1>4, <1>5, <1>6 DEF IInv, Ordered, CursorKeeps, CursorCleans, HistoryDone,
       ScanDone

\* Nothing the invariant speaks about changes.
LEMMA FrameKeeps ==
    ASSUME IInv, Typed', UNCHANGED <<label, history, sources, seen, cursor, run>>
    PROVE  IInv'
  <1>1. \A m, x : (Changed(m, x))' = Changed(m, x)
    BY DEF Changed
  <1>2. \A m, s : (Selected(m, s))' = Selected(m, s)
    BY DEF Selected
  <1>3. HistoryPages' = HistoryPages /\ Listing' = Listing
    BY DEF HistoryPages, Listing
  <1>4. \A m, x : (Kept(m, x))' = Kept(m, x) /\ (Clean(m, x))' = Clean(m, x)
                  /\ (Chosen(m, x))' = Chosen(m, x)
    BY <1>1, <1>2 DEF Kept, Clean, Chosen
  <1>5. Shaped'
    BY DEF IInv, Shaped
  <1>6. Ordered'
    BY <1>3 DEF IInv, Ordered
  <1>7. CursorKeeps' /\ CursorCleans'
    BY <1>3, <1>4 DEF IInv, CursorKeeps, CursorCleans
  <1>8. HistoryDone'
    BY <1>1, <1>2, <1>3, <1>4 DEF IInv, HistoryDone
  <1>9. \A x : (ScannedFrom(x))' = ScannedFrom(x)
    BY <1>1, <1>2, <1>3, <1>4 DEF ScannedFrom, Existing
  <1>10. ScanDone'
    BY <1>3, <1>4, <1>9 DEF IInv, ScanDone
  <1> QED
    BY <1>5, <1>6, <1>7, <1>8, <1>10 DEF IInv

\* A message that did not change after x, after one more change, did not
\* change before it and has the label it had.
LEMMA StillSame ==
    ASSUME Typed, NEW n \in Messages, NEW to \in Labels, MessageChanges(n, to)
    PROVE  /\ history' \in Seq(Messages) /\ Len(history') = Len(history) + 1
           /\ label' \in [Messages -> Labels]
           /\ \A m \in Messages, x \in 0 .. Len(history) :
                /\ ~(Changed(m, x))' => ~Changed(m, x) /\ label'[m] = label[m]
                /\ Changed(m, x) => (Changed(m, x))'
  <1> DEFINE L == Len(history)
  <1>1. history \in Seq(Messages) /\ history' = Append(history, n) /\ L \in Nat
    BY LenProperties DEF Typed, MessageChanges
  <1>2. /\ history' \in Seq(Messages) /\ Len(history') = L + 1
        /\ \A i \in 1 .. L : history'[i] = history[i]
        /\ history'[L + 1] = n
    BY <1>1, AppendProperties
  <1>3. label' \in [Messages -> Labels] /\ \A m \in Messages \ {n} : label'[m] = label[m]
    BY DEF Typed, MessageChanges
  <1>4. ASSUME NEW m \in Messages, NEW x \in 0 .. L
        PROVE  /\ ~(Changed(m, x))' => ~Changed(m, x) /\ label'[m] = label[m]
               /\ Changed(m, x) => (Changed(m, x))'
    <2>1. Changed(m, x) => (Changed(m, x))'
      BY <1>1, <1>2 DEF Changed
    <2>2. (Changed(n, x))'
      BY <1>1, <1>2 DEF Changed
    <2> QED
      BY <1>3, <2>1, <2>2
  <1> QED
    BY <1>2, <1>3, <1>4

LEMMA MessageChangesKeeps ==
    ASSUME IInv, NEW n \in Messages, NEW to \in Labels, MessageChanges(n, to)
    PROVE  IInv'
  <1> DEFINE L == Len(history)
  <1>1. Typed /\ Shaped /\ Ordered
    BY DEF IInv
  <1>2. /\ history' \in Seq(Messages) /\ Len(history') = L + 1 /\ L \in Nat
        /\ label' \in [Messages -> Labels]
        /\ \A m \in Messages, x \in 0 .. L :
             /\ ~(Changed(m, x))' => ~Changed(m, x) /\ label'[m] = label[m]
             /\ Changed(m, x) => (Changed(m, x))'
    BY <1>1, StillSame, LenProperties DEF Typed
  <1>3. UNCHANGED <<floor, scope, small, sources, seen, cursor, run, crashed, spent>>
    BY DEF MessageChanges
  <1>4. Typed'
    <2>1. L < MaxHistory
      BY DEF MessageChanges
    <2> QED
      BY <1>1, <1>2, <1>3, <2>1, SyncAssumption DEF Typed
  <1>5. Shaped'
    BY <1>1, <1>3 DEF Shaped
  <1>6. HistoryPages' = HistoryPages /\ Listing' = Listing
    BY <1>3 DEF HistoryPages, Listing
  <1>7. Ordered'
    <2>1. \A c \in cursor.committed : c \in Nat
      BY <1>1 DEF Typed, CursorRow, Cursors
    <2>2. \A p \in cursor.page : p.next \in Nat
      BY <1>1 DEF Typed, CursorRow, Cursors
    <2>3. run.id \in Nat /\ run.next \in Nat
      BY <1>1 DEF Typed, RunRow, Cursors
    <2>4. HistoryPages \subseteq cursor.page
      BY DEF HistoryPages
    <2> QED
      BY <1>1, <1>2, <1>3, <1>6, <2>1, <2>2, <2>3, <2>4 DEF Ordered
  <1>9. \A m \in Messages, x \in 0 .. L :
          /\ Kept(m, x) => (Kept(m, x))'
          /\ Clean(m, x) => (Clean(m, x))'
          /\ Chosen(m, x) => (Chosen(m, x))'
    BY <1>2, <1>3 DEF Kept, Clean, Chosen, Selected
  <1>10. \A c \in cursor.committed : c \in 0 .. L
    BY <1>1, <1>2 DEF Typed, CursorRow, Cursors, Ordered
  <1>11. \A p \in HistoryPages : p.next \in 0 .. L
    BY <1>1, <1>2 DEF Typed, CursorRow, Cursors, Ordered, HistoryPages
  <1>12. CursorKeeps' /\ CursorCleans'
    BY <1>3, <1>6, <1>9, <1>10, <1>11 DEF IInv, CursorKeeps, CursorCleans
  <1>13. HistoryDone'
    <2>1. Listing /\ run.mode = "history" => run.id \in 0 .. L /\ run.next \in 0 .. L
      BY <1>1, <1>2 DEF Ordered, Typed, RunRow, Cursors
    <2>2. run.todo \cup run.item \subseteq Messages /\ seen \subseteq Messages
          /\ run.gone \subseteq Messages
      BY <1>1 DEF Typed, RunRow
    <2>3. \A m \in run.gone : Listing /\ run.mode = "history" /\ (Selected(m, run.scope))'
            => (Changed(m, run.next))'
      BY <1>2, <1>3, <2>1, <2>2 DEF IInv, HistoryDone, Selected
    <2> QED
      BY <1>3, <1>6, <1>9, <2>1, <2>2, <2>3 DEF IInv, HistoryDone
  <1>14. ScanDone'
    <2> SUFFICES ASSUME Listing, run.mode = "full" PROVE ScanDone'
      BY <1>3, <1>6 DEF ScanDone
    <2>1. run.start \in Nat /\ run.left \subseteq Messages /\ run.todo \subseteq Messages
          /\ run.item \subseteq Messages /\ seen \subseteq Messages
      BY <1>1 DEF Typed, RunRow, Cursors
    <2>2. PICK from \in run.start .. L : ScannedFrom(from)
      BY DEF IInv, ScanDone
    <2>3. from \in 0 .. L /\ run.start \in 0 .. L
      BY <1>2, <2>1
    <2>4. (ScannedFrom(from))'
      <3>1. \A m \in Messages : ~(Changed(m, from))' /\ (Selected(m, run.scope))'
               => ~Changed(m, from) /\ Selected(m, run.scope)
        BY <1>2, <1>3, <2>3 DEF Selected
      <3>2. \A m : (Existing(m))' = Existing(m)
        BY <1>3 DEF Existing
      <3> QED
        BY <1>3, <1>6, <1>9, <2>1, <2>2, <2>3, <3>1, <3>2 DEF ScannedFrom
    <2>5. from \in (run.start .. Len(history))'
      BY <1>2, <1>3, <2>3
    <2> QED
      BY <1>3, <1>6, <1>9, <2>1, <2>3, <2>4, <2>5 DEF IInv, ScanDone
  <1> QED
    BY <1>4, <1>5, <1>7, <1>12, <1>13, <1>14 DEF IInv

\* The listed history expires, or the plan shrinks.
LEMMA ProviderKeeps ==
    ASSUME IInv, HistoryExpires \/ PlanShrinks
    PROVE  IInv'
  <1>1. UNCHANGED <<label, history, scope, sources, seen, cursor, run, crashed, spent>>
    BY DEF HistoryExpires, PlanShrinks
  <1>2. floor' \in Cursors /\ small' \in BOOLEAN
    <2>1. Len(history) \in Cursors
      BY SyncAssumption, LenProperties DEF IInv, Typed, Cursors
    <2>2. CASE HistoryExpires
      BY <2>1, <2>2 DEF HistoryExpires, IInv, Typed
    <2>3. CASE PlanShrinks
      BY <2>3 DEF PlanShrinks, IInv, Typed
    <2> QED
      BY <2>2, <2>3
  <1>3. Typed'
    BY <1>1, <1>2 DEF IInv, Typed
  <1> QED
    BY <1>1, <1>3, FrameKeeps

\* No run: nothing to show about one.
LEMMA IdleKeeps ==
    ASSUME IInv, Typed', Ordered', run' = NoRun, UNCHANGED <<label, history, sources>>,
           CursorKeeps', CursorCleans'
    PROVE  IInv'
  <1>1. run'.pc = "idle" /\ run'.mode = "history" /\ run'.gone = {} /\ run'.todo = {}
        /\ run'.item = {} /\ ~run'.failures /\ ~run'.complete
    BY DEF NoRun
  <1>2. Shaped'
    BY <1>1 DEF Shaped
  <1>3. ~Listing'
    BY <1>1 DEF Listing
  <1> QED
    BY <1>2, <1>3 DEF IInv, HistoryDone, ScanDone

\* The cursor's promise while neither it nor the mailbox changes, and no source
\* loses or gets an index.
LEMMA CursorSame ==
    ASSUME IInv, UNCHANGED <<label, history, cursor>>,
           \A m \in Messages : sources'[m] = "indexed" <=> sources[m] = "indexed"
    PROVE  CursorKeeps' /\ CursorCleans'
  <1>1. \A m, x : (Changed(m, x))' = Changed(m, x)
    BY DEF Changed
  <1>2. HistoryPages' = HistoryPages
    BY DEF HistoryPages
  <1>3. \A m \in Messages : \A x : (Kept(m, x))' = Kept(m, x) /\ (Clean(m, x))' = Clean(m, x)
    BY <1>1 DEF Kept, Clean, Selected
  <1> QED
    BY <1>2, <1>3 DEF IInv, CursorKeeps, CursorCleans

\* An ended run leaves what the cursor promises as it is.
LEMMA RunEndsKeeps ==
    ASSUME IInv, run' = NoRun, UNCHANGED <<label, history, floor, scope, small, sources,
             seen, cursor>>, crashed' \in BOOLEAN,
           spent' \in [faults : 0 .. MaxFaults, edits : 0 .. MaxEdits]
    PROVE  IInv'
  <1>1. Typed'
    BY NoRunTyped DEF IInv, Typed
  <1>2. run'.pc = "idle" /\ HistoryPages' = HistoryPages
    BY DEF NoRun, HistoryPages
  <1>3. Ordered'
    BY <1>2 DEF IInv, Ordered, Listing
  <1>4. CursorKeeps' /\ CursorCleans'
    BY CursorSame
  <1> QED
    BY <1>1, <1>3, <1>4, IdleKeeps

LEMMA EditScopeKeeps ==
    ASSUME IInv, NEW to \in Scopes, EditScope(to)
    PROVE  IInv'
  <1> DEFINE noted == IF to = Off THEN {"off"} ELSE {}
  <1>1. Typed /\ Shaped /\ Ordered
    BY DEF IInv
  <1>2. UNCHANGED <<label, history, floor, small, seen, crashed>> /\ scope' = to
    BY DEF EditScope
  <1>3. \A m, x : (Changed(m, x))' = Changed(m, x)
    BY <1>2 DEF Changed
  <1>4. \A m, s : (Selected(m, s))' = Selected(m, s)
    BY <1>2 DEF Selected
  <1>5. /\ run'.pc = run.pc /\ run'.scope = run.scope /\ run'.mode = run.mode
        /\ run'.id = run.id /\ run'.start = run.start /\ run'.next = run.next
        /\ run'.todo = run.todo /\ run'.gone = run.gone /\ run'.left = run.left
        /\ run'.item = run.item /\ run'.complete = run.complete
        /\ run'.failures = run.failures /\ run' \in RunRow
        /\ run'.ghost = IF run.pc = "idle" THEN run.ghost ELSE run.ghost \cup noted
    <2>1. PICK new : new = [run EXCEPT !.ghost = @ \cup noted]
      OBVIOUS
    <2>2. new \in RunRow /\ new.ghost = run.ghost \cup noted
      BY <1>1, <2>1 DEF Typed, RunRow
    <2>3. /\ new.pc = run.pc /\ new.scope = run.scope /\ new.mode = run.mode
          /\ new.id = run.id /\ new.start = run.start /\ new.next = run.next
          /\ new.todo = run.todo /\ new.gone = run.gone /\ new.left = run.left
          /\ new.item = run.item /\ new.complete = run.complete
          /\ new.failures = run.failures
      BY <1>1, <2>1 DEF Typed, RunRow
    <2>4. run' = IF run.pc = "idle" THEN run ELSE new
      BY <2>1 DEF EditScope, At
    <2> QED
      BY <1>1, <2>2, <2>3, <2>4 DEF Typed
  <1>6. /\ cursor'.scope = cursor.scope /\ cursor'.committed = cursor.committed
        /\ cursor'.page = cursor.page /\ cursor' \in CursorRow
        /\ cursor'.ghost = IF cursor.committed = {} THEN cursor.ghost
                           ELSE cursor.ghost \cup noted
    BY <1>1 DEF Typed, CursorRow, EditScope
  <1>7. /\ sources' \in [Messages -> SourceStatuses]
        /\ \A m \in Messages : sources'[m] = "indexed" => sources[m] = "indexed"
        /\ \A m \in Messages : (Existing(m))' => Existing(m)
        /\ (to # Off => sources' = sources)
    <2>1. CASE to = Off
      BY <1>1, <2>1 DEF Typed, EditScope, SourceStatuses, Existing
    <2>2. CASE to # Off
      BY <1>1, <2>2 DEF Typed, EditScope, Existing
    <2> QED
      BY <2>1, <2>2
  <1>8. Typed'
    <2>1. spent' \in [faults : 0 .. MaxFaults, edits : 0 .. MaxEdits]
      BY <1>1, SyncAssumption DEF Typed, EditScope
    <2> QED
      BY <1>1, <1>2, <1>5, <1>6, <1>7, <2>1 DEF Typed
  <1>9. Shaped'
    BY <1>1, <1>2, <1>5, <1>7 DEF Shaped, Typed, RunRow
  <1>10. HistoryPages' = HistoryPages /\ Listing' = Listing
    BY <1>5, <1>6 DEF HistoryPages, Listing
  <1>11. Ordered'
    BY <1>1, <1>2, <1>5, <1>6, <1>10 DEF Ordered
  <1>12. \A m \in Messages : \A x : /\ Clean(m, x) => (Clean(m, x))'
                                    /\ (Chosen(m, x))' = Chosen(m, x)
                                    /\ to # Off /\ Kept(m, x) => (Kept(m, x))'
    <2>1. \A m \in Messages : \A x : Clean(m, x) => (Clean(m, x))'
      BY <1>3, <1>4, <1>6, <1>7 DEF Clean
    <2>2. \A m \in Messages : \A x : (Chosen(m, x))' = Chosen(m, x)
      BY <1>3, <1>4, <1>5 DEF Chosen
    <2>3. \A m \in Messages : \A x : to # Off /\ Kept(m, x) => (Kept(m, x))'
      <3>1. CASE to # Off
        <4>1. sources' = sources /\ cursor'.scope = cursor.scope
          BY <1>6, <1>7, <3>1
        <4> QED
          BY <1>3, <1>4, <4>1 DEF Kept
      <3> QED
        BY <3>1
    <2> QED
      BY <2>1, <2>2, <2>3
  <1>13. CursorKeeps'
    <2>1. CASE to = Off /\ cursor.committed # {}
      BY <1>6, <2>1 DEF CursorKeeps
    <2>2. CASE cursor.committed = {}
      BY <1>1, <1>6, <1>10, <2>2 DEF CursorKeeps, Ordered
    <2>3. CASE to # Off
      BY <1>6, <1>10, <1>12, <2>3 DEF CursorKeeps, IInv
    <2> QED
      BY <2>1, <2>2, <2>3
  <1>14. CursorCleans'
    BY <1>6, <1>10, <1>12 DEF CursorCleans, IInv
  <1>15. HistoryDone'
    <2> SUFFICES ASSUME Listing, run.mode = "history" PROVE HistoryDone'
      BY <1>5, <1>10 DEF HistoryDone
    <2>1. cursor.committed # {} /\ run.pc # "idle"
      BY <1>1 DEF Ordered, Listing
    <2>2. to = Off => "off" \in cursor'.ghost
      BY <1>6, <2>1
    <2>3. "off" \notin cursor'.ghost => to # Off /\ "off" \notin cursor.ghost
      BY <1>6, <2>2
    <2>4. "replay" \notin cursor'.ghost => "replay" \notin cursor.ghost
      BY <1>6
    <2>5. "replay" \notin run'.ghost => "replay" \notin run.ghost
      BY <1>5
    <2>6. run.todo \cup run.item \subseteq Messages /\ seen \subseteq Messages
      BY <1>1 DEF Typed, RunRow
    <2>7. HistoryDone
      BY DEF IInv
    <2> QED
      BY <1>2, <1>3, <1>4, <1>5, <1>10, <1>12, <2>3, <2>4, <2>5, <2>6, <2>7 DEF HistoryDone
  <1>16. ScanDone'
    <2> SUFFICES ASSUME Listing, run.mode = "full" PROVE ScanDone'
      BY <1>5, <1>10 DEF ScanDone
    <2>1. "off" \notin run'.ghost => to # Off /\ "off" \notin run.ghost
      BY <1>5 DEF Listing
    <2>2. "replay" \notin run'.ghost => "replay" \notin run.ghost
      BY <1>5
    <2>3. run.todo \cup run.item \subseteq Messages /\ seen \subseteq Messages
      BY <1>1 DEF Typed, RunRow
    <2>4. ASSUME NEW x, ScannedFrom(x) PROVE (ScannedFrom(x))'
      <3>1. /\ \A c \in cursor'.committed : c <= x
            /\ \A p \in HistoryPages' : p.next <= x
        BY <1>6, <1>10, <2>4 DEF ScannedFrom
      <3>2. \A m \in run'.todo \cup run'.item : (Chosen(m, x))'
        BY <1>5, <1>12, <2>3, <2>4 DEF ScannedFrom
      <3>3. ASSUME ~run'.failures, NEW m \in Messages \ (run'.left \cup run'.todo),
                   ~(Changed(m, x))', (Selected(m, run.scope))'
            PROVE  /\ m \in seen \/ ~(Existing(m))'
                   /\ "off" \notin run'.ghost /\ m \notin Oversized =>
                         m \in run'.item \/ sources'[m] = "indexed"
        <4>1. ~Changed(m, x) /\ Selected(m, run.scope)
          BY <1>3, <1>4, <1>5, <3>3
        <4>2. /\ m \in seen \/ ~Existing(m)
              /\ "off" \notin run.ghost /\ m \notin Oversized =>
                    m \in run.item \/ sources[m] = "indexed"
          BY <1>5, <2>4, <3>3, <4>1 DEF ScannedFrom
        <4>3. m \in Messages /\ (to # Off => sources' = sources)
          BY <1>7
        <4>4. m \in seen \/ ~(Existing(m))'
          BY <1>7, <4>2
        <4> QED
          BY <1>5, <2>1, <4>2, <4>3, <4>4
      <3> QED
        BY <1>2, <3>1, <3>2, <3>3, <1>5 DEF ScannedFrom
    <2>5. ScanDone
      BY DEF IInv
    <2> QED
      BY <1>2, <1>5, <1>10, <1>12, <2>2, <2>3, <2>4, <2>5 DEF ScanDone
  <1> QED
    BY <1>8, <1>9, <1>11, <1>13, <1>14, <1>15, <1>16 DEF IInv

-----------------------------------------------------------------------------
\* The steps of a run

LEMMA StartRunKeeps ==
    ASSUME IInv, StartRun
    PROVE  IInv'
  <1>1. Typed /\ Shaped /\ Ordered
    BY DEF IInv
  <1>2. UNCHANGED <<label, history, floor, scope, small, sources, cursor, spent>>
        /\ crashed' = FALSE
    BY DEF StartRun, Provider
  <1>3. /\ run' \in RunRow /\ run'.pc = "state" /\ run'.scope = scope
        /\ run'.mode = "history" /\ run'.todo = {} /\ run'.gone = {} /\ run'.item = {}
        /\ ~run'.failures /\ ~run'.complete
        /\ "replay" \notin run'.ghost => seen' = {}
        /\ seen' \in SUBSET Messages
    <2>1. scope \in Scopes /\ seen \in SUBSET Messages
      BY <1>1 DEF Typed
    <2>2. CASE run' = [NoRun EXCEPT !.pc = "state", !.scope = scope] /\ seen' = {}
      <3>1. run' \in RunRow
        BY <2>1, <2>2, NoRunTyped DEF RunRow, Pcs
      <3> QED
        BY <2>1, <2>2, <3>1 DEF NoRun
    <2>3. CASE run' = [NoRun EXCEPT !.pc = "state", !.scope = scope,
                                    !.ghost = {"replay"}] /\ seen' = seen
      <3>1. run' \in RunRow
        BY <2>1, <2>3, NoRunTyped DEF RunRow, Pcs
      <3> QED
        BY <2>1, <2>3, <3>1 DEF NoRun
    <2> QED
      BY <2>2, <2>3 DEF StartRun
  <1>4. Typed'
    BY <1>1, <1>2, <1>3 DEF Typed
  <1>5. Shaped'
    BY <1>1, <1>2, <1>3 DEF Shaped, Typed
  <1>6. HistoryPages' = HistoryPages /\ ~Listing'
    BY <1>2, <1>3 DEF HistoryPages, Listing
  <1>7. Ordered'
    BY <1>1, <1>2, <1>3, <1>6 DEF Ordered
  <1>8. CursorKeeps' /\ CursorCleans'
    BY <1>2, CursorSame
  <1> QED
    BY <1>4, <1>5, <1>6, <1>7, <1>8 DEF IInv, HistoryDone, ScanDone

\* A run moves on and leaves the workspace, the mailbox and the cursor as they
\* are, before it has listed anything.
LEMMA ResetCursorKeeps ==
    ASSUME IInv, getOrResetConnectorSyncState
    PROVE  IInv'
  <1>1. Typed /\ Shaped /\ Ordered
    BY DEF IInv
  <1>2. run.pc = "state"
        /\ UNCHANGED <<label, history, floor, scope, small, sources, seen, crashed, spent>>
    BY DEF getOrResetConnectorSyncState, At, Provider
  <1>3. /\ run' \in RunRow /\ run'.pc = "profile" /\ run'.scope = run.scope
        /\ run'.mode = run.mode /\ run'.todo = run.todo /\ run'.gone = run.gone
        /\ run'.item = run.item /\ run'.failures = run.failures
        /\ run'.complete = run.complete /\ run'.ghost = run.ghost
    <2>1. PICK new : new = [run EXCEPT !.pc = "profile"]
      OBVIOUS
    <2>2. new \in RunRow /\ new.pc = "profile" /\ new.scope = run.scope
          /\ new.mode = run.mode /\ new.todo = run.todo /\ new.gone = run.gone
          /\ new.item = run.item /\ new.failures = run.failures
          /\ new.complete = run.complete /\ new.ghost = run.ghost
      BY <1>1, <2>1 DEF Typed, RunRow, Pcs
    <2> QED
      BY <2>1, <2>2 DEF getOrResetConnectorSyncState
  <1>4. Shaped'
    BY <1>1, <1>2, <1>3 DEF Shaped
  <1>5. ~Listing'
    BY <1>3 DEF Listing
  <1>6. Typed' /\ Ordered' /\ CursorKeeps' /\ CursorCleans'
    <2>1. CASE cursor.scope = run.scope
      <3>1. cursor' = cursor
        BY <2>1 DEF getOrResetConnectorSyncState
      <3>2. HistoryPages' = HistoryPages
        BY <3>1 DEF HistoryPages
      <3> QED
        BY <1>1, <1>2, <1>3, <1>5, <2>1, <3>1, <3>2, CursorSame DEF Typed, Ordered
    <2>2. CASE cursor.scope # run.scope
      <3>1. /\ cursor'.scope = run.scope /\ cursor'.committed = {} /\ cursor'.page = {}
            /\ cursor' \in CursorRow
        <4>1. run.scope \in Scopes
          BY <1>1, <1>2 DEF Shaped
        <4> QED
          BY <2>2, <4>1 DEF getOrResetConnectorSyncState, NoCursor, CursorRow
      <3>2. HistoryPages' = {}
        BY <3>1 DEF HistoryPages
      <3>3. Typed'
        BY <1>1, <1>2, <1>3, <3>1 DEF Typed
      <3> QED
        BY <1>3, <1>5, <3>1, <3>2, <3>3 DEF Ordered, CursorKeeps, CursorCleans
    <2> QED
      BY <2>1, <2>2
  <1> QED
    BY <1>4, <1>5, <1>6 DEF IInv, HistoryDone, ScanDone

\* A mailbox that does not change.
LEMMA SameMailbox ==
    ASSUME UNCHANGED <<label, history>>
    PROVE  /\ \A m, x : (Changed(m, x))' = Changed(m, x)
           /\ \A m, s : (Selected(m, s))' = Selected(m, s)
  BY DEF Changed, Selected

\* A change after a position is one after any earlier position.
LEMMA LaterChange ==
    ASSUME NEW m, NEW x \in Nat, NEW y \in Nat, x <= y, history \in Seq(Messages),
           Changed(m, y)
    PROVE  Changed(m, x)
  <1>1. Len(history) \in Nat
    BY LenProperties
  <1> QED
    BY <1>1 DEF Changed

\* A scan of everything begins at the end of the history.
LEMMA ScanBegins ==
    ASSUME IInv, NEW id \in 0 .. Len(history), run.pc \in {"profile", "page"},
           run' = FullScan(id), UNCHANGED <<Provider, sources, seen, cursor, crashed, spent>>,
           cursor.scope = run.scope,
           "replay" \notin run.ghost => \A m \in seen : Chosen(m, id)
    PROVE  IInv'
  <1>1. Typed /\ Shaped /\ Ordered
    BY DEF IInv
  <1>2. UNCHANGED <<label, history, floor, scope, small, sources, seen, cursor, crashed,
                    spent>>
    BY DEF Provider
  <1>3. history \in Seq(Messages) /\ Len(history) \in Nat /\ id \in Cursors /\ 0 \in Cursors
    BY <1>1, LenProperties, SyncAssumption DEF Typed, Cursors
  <1>4. /\ run' \in RunRow /\ run'.pc = "page" /\ run'.scope = run.scope
        /\ run'.mode = "full" /\ run'.todo = run.todo /\ run'.gone = run.gone
        /\ run'.item = run.item /\ run'.failures = run.failures
        /\ run'.complete = run.complete /\ run'.ghost = run.ghost
        /\ run'.start = id /\ run'.left = Messages
    <2>1. PICK new : new = [run EXCEPT !.pc = "page", !.mode = "full", !.start = id,
                                       !.id = 0, !.next = 0, !.left = Messages]
      OBVIOUS
    <2>2. new \in RunRow /\ new.pc = "page" /\ new.scope = run.scope
          /\ new.mode = "full" /\ new.todo = run.todo /\ new.gone = run.gone
          /\ new.item = run.item /\ new.failures = run.failures
          /\ new.complete = run.complete /\ new.ghost = run.ghost
          /\ new.start = id /\ new.left = Messages
      BY <1>1, <1>3, <2>1 DEF Typed, RunRow, Pcs, Modes
    <2> QED
      BY <2>1, <2>2 DEF FullScan
  <1>5. /\ run.todo = {} /\ run.gone = {} /\ run.item = {} /\ ~run.failures
        /\ ~run.complete /\ run.scope \in Scopes
    BY <1>1 DEF Shaped
  <1>6. Typed'
    BY <1>1, <1>2, <1>4 DEF Typed
  <1>7. Shaped'
    BY <1>1, <1>4, <1>5 DEF Shaped
  <1>8. HistoryPages' = HistoryPages
    BY <1>2 DEF HistoryPages
  <1>9. Ordered'
    BY <1>1, <1>2, <1>4, <1>8 DEF Ordered
  <1>10. CursorKeeps' /\ CursorCleans'
    BY <1>2, CursorSame
  <1>11. HistoryDone'
    BY <1>4 DEF HistoryDone
  <1>12. ScanDone'
    <2>1. (ScannedFrom(Len(history)))'
      BY <1>1, <1>2, <1>4, <1>5, <1>8 DEF ScannedFrom, Ordered
    <2>2. Len(history) \in id .. Len(history)
      BY <1>3
    <2>3. \A m \in seen : (Chosen(m, id))' = Chosen(m, id)
      BY <1>2, <1>4, SameMailbox DEF Chosen
    <2> QED
      BY <1>2, <1>4, <2>1, <2>2, <2>3 DEF ScanDone
  <1> QED
    BY <1>6, <1>7, <1>9, <1>10, <1>11, <1>12 DEF IInv

LEMMA ReadProfileKeeps ==
    ASSUME IInv, ReadProfile
    PROVE  IInv'
  <1> DEFINE L == Len(history)
             base == CHOOSE c \in cursor.committed : TRUE
             from == IF cursor.page = {} THEN base
                     ELSE (CHOOSE c \in cursor.page : TRUE).next
  <1>1. Typed /\ Shaped /\ Ordered
    BY DEF IInv
  <1>2. run.pc = "profile" /\ UNCHANGED <<label, history, floor, scope, small, sources,
                                          seen, cursor, crashed, spent>>
    BY DEF ReadProfile, At, Provider
  <1>3. /\ run.todo = {} /\ run.gone = {} /\ run.item = {} /\ ~run.failures
        /\ run.scope \in Scopes /\ run.mode = "history"
        /\ "replay" \notin run.ghost => seen = {}
    BY <1>1, <1>2 DEF Shaped
  <1>4. history \in Seq(Messages) /\ L \in Nat /\ L \in Cursors
    BY <1>1, LenProperties, SyncAssumption DEF Typed, Cursors
  <1>5. cursor.scope = run.scope
    BY <1>1, <1>2 DEF Ordered
  <1>6. HistoryPages' = HistoryPages /\ CursorKeeps' /\ CursorCleans'
    BY <1>2, CursorSame DEF HistoryPages
  <1>7. CASE run.scope = Off
    <2>1. /\ run' \in RunRow /\ run'.pc = "items" /\ run'.scope = run.scope
          /\ run'.mode = "off" /\ run'.todo = run.todo /\ run'.gone = run.gone
          /\ run'.item = run.item /\ run'.complete
      <3>1. PICK new : new = [run EXCEPT !.pc = "items", !.complete = TRUE, !.mode = "off"]
        OBVIOUS
      <3>2. new \in RunRow /\ new.pc = "items" /\ new.scope = run.scope
            /\ new.mode = "off" /\ new.todo = run.todo /\ new.gone = run.gone
            /\ new.item = run.item /\ new.complete
        BY <1>1, <3>1 DEF Typed, RunRow, Pcs, Modes
      <3> QED
        BY <1>7, <3>1, <3>2 DEF ReadProfile
    <2>2. Typed'
      BY <1>1, <1>2, <2>1 DEF Typed
    <2>3. Shaped'
      BY <1>1, <1>2, <1>3, <2>1 DEF Shaped
    <2>4. Ordered'
      BY <1>1, <1>2, <1>5, <1>6, <2>1 DEF Ordered
    <2>5. HistoryDone' /\ ScanDone'
      BY <2>1 DEF HistoryDone, ScanDone
    <2> QED
      BY <1>6, <2>2, <2>3, <2>4, <2>5 DEF IInv
  <1>8. CASE run.scope # Off /\ ~Incremental
    <2>1. run' = FullScan(L)
      BY <1>8 DEF ReadProfile
    <2>2. UNCHANGED <<Provider, sources, seen, cursor, crashed, spent>>
      BY DEF ReadProfile
    <2>3. L \in 0 .. L /\ run.pc \in {"profile", "page"}
      BY <1>2, <1>4
    <2>4. "replay" \notin run.ghost => \A m \in seen : Chosen(m, L)
      BY <1>3
    <2> QED
      BY <1>5, <2>1, <2>2, <2>3, <2>4, ScanBegins
  <1>9. CASE run.scope # Off /\ Incremental
    <2>1. base \in cursor.committed /\ \A c \in cursor.committed : c = base
      BY <1>1, <1>9 DEF Incremental, Ordered
    <2>2. base \in Nat /\ base \in Cursors /\ base <= L
      BY <1>1, <2>1 DEF Typed, CursorRow, Cursors, Ordered
    <2>3. /\ from \in Nat /\ from \in Cursors /\ base <= from /\ from <= L
          /\ \A p \in cursor.page : p.mode = "history" /\ p.next = from
          /\ "off" \notin cursor.ghost => \A m \in Messages \ Oversized : Kept(m, from)
          /\ "replay" \notin cursor.ghost => \A m \in Messages : Clean(m, from)
      <3>1. CASE cursor.page = {}
        BY <2>1, <2>2, <3>1 DEF IInv, CursorKeeps, CursorCleans
      <3>2. CASE cursor.page # {}
        <4>1. PICK p \in cursor.page : p = CHOOSE q \in cursor.page : TRUE
          BY <3>2
        <4>2. from = p.next /\ p.mode = "history" /\ p \in HistoryPages
          BY <1>9, <3>2, <4>1 DEF Incremental, HistoryPages
        <4>3. \A q \in cursor.page : q = p
          BY <1>1 DEF Ordered
        <4>4. p.next \in Cursors /\ p.next \in Nat
          BY <1>1 DEF Typed, CursorRow, Cursors
        <4>5. base <= p.next /\ p.next <= L
          BY <1>1, <2>1, <4>2 DEF Ordered
        <4> HIDE DEF from, base
        <4> QED
          BY <4>2, <4>3, <4>4, <4>5 DEF IInv, CursorKeeps, CursorCleans
      <3> QED
        BY <3>1, <3>2
    <2> HIDE DEF from, base
    <2>4. /\ run' \in RunRow /\ run'.pc = "page" /\ run'.scope = run.scope
          /\ run'.mode = run.mode /\ run'.todo = run.todo /\ run'.gone = run.gone
          /\ run'.item = run.item /\ run'.failures = run.failures
          /\ run'.complete = run.complete /\ run'.ghost = run.ghost
          /\ run'.id = L /\ run'.next = from
      <3>1. PICK new : new = [run EXCEPT !.pc = "page", !.id = L, !.start = base,
                                         !.next = from]
        OBVIOUS
      <3>2. new \in RunRow /\ new.pc = "page" /\ new.scope = run.scope
            /\ new.mode = run.mode /\ new.todo = run.todo /\ new.gone = run.gone
            /\ new.item = run.item /\ new.failures = run.failures
            /\ new.complete = run.complete /\ new.ghost = run.ghost
            /\ new.id = L /\ new.next = from
        BY <1>1, <1>4, <2>2, <2>3, <3>1 DEF Typed, RunRow, Pcs
      <3>3. run' = new
        BY <1>9, <3>1 DEF ReadProfile, base, from
      <3> QED
        BY <3>2, <3>3
    <2>5. Typed'
      BY <1>1, <1>2, <2>4 DEF Typed
    <2>6. Shaped'
      BY <1>1, <1>2, <1>3, <2>4 DEF Shaped
    <2>7. Ordered'
      BY <1>1, <1>2, <1>4, <1>5, <1>6, <2>1, <2>2, <2>3, <2>4 DEF Ordered
    <2>8. HistoryDone'
      <3>1. \A m \in Messages : (Kept(m, from))' = Kept(m, from)
                                /\ (Clean(m, from))' = Clean(m, from)
        <4>1. from' = from
          BY <1>2 DEF from, base
        <4> QED
          BY <1>2, <4>1, SameMailbox DEF Kept, Clean
      <3>2. from' = from
        BY <1>2 DEF from, base
      <3> QED
        BY <1>2, <1>3, <2>3, <2>4, <3>1, <3>2 DEF HistoryDone
    <2>9. ScanDone'
      BY <1>3, <2>4 DEF ScanDone
    <2> QED
      BY <1>6, <2>5, <2>6, <2>7, <2>8, <2>9 DEF IInv
  <1> QED
    BY <1>7, <1>8, <1>9

\* One page of changes.
LEMMA HistoryPageKeeps ==
    ASSUME IInv, run.pc = "page", run.mode = "history",
           NEW to \in run.next .. Len(history), run' = historyPage(to),
           UNCHANGED <<Provider, sources, seen, cursor, crashed, spent>>
    PROVE  IInv'
  <1> DEFINE L == Len(history)
             changed == {history[i] : i \in run.next + 1 .. to}
  <1>1. Typed /\ Shaped /\ Ordered /\ HistoryDone /\ Listing
    BY DEF IInv, Listing
  <1>2. UNCHANGED <<label, history, floor, scope, small, sources, seen, cursor, crashed,
                    spent>>
    BY DEF Provider
  <1>3. history \in Seq(Messages) /\ L \in Nat /\ to \in Nat /\ to \in Cursors
        /\ run.next \in Nat /\ run.next <= to /\ to <= L
    BY <1>1, LenProperties, SyncAssumption DEF Typed, RunRow, Cursors
  <1>4. /\ run.todo = {} /\ run.gone = {} /\ run.item = {} /\ ~run.failures
        /\ run.scope \in Scopes /\ cursor.scope = run.scope
    BY <1>1 DEF Shaped, Ordered
  <1>5. changed \subseteq Messages
    <2>1. \A i \in 1 .. L : history[i] \in Messages
      BY <1>3, ElementOfSeq
    <2> QED
      BY <1>3, <2>1
  <1>6. \A m \in Messages \ changed : ~Changed(m, to) => ~Changed(m, run.next)
    BY <1>3 DEF Changed
  <1> HIDE DEF changed
  <1>7. /\ run' \in RunRow /\ run'.pc = "items" /\ run'.scope = run.scope
        /\ run'.mode = run.mode /\ run'.item = run.item
        /\ run'.failures = run.failures /\ run'.ghost = run.ghost
        /\ run'.id = run.id /\ run'.next = to
        /\ run'.todo = {m \in changed : Selected(m, run.scope)}
        /\ run'.gone = {m \in changed : ~Selected(m, run.scope)}
    <2>1. PICK new : new = [run EXCEPT !.pc = "items", !.next = to,
              !.todo = {m \in changed : Selected(m, run.scope)},
              !.gone = {m \in changed : ~Selected(m, run.scope)},
              !.complete = to = L]
      OBVIOUS
    <2>2. (to = L) \in BOOLEAN
      OBVIOUS
    <2>3. /\ {m \in changed : Selected(m, run.scope)} \in SUBSET Messages
          /\ {m \in changed : ~Selected(m, run.scope)} \in SUBSET Messages
      BY <1>5
    <2>4. new \in RunRow /\ new.pc = "items" /\ new.scope = run.scope
          /\ new.mode = run.mode /\ new.item = run.item
          /\ new.failures = run.failures /\ new.ghost = run.ghost
          /\ new.id = run.id /\ new.next = to
          /\ new.todo = {m \in changed : Selected(m, run.scope)}
          /\ new.gone = {m \in changed : ~Selected(m, run.scope)}
      BY <1>1, <1>3, <2>1, <2>2, <2>3 DEF Typed, RunRow, Pcs
    <2>5. run' = new
      BY <2>1 DEF historyPage, changed
    <2> QED
      BY <2>4, <2>5
  <1>8. Typed'
    BY <1>1, <1>2, <1>7 DEF Typed
  <1>9. Shaped'
    BY <1>1, <1>4, <1>7 DEF Shaped
  <1>10. HistoryPages' = HistoryPages /\ CursorKeeps' /\ CursorCleans'
    BY <1>2, CursorSame DEF HistoryPages
  <1>11. Ordered'
    <2>1. \A c \in cursor.committed : c \in Nat
      BY <1>1 DEF Typed, CursorRow, Cursors
    <2>2. \A p \in cursor.page : p.next \in Nat
      BY <1>1 DEF Typed, CursorRow, Cursors
    <2> QED
      BY <1>1, <1>2, <1>3, <1>4, <1>7, <1>10, <2>1, <2>2 DEF Ordered
  <1>12. HistoryDone'
    <2>1. "off" \notin cursor.ghost => \A m \in Messages \ Oversized :
              m \in run'.todo \/ (Kept(m, to))'
      <3> SUFFICES ASSUME "off" \notin cursor.ghost, NEW m \in Messages \ Oversized,
                          m \notin run'.todo
                   PROVE  (Kept(m, to))'
        OBVIOUS
      <3>1. Kept(m, run.next)
        BY <1>1, <1>4 DEF HistoryDone
      <3>2. Kept(m, to)
        BY <1>4, <1>6, <1>7, <3>1 DEF Kept
      <3> QED
        BY <1>2, <3>2, SameMailbox DEF Kept
    <2>2. "replay" \notin cursor.ghost => \A m \in Messages :
              m \in run'.gone \/ (Clean(m, to))'
      <3> SUFFICES ASSUME "replay" \notin cursor.ghost, NEW m \in Messages,
                          m \notin run'.gone
                   PROVE  (Clean(m, to))'
        OBVIOUS
      <3>1. Clean(m, run.next)
        BY <1>1, <1>4 DEF HistoryDone
      <3>2. Clean(m, to)
        BY <1>4, <1>6, <1>7, <3>1 DEF Clean
      <3> QED
        BY <1>2, <3>2, SameMailbox DEF Clean
    <2>3. \A m \in run'.gone : ~(Selected(m, run.scope))'
      BY <1>2, <1>7, SameMailbox
    <2>4. \A m \in run'.todo \cup run'.item : \A x : (Chosen(m, x))'
      BY <1>2, <1>4, <1>7, SameMailbox DEF Chosen
    <2>5. "replay" \notin run.ghost => \A m \in seen : (Chosen(m, run.id))'
      BY <1>1, <1>2, <1>7, SameMailbox DEF HistoryDone, Chosen
    <2> QED
      BY <1>2, <1>4, <1>7, <2>1, <2>2, <2>3, <2>4, <2>5 DEF HistoryDone
  <1>13. ScanDone'
    BY <1>7 DEF ScanDone
  <1> QED
    BY <1>8, <1>9, <1>10, <1>11, <1>12, <1>13 DEF IInv

\* One page of the scan.
LEMMA FullPageKeeps ==
    ASSUME IInv, run.pc = "page", run.mode = "full",
           NEW listed \in SUBSET run.left, run' = fullPage(listed),
           UNCHANGED <<Provider, sources, seen, cursor, crashed, spent>>
    PROVE  IInv'
  <1> DEFINE L == Len(history)
             chosen == {m \in listed : Selected(m, run.scope)}
  <1>1. Typed /\ Shaped /\ Ordered /\ ScanDone /\ Listing
    BY DEF IInv, Listing
  <1>2. UNCHANGED <<label, history, floor, scope, small, sources, seen, cursor, crashed,
                    spent>>
    BY DEF Provider
  <1>3. run.left \subseteq Messages /\ listed \subseteq Messages /\ chosen \subseteq Messages
    BY <1>1 DEF Typed, RunRow
  <1>4. /\ run.todo = {} /\ run.gone = {} /\ run.item = {} /\ ~run.failures
        /\ run.scope \in Scopes /\ cursor.scope = run.scope
    BY <1>1 DEF Shaped, Ordered
  <1> HIDE DEF chosen
  <1>5. /\ run' \in RunRow /\ run'.pc = "items" /\ run'.scope = run.scope
        /\ run'.mode = run.mode /\ run'.item = run.item /\ run'.gone = {}
        /\ run'.failures = run.failures /\ run'.ghost = run.ghost
        /\ run'.start = run.start /\ run'.left = run.left \ listed
        /\ run'.complete = (listed = run.left)
        /\ run'.todo = chosen
    <2>1. PICK new : new = [run EXCEPT !.pc = "items", !.left = @ \ listed, !.gone = {},
                              !.todo = chosen, !.complete = listed = run.left]
      OBVIOUS
    <2>2. (listed = run.left) \in BOOLEAN
      OBVIOUS
    <2>3. run.left \ listed \in SUBSET Messages
      BY <1>3
    <2>4. new \in RunRow /\ new.pc = "items" /\ new.scope = run.scope
          /\ new.mode = run.mode /\ new.item = run.item /\ new.gone = {}
          /\ new.failures = run.failures /\ new.ghost = run.ghost
          /\ new.start = run.start /\ new.left = run.left \ listed
          /\ new.complete = (listed = run.left)
          /\ new.todo = chosen
      BY <1>1, <1>3, <2>1, <2>2, <2>3 DEF Typed, RunRow, Pcs
    <2>5. run' = new
      BY <2>1 DEF fullPage, chosen
    <2> QED
      BY <2>4, <2>5
  <1>6. Typed'
    BY <1>1, <1>2, <1>5 DEF Typed
  <1>7. Shaped'
    BY <1>1, <1>4, <1>5 DEF Shaped
  <1>8. HistoryPages' = HistoryPages /\ CursorKeeps' /\ CursorCleans'
    BY <1>2, CursorSame DEF HistoryPages
  <1>9. Ordered'
    BY <1>1, <1>2, <1>4, <1>5, <1>8 DEF Ordered
  <1>10. HistoryDone'
    BY <1>5 DEF HistoryDone
  <1>11. ScanDone'
    <2>1. PICK from \in run.start .. L : ScannedFrom(from)
      BY <1>1 DEF ScanDone
    <2>2. (ScannedFrom(from))'
      <3>1. \A m \in chosen : (Chosen(m, from))'
        BY <1>2, <1>5, SameMailbox DEF Chosen, chosen
      <3>2. ASSUME NEW m \in Messages \ (run'.left \cup run'.todo),
                   ~(Changed(m, from))', (Selected(m, run.scope))'
            PROVE  /\ m \in seen \/ ~(Existing(m))'
                   /\ "off" \notin run'.ghost /\ m \notin Oversized =>
                         m \in run'.item \/ sources'[m] = "indexed"
        <4>1. ~Changed(m, from) /\ Selected(m, run.scope)
          BY <1>2, <1>5, <3>2, SameMailbox
        <4>2. m \notin run.left \cup run.todo
          BY <1>3, <1>4, <1>5, <3>2, <4>1 DEF chosen
        <4>3. (Existing(m))' = Existing(m)
          BY <1>2 DEF Existing
        <4> QED
          BY <1>2, <1>4, <1>5, <2>1, <4>1, <4>2, <4>3 DEF ScannedFrom
      <3> QED
        BY <1>2, <1>4, <1>5, <1>8, <2>1, <3>1, <3>2 DEF ScannedFrom
    <2>3. \A m \in seen : (Chosen(m, run.start))' = Chosen(m, run.start)
      BY <1>2, <1>5, SameMailbox DEF Chosen
    <2> QED
      BY <1>1, <1>2, <1>5, <2>1, <2>2, <2>3 DEF ScanDone
  <1> QED
    BY <1>6, <1>7, <1>8, <1>9, <1>10, <1>11 DEF IInv

LEMMA FetchPageKeeps ==
    ASSUME IInv, FetchPage
    PROVE  IInv'
  <1>1. run.pc = "page"
        /\ UNCHANGED <<Provider, sources, seen, cursor, crashed, spent>>
    BY DEF FetchPage, At
  <1>2. run.mode \in {"history", "full"}
    BY <1>1 DEF IInv, Typed, RunRow, Modes, Shaped
  <1>3. CASE run.mode = "full"
    BY <1>1, <1>3, FullPageKeeps DEF FetchPage
  <1>4. CASE run.mode = "history" /\ run.start < floor
    <2>1. run' = FullScan(run.id)
      BY <1>4 DEF FetchPage
    <2>2. run.id \in 0 .. Len(history)
      BY <1>1, <1>4, LenProperties DEF IInv, Ordered, Listing, Typed, RunRow, Cursors
    <2>3. cursor.scope = run.scope
          /\ ("replay" \notin run.ghost => \A m \in seen : Chosen(m, run.id))
      BY <1>1, <1>4 DEF IInv, Ordered, HistoryDone, Listing
    <2> QED
      BY <1>1, <2>1, <2>2, <2>3, ScanBegins
  <1>5. CASE run.mode = "history" /\ ~(run.start < floor)
    BY <1>1, <1>5, HistoryPageKeeps DEF FetchPage
  <1> QED
    BY <1>2, <1>3, <1>4, <1>5

\* The items of a page.  Writing one takes no index from a source, as only a
\* source that is not indexed is written.
LEMMA UpsertItemKeeps ==
    ASSUME IInv, NEW n \in Messages, UpsertItem(n)
    PROVE  IInv'
  <1> DEFINE write == ~MarkedSeen(n) /\ ~TooBig(n)
             noted == MarkedSeen(n) \/ write
  <1>1. Typed /\ Shaped /\ Ordered /\ HistoryDone /\ ScanDone
    BY DEF IInv
  <1>2. run.pc = "items" /\ n \in run.todo
        /\ UNCHANGED <<label, history, floor, scope, small, cursor, crashed, spent>>
    BY DEF UpsertItem, At, Provider
  <1>3. /\ seen' = (IF noted THEN seen \cup {n} ELSE seen)
        /\ sources' = (IF write THEN [sources EXCEPT ![n] = "created"] ELSE sources)
        /\ run' = [run EXCEPT !.todo = @ \ {n},
                    !.pc = IF write THEN "index" ELSE @,
                    !.item = IF write THEN {n} ELSE {}]
    BY DEF UpsertItem
  <1>4. /\ write => sources[n] # "indexed" /\ noted
        /\ ~noted => ~Existing(n) /\ n \in Oversized
        /\ ~write => sources[n] = "indexed" \/ n \in Oversized
    BY DEF MarkedSeen, Current, TooBig
  <1> HIDE DEF write, noted
  <1>5. /\ run' \in RunRow /\ run'.pc = (IF write THEN "index" ELSE "items")
        /\ run'.scope = run.scope /\ run'.mode = run.mode /\ run'.id = run.id
        /\ run'.start = run.start /\ run'.next = run.next
        /\ run'.todo = run.todo \ {n} /\ run'.gone = run.gone /\ run'.left = run.left
        /\ run'.item = (IF write THEN {n} ELSE {}) /\ run'.complete = run.complete
        /\ run'.failures = run.failures /\ run'.ghost = run.ghost
    <2>1. run.todo \ {n} \in SUBSET Messages /\ {n} \in SUBSET Messages
      BY <1>1 DEF Typed, RunRow
    <2> QED
      BY <1>1, <1>2, <1>3, <2>1 DEF Typed, RunRow, Pcs
  <1>6. /\ run.item = {} /\ run.todo \subseteq Messages /\ seen' \subseteq Messages
        /\ seen \subseteq seen' /\ seen' \subseteq seen \cup {n}
        /\ (noted => n \in seen') /\ run.mode # "off"
    <2>1. run.item = {} /\ run.mode # "off"
      BY <1>1, <1>2 DEF Shaped
    <2>2. seen \subseteq Messages /\ run.todo \subseteq Messages
      BY <1>1 DEF Typed, RunRow
    <2> QED
      BY <1>3, <2>1, <2>2
  <1>7. /\ sources' \in [Messages -> SourceStatuses]
        /\ \A m \in Messages \ {n} : sources'[m] = sources[m]
        /\ write => sources'[n] = "created"
        /\ ~write => sources'[n] = sources[n]
    BY <1>1, <1>3 DEF Typed, SourceStatuses
  <1>8. \A m \in Messages : sources'[m] = "indexed" <=> sources[m] = "indexed"
    BY <1>4, <1>7
  <1>9. Typed'
    BY <1>1, <1>2, <1>5, <1>6, <1>7 DEF Typed
  <1>10. Shaped'
    <2>1. run'.item \subseteq seen'
      BY <1>4, <1>5, <1>6
    <2>2. \A m \in run'.item : sources'[m] # "indexed"
      BY <1>5, <1>7
    <2> QED
      BY <1>1, <1>2, <1>5, <1>6, <2>1, <2>2 DEF Shaped
  <1>11. HistoryPages' = HistoryPages /\ CursorKeeps' /\ CursorCleans'
    BY <1>2, <1>8, CursorSame DEF HistoryPages
  <1>12. Listing' /\ Listing
    BY <1>2, <1>5 DEF Listing
  <1>13. Ordered'
    BY <1>1, <1>2, <1>5, <1>11, <1>12 DEF Ordered
  <1>14. \A m \in Messages : \A x : /\ (Kept(m, x))' = Kept(m, x)
                                    /\ (Clean(m, x))' = Clean(m, x)
                                    /\ (Chosen(m, x))' = Chosen(m, x)
    BY <1>2, <1>5, <1>8, SameMailbox DEF Kept, Clean, Chosen
  <1>15. HistoryDone'
    <2> SUFFICES ASSUME run.mode = "history" PROVE HistoryDone'
      BY <1>5 DEF HistoryDone
    <2>1. "off" \notin cursor.ghost /\ ~run.failures =>
            \A m \in Messages \ (Oversized \cup run'.todo \cup run'.item) : Kept(m, run.next)
      <3> SUFFICES ASSUME "off" \notin cursor.ghost, ~run.failures,
                          NEW m \in Messages \ (Oversized \cup run'.todo \cup run'.item)
                   PROVE  Kept(m, run.next)
        OBVIOUS
      <3>1. CASE m = n
        BY <1>4, <1>5, <3>1 DEF Kept
      <3>2. CASE m # n
        BY <1>1, <1>5, <1>6, <1>12, <3>2 DEF HistoryDone
      <3> QED
        BY <3>1, <3>2
    <2>2. \A m \in run'.todo \cup run'.item : m \in run.todo
      BY <1>2, <1>5
    <2>3. \A m \in run.gone : (Selected(m, run.scope))' => (Changed(m, run.next))'
      BY <1>1, <1>2, <1>5, <1>12, SameMailbox DEF HistoryDone
    <2>4. "replay" \notin run.ghost => \A m \in seen' : Chosen(m, run.id)
      BY <1>1, <1>2, <1>6, <1>12 DEF HistoryDone
    <2>5. run.gone \subseteq Messages
      BY <1>1 DEF Typed, RunRow
    <2> QED
      BY <1>1, <1>2, <1>5, <1>6, <1>12, <1>14, <2>1, <2>2, <2>3, <2>4, <2>5 DEF HistoryDone
  <1>16. ScanDone'
    <2> SUFFICES ASSUME run.mode = "full" PROVE ScanDone'
      BY <1>5 DEF ScanDone
    <2>1. PICK from \in run.start .. Len(history) : ScannedFrom(from)
      BY <1>1, <1>12 DEF ScanDone
    <2>2. (ScannedFrom(from))'
      <3>1. \A m \in run'.todo \cup run'.item : (Chosen(m, from))'
        BY <1>2, <1>5, <1>6, <1>14, <2>1 DEF ScannedFrom
      <3>2. ASSUME ~run'.failures, NEW m \in Messages \ (run'.left \cup run'.todo),
                   ~(Changed(m, from))', (Selected(m, run.scope))'
            PROVE  /\ m \in seen' \/ ~(Existing(m))'
                   /\ "off" \notin run'.ghost /\ m \notin Oversized =>
                         m \in run'.item \/ sources'[m] = "indexed"
        <4>1. ~Changed(m, from) /\ Selected(m, run.scope)
          BY <1>2, <1>5, <3>2, SameMailbox
        <4>2. CASE m = n
          <5>1. m \in seen' \/ ~(Existing(m))'
            BY <1>4, <1>6, <1>7, <4>2 DEF Existing
          <5>2. m \in Oversized \/ m \in run'.item \/ sources'[m] = "indexed"
            BY <1>4, <1>5, <1>7, <4>2
          <5> QED
            BY <5>1, <5>2
        <4>3. CASE m # n
          <5>1. m \notin run.left \cup run.todo
            BY <1>5, <3>2, <4>3
          <5>2. (Existing(m))' = Existing(m) /\ sources'[m] = sources[m]
            BY <1>7, <4>3 DEF Existing
          <5>3. /\ m \in seen \/ ~Existing(m)
                /\ "off" \notin run.ghost /\ m \notin Oversized => sources[m] = "indexed"
            BY <1>5, <1>6, <2>1, <3>2, <4>1, <5>1 DEF ScannedFrom
          <5> QED
            BY <1>5, <1>6, <5>2, <5>3
        <4> QED
          BY <4>2, <4>3
      <3> QED
        BY <1>2, <1>5, <1>11, <2>1, <3>1, <3>2 DEF ScannedFrom
    <2>3. "replay" \notin run.ghost => \A m \in seen' : (Chosen(m, run.start))'
      <3>1. from \in Nat /\ run.start \in Nat /\ run.start <= from
        BY <1>1, LenProperties DEF Typed, RunRow, Cursors
      <3>2. \A m \in Messages : Chosen(m, from) => Chosen(m, run.start)
        BY <1>1, <3>1, LaterChange DEF Chosen, Typed
      <3>3. Chosen(n, from)
        BY <1>2, <2>1 DEF ScannedFrom
      <3> QED
        BY <1>1, <1>2, <1>5, <1>6, <1>12, <1>14, <3>2, <3>3 DEF ScanDone
    <2>4. run'.pc # "commit"
      BY <1>5
    <2> QED
      BY <1>2, <1>5, <2>2, <2>3, <2>4 DEF ScanDone
  <1> QED
    BY <1>9, <1>10, <1>11, <1>13, <1>15, <1>16 DEF IInv

\* A message chosen at a position was chosen at any earlier one.
LEMMA ChosenEarlier ==
    ASSUME Typed, NEW m, NEW x \in Nat, NEW y \in Nat, x <= y, Chosen(m, y)
    PROVE  Chosen(m, x)
  BY LaterChange DEF Chosen, Typed

LEMMA IndexItemKeeps ==
    ASSUME IInv, IndexItem
    PROVE  IInv'
  <1>1. Typed /\ Shaped /\ Ordered /\ HistoryDone /\ ScanDone
    BY DEF IInv
  <1>2. run.pc = "index"
        /\ UNCHANGED <<label, history, floor, scope, small, seen, cursor, crashed, spent>>
    BY DEF IndexItem, At, Provider
  <1>3. /\ run' \in RunRow /\ run'.pc = "items"
        /\ run'.scope = run.scope /\ run'.mode = run.mode /\ run'.id = run.id
        /\ run'.start = run.start /\ run'.next = run.next
        /\ run'.todo = run.todo /\ run'.gone = run.gone /\ run'.left = run.left
        /\ run'.item = {} /\ run'.complete = run.complete
        /\ run'.failures = run.failures /\ run'.ghost = run.ghost
    BY <1>1 DEF IndexItem, Typed, RunRow, Pcs
  <1>4. /\ run.item \subseteq seen /\ seen \subseteq Messages /\ run.todo \subseteq Messages
        /\ run.mode = "off" => run.item = {}
    BY <1>1 DEF Shaped, Typed, RunRow
  <1>5. /\ sources' \in [Messages -> SourceStatuses]
        /\ \A m \in Messages : sources'[m] = IF m \in run.item THEN "indexed" ELSE sources[m]
    BY <1>1 DEF IndexItem, Typed, SourceStatuses
  <1>6. Typed'
    BY <1>1, <1>2, <1>3, <1>5 DEF Typed
  <1>7. Shaped'
    BY <1>1, <1>2, <1>3 DEF Shaped
  <1>8. Listing /\ Listing' /\ HistoryPages' = HistoryPages /\ cursor.scope = run.scope
    BY <1>1, <1>2, <1>3 DEF Listing, HistoryPages, Ordered
  <1>9. Ordered'
    BY <1>1, <1>2, <1>3, <1>8 DEF Ordered
  <1>10. \A m \in Messages : \A x : /\ Kept(m, x) => (Kept(m, x))'
                                    /\ (Chosen(m, x))' = Chosen(m, x)
    BY <1>2, <1>3, <1>5, SameMailbox DEF Kept, Chosen
  <1>11. \A m \in Messages : \A x : Clean(m, x) /\ (m \in run.item => Chosen(m, x))
            => (Clean(m, x))'
    BY <1>2, <1>5, <1>8, SameMailbox DEF Clean, Chosen
  <1>12. /\ \A c \in cursor.committed : c \in Nat
         /\ \A p \in HistoryPages : p.next \in Nat
         /\ run.next \in Nat /\ run.start \in Nat
    BY <1>1 DEF Typed, CursorRow, RunRow, Cursors, HistoryPages
  <1>13. \A m \in run.item :
           /\ \A c \in cursor.committed : Chosen(m, c)
           /\ \A p \in HistoryPages : Chosen(m, p.next)
    <2> SUFFICES ASSUME NEW m \in run.item
                 PROVE  /\ \A c \in cursor.committed : Chosen(m, c)
                        /\ \A p \in HistoryPages : Chosen(m, p.next)
      OBVIOUS
    <2>1. CASE run.mode = "history"
      <3>1. Chosen(m, run.next)
        BY <1>1, <1>8, <2>1 DEF HistoryDone
      <3>2. /\ \A c \in cursor.committed : c <= run.next
            /\ \A p \in HistoryPages : p.next <= run.next
        BY <1>1, <1>8, <2>1 DEF Ordered, HistoryPages
      <3> QED
        BY <1>1, <1>12, <3>1, <3>2, ChosenEarlier
    <2>2. CASE run.mode = "full"
      <3>1. PICK from \in run.start .. Len(history) : ScannedFrom(from)
        BY <1>1, <1>8, <2>2 DEF ScanDone
      <3>2. from \in Nat
        BY <1>12, <3>1
      <3>3. Chosen(m, from) /\ (\A c \in cursor.committed : c <= from)
            /\ \A p \in HistoryPages : p.next <= from
        BY <3>1 DEF ScannedFrom
      <3> QED
        BY <1>1, <1>12, <3>2, <3>3, ChosenEarlier
    <2>3. run.mode # "off"
      BY <1>4
    <2> QED
      BY <1>1, <2>1, <2>2, <2>3 DEF Typed, RunRow, Modes
  <1>14. CursorKeeps'
    BY <1>2, <1>8, <1>10 DEF IInv, CursorKeeps
  <1>15. CursorCleans'
    BY <1>2, <1>8, <1>11, <1>13 DEF IInv, CursorCleans
  <1>16. HistoryDone'
    <2> SUFFICES ASSUME run.mode = "history" PROVE HistoryDone'
      BY <1>3 DEF HistoryDone
    <2>1. "off" \notin cursor.ghost /\ ~run.failures =>
            \A m \in Messages \ (Oversized \cup run.todo) : (Kept(m, run.next))'
      <3> SUFFICES ASSUME "off" \notin cursor.ghost, ~run.failures,
                          NEW m \in Messages \ (Oversized \cup run.todo)
                   PROVE  (Kept(m, run.next))'
        OBVIOUS
      <3>1. CASE m \in run.item
        BY <1>5, <3>1 DEF Kept
      <3>2. CASE m \notin run.item
        BY <1>1, <1>3, <1>8, <1>10, <3>2 DEF HistoryDone
      <3> QED
        BY <3>1, <3>2
    <2>2. "replay" \notin cursor.ghost =>
            \A m \in Messages \ run.gone : (Clean(m, run.next))'
      BY <1>1, <1>3, <1>8, <1>11 DEF HistoryDone
    <2>3. \A m \in run.gone : (Selected(m, run.scope))' => (Changed(m, run.next))'
      BY <1>1, <1>2, <1>3, <1>8, SameMailbox DEF HistoryDone
    <2> QED
      BY <1>1, <1>2, <1>3, <1>4, <1>8, <1>10, <2>1, <2>2, <2>3 DEF HistoryDone
  <1>17. ScanDone'
    <2> SUFFICES ASSUME run.mode = "full" PROVE ScanDone'
      BY <1>3 DEF ScanDone
    <2>1. PICK from \in run.start .. Len(history) : ScannedFrom(from)
      BY <1>1, <1>8 DEF ScanDone
    <2>2. (ScannedFrom(from))'
      <3>1. \A m \in run.todo : (Chosen(m, from))'
        BY <1>4, <1>10, <2>1 DEF ScannedFrom
      <3>2. ASSUME ~run'.failures, NEW m \in Messages \ (run'.left \cup run'.todo),
                   ~(Changed(m, from))', (Selected(m, run.scope))'
            PROVE  /\ m \in seen \/ ~(Existing(m))'
                   /\ "off" \notin run'.ghost /\ m \notin Oversized =>
                         m \in run'.item \/ sources'[m] = "indexed"
        <4>1. ~Changed(m, from) /\ Selected(m, run.scope)
          BY <1>2, <1>3, <3>2, SameMailbox
        <4>2. /\ m \in seen \/ ~Existing(m)
              /\ "off" \notin run.ghost /\ m \notin Oversized =>
                    m \in run.item \/ sources[m] = "indexed"
          BY <1>3, <2>1, <3>2, <4>1 DEF ScannedFrom
        <4>3. m \notin run.item => (Existing(m))' = Existing(m)
          BY <1>5 DEF Existing
        <4> QED
          BY <1>3, <1>4, <1>5, <4>2, <4>3
      <3> QED
        BY <1>2, <1>3, <1>8, <2>1, <3>1, <3>2 DEF ScannedFrom
    <2> QED
      BY <1>1, <1>2, <1>3, <1>4, <1>8, <1>10, <2>2 DEF ScanDone
  <1> QED
    BY <1>6, <1>7, <1>9, <1>14, <1>15, <1>16, <1>17 DEF IInv

\* After a failed item nothing is claimed of the page: the run ends with it.
LEMMA ItemFailsKeeps ==
    ASSUME IInv, ItemFails
    PROVE  IInv'
  <1>1. Typed /\ Shaped /\ Ordered /\ HistoryDone /\ ScanDone
    BY DEF IInv
  <1>2. /\ run.pc \in {"items", "index"}
        /\ UNCHANGED <<label, history, floor, scope, small, seen, cursor, crashed>>
        /\ spent' \in [faults : 0 .. MaxFaults, edits : 0 .. MaxEdits]
    <2>1. run.pc \in {"items", "index"}
      BY DEF ItemFails, At
    <2>2. UNCHANGED <<label, history, floor, scope, small, seen, cursor, crashed>>
      BY DEF ItemFails, Provider
    <2>3. Spend /\ spent \in [faults : 0 .. MaxFaults, edits : 0 .. MaxEdits]
      BY <1>1 DEF ItemFails, Typed
    <2>4. spent' \in [faults : 0 .. MaxFaults, edits : 0 .. MaxEdits]
      BY <2>3, SyncAssumption DEF Spend
    <2> QED
      BY <2>1, <2>2, <2>4
  <1>3. /\ run' \in RunRow /\ run'.pc = "items"
        /\ run'.scope = run.scope /\ run'.mode = run.mode /\ run'.id = run.id
        /\ run'.start = run.start /\ run'.next = run.next
        /\ run'.todo \subseteq run.todo /\ run'.gone = run.gone /\ run'.left = run.left
        /\ run'.item = {} /\ run'.complete = run.complete
        /\ run'.failures /\ run'.ghost = run.ghost
        /\ sources' \in [Messages -> SourceStatuses]
        /\ \A m \in Messages : sources'[m] = "indexed" <=> sources[m] = "indexed"
    <2>1. CASE run.pc = "items"
      <3>1. PICK m \in run.todo : run' = [run EXCEPT !.todo = @ \ {m}, !.failures = TRUE]
        BY <2>1 DEF ItemFails, At
      <3>2. sources' = sources /\ run.item = {}
        BY <1>1, <2>1 DEF ItemFails, At, Shaped
      <3>3. run.todo \ {m} \in SUBSET Messages
        BY <1>1 DEF Typed, RunRow
      <3> QED
        BY <1>1, <2>1, <3>1, <3>2, <3>3 DEF Typed, RunRow
    <2>2. CASE run.pc = "index"
      <3>1. /\ run' = [run EXCEPT !.pc = "items", !.item = {}, !.failures = TRUE]
            /\ sources' = [m \in Messages |-> IF m \in run.item THEN "failed" ELSE sources[m]]
        BY <2>2 DEF ItemFails, At
      <3>2. \A m \in run.item : sources[m] # "indexed"
        BY <1>1 DEF Shaped
      <3>3. /\ sources' \in [Messages -> SourceStatuses]
            /\ \A m \in Messages : sources'[m] = "indexed" <=> sources[m] = "indexed"
        BY <1>1, <3>1, <3>2 DEF Typed, SourceStatuses
      <3>4. /\ run' \in RunRow /\ run'.pc = "items"
            /\ run'.scope = run.scope /\ run'.mode = run.mode /\ run'.id = run.id
            /\ run'.start = run.start /\ run'.next = run.next
            /\ run'.todo = run.todo /\ run'.gone = run.gone /\ run'.left = run.left
            /\ run'.item = {} /\ run'.complete = run.complete
            /\ run'.failures /\ run'.ghost = run.ghost
        BY <1>1, <3>1 DEF Typed, RunRow, Pcs
      <3> QED
        BY <3>3, <3>4
    <2> QED
      BY <1>2, <2>1, <2>2
  <1>4. run.todo \subseteq Messages /\ seen \subseteq Messages
    BY <1>1 DEF Typed, RunRow
  <1>5. Typed'
    BY <1>1, <1>2, <1>3 DEF Typed
  <1>6. Shaped'
    <2>1. run.mode = "off" => run.todo = {} /\ run.complete /\ run.gone = {}
      BY <1>1 DEF Shaped
    <2> QED
      BY <1>1, <1>2, <1>3, <2>1 DEF Shaped
  <1>7. Listing /\ Listing' /\ HistoryPages' = HistoryPages /\ CursorKeeps' /\ CursorCleans'
    BY <1>2, <1>3, CursorSame DEF Listing, HistoryPages
  <1>8. Ordered'
    BY <1>1, <1>2, <1>3, <1>7 DEF Ordered
  <1>9. \A m \in Messages : \A x : /\ (Clean(m, x))' = Clean(m, x)
                                   /\ (Chosen(m, x))' = Chosen(m, x)
    BY <1>2, <1>3, SameMailbox DEF Clean, Chosen
  <1>10. HistoryDone'
    <2>1. \A m \in run.gone : run.mode = "history" /\ (Selected(m, run.scope))'
             => (Changed(m, run.next))'
      BY <1>1, <1>2, <1>3, <1>7, SameMailbox DEF HistoryDone
    <2> QED
      BY <1>1, <1>2, <1>3, <1>4, <1>7, <1>9, <2>1 DEF HistoryDone
  <1>11. ScanDone'
    <2>1. \A x : ScannedFrom(x) => (ScannedFrom(x))'
      BY <1>2, <1>3, <1>4, <1>7, <1>9 DEF ScannedFrom
    <2> QED
      BY <1>1, <1>2, <1>3, <1>4, <1>7, <1>9, <2>1 DEF ScanDone
  <1> QED
    BY <1>5, <1>6, <1>7, <1>8, <1>10, <1>11 DEF IInv

LEMMA PageAppliedKeeps ==
    ASSUME IInv, PageApplied
    PROVE  IInv'
  <1>1. Typed /\ Shaped /\ Ordered /\ HistoryDone /\ ScanDone
    BY DEF IInv
  <1>2. run.pc = "items" /\ run.todo = {} /\ run.item = {}
        /\ UNCHANGED <<label, history, floor, scope, small, sources, seen, cursor, crashed,
                       spent>>
    BY <1>1 DEF PageApplied, At, Provider, Shaped
  <1>3. CASE run.failures
    BY <1>1, <1>2, <1>3, RunEndsKeeps DEF PageApplied, Typed
  <1>4. CASE ~run.failures
    <2>1. /\ run' \in RunRow /\ run'.pc = "drop"
          /\ run'.scope = run.scope /\ run'.mode = run.mode /\ run'.id = run.id
          /\ run'.start = run.start /\ run'.next = run.next
          /\ run'.todo = run.todo /\ run'.gone = run.gone /\ run'.left = run.left
          /\ run'.item = run.item /\ run'.complete = run.complete
          /\ run'.failures = run.failures /\ run'.ghost = run.ghost
      BY <1>1, <1>4 DEF PageApplied, Typed, RunRow, Pcs
    <2>2. Typed'
      BY <1>1, <1>2, <2>1 DEF Typed
    <2>3. Shaped'
      BY <1>1, <1>2, <1>4, <2>1 DEF Shaped
    <2>4. /\ Listing /\ Listing' /\ HistoryPages' = HistoryPages
          /\ CursorKeeps' /\ CursorCleans'
      BY <1>2, <2>1, CursorSame DEF Listing, HistoryPages
    <2>5. Ordered'
      BY <1>1, <1>2, <2>1, <2>4 DEF Ordered
    <2>6. \A m \in Messages : \A x : /\ (Kept(m, x))' = Kept(m, x)
                                     /\ (Clean(m, x))' = Clean(m, x)
                                     /\ (Chosen(m, x))' = Chosen(m, x)
                                     /\ (Existing(m))' = Existing(m)
      BY <1>2, <2>1, SameMailbox DEF Kept, Clean, Chosen, Existing
    <2>7. seen \subseteq Messages
      BY <1>1 DEF Typed
    <2>8. HistoryDone'
      BY <1>1, <1>2, <2>1, <2>4, <2>6, <2>7, SameMailbox DEF HistoryDone
    <2>9. \A x : ScannedFrom(x) => (ScannedFrom(x))'
      BY <1>2, <2>1, <2>4, <2>6, SameMailbox DEF ScannedFrom
    <2>10. ScanDone'
      BY <1>1, <1>2, <2>1, <2>4, <2>6, <2>7, <2>9 DEF ScanDone
    <2> QED
      BY <2>2, <2>3, <2>4, <2>5, <2>8, <2>10 DEF IInv
  <1> QED
    BY <1>3, <1>4

\* Archiving what a page reports as deleted takes the index only from messages
\* that are not selected, or changed since.
LEMMA DropDeletedKeeps ==
    ASSUME IInv, DropDeleted
    PROVE  IInv'
  <1>1. Typed /\ Shaped /\ Ordered /\ HistoryDone /\ ScanDone
    BY DEF IInv
  <1>2. run.pc = "drop" /\ run.todo = {} /\ run.item = {} /\ ~run.failures
        /\ UNCHANGED <<label, history, floor, scope, small, seen, cursor, crashed, spent>>
    BY <1>1 DEF DropDeleted, At, Provider, Shaped
  <1>3. /\ run' \in RunRow
        /\ run'.pc = "drop" \/ (run'.pc = "reconcile" /\ run'.gone = {})
        /\ run'.scope = run.scope /\ run'.mode = run.mode /\ run'.id = run.id
        /\ run'.start = run.start /\ run'.next = run.next
        /\ run'.todo = run.todo /\ run'.gone \subseteq run.gone /\ run'.left = run.left
        /\ run'.item = run.item /\ run'.complete = run.complete
        /\ run'.failures = run.failures /\ run'.ghost = run.ghost
        /\ sources' \in [Messages -> SourceStatuses]
        /\ \A m \in Messages : sources'[m] = "indexed" => sources[m] = "indexed"
        /\ \A m \in Messages : sources'[m] # sources[m] => m \in run.gone
        /\ \A m \in run.gone : m \in run'.gone \/ sources'[m] # "indexed"
    <2>1. CASE run.gone = {}
      BY <1>1, <1>2, <2>1 DEF DropDeleted, Typed, RunRow, Pcs
    <2>2. CASE run.gone # {}
      <3>1. PICK m \in run.gone :
              /\ run' = [run EXCEPT !.gone = @ \ {m}]
              /\ sources' = [sources EXCEPT ![m] = IF Existing(m) THEN "archived" ELSE @]
        BY <2>2 DEF DropDeleted
      <3>2. m \in Messages /\ run.gone \ {m} \in SUBSET Messages
        BY <1>1 DEF Typed, RunRow
      <3>3. /\ sources' \in [Messages -> SourceStatuses]
            /\ sources'[m] # "indexed"
            /\ \A n \in Messages \ {m} : sources'[n] = sources[n]
        BY <1>1, <3>1, <3>2 DEF Typed, SourceStatuses, Existing
      <3>4. /\ run' \in RunRow /\ run'.pc = run.pc
            /\ run'.scope = run.scope /\ run'.mode = run.mode /\ run'.id = run.id
            /\ run'.start = run.start /\ run'.next = run.next
            /\ run'.todo = run.todo /\ run'.gone = run.gone \ {m} /\ run'.left = run.left
            /\ run'.item = run.item /\ run'.complete = run.complete
            /\ run'.failures = run.failures /\ run'.ghost = run.ghost
        BY <1>1, <3>1, <3>2 DEF Typed, RunRow
      <3> QED
        BY <1>2, <3>2, <3>3, <3>4
    <2> QED
      BY <2>1, <2>2
  <1>4. /\ run.gone \subseteq Messages /\ seen \subseteq Messages
        /\ run.gone # {} => run.mode = "history"
    BY <1>1 DEF Shaped, Typed, RunRow, Modes
  <1>5. Typed'
    BY <1>1, <1>2, <1>3 DEF Typed
  <1>6. Shaped'
    BY <1>1, <1>2, <1>3, <1>4 DEF Shaped
  <1>7. Listing /\ Listing' /\ HistoryPages' = HistoryPages /\ cursor.scope = run.scope
    BY <1>1, <1>2, <1>3 DEF Listing, HistoryPages, Ordered
  <1>8. Ordered'
    BY <1>1, <1>2, <1>3, <1>7 DEF Ordered
  <1>9. \A m \in Messages : \A x : /\ Clean(m, x) => (Clean(m, x))'
                                   /\ (Chosen(m, x))' = Chosen(m, x)
    BY <1>2, <1>3, SameMailbox DEF Clean, Chosen
  <1>10. \A m \in Messages, x \in Nat :
           /\ Kept(m, x)
           /\ m \in run.gone /\ Selected(m, run.scope) => Changed(m, x)
           => (Kept(m, x))'
    BY <1>2, <1>3, <1>7, SameMailbox DEF Kept
  <1>11. /\ \A c \in cursor.committed : c \in Nat
         /\ \A p \in HistoryPages : p.next \in Nat
         /\ run.next \in Nat
    BY <1>1 DEF Typed, CursorRow, RunRow, Cursors, HistoryPages
  <1>12. ASSUME NEW m \in run.gone, Selected(m, run.scope)
         PROVE  /\ \A c \in cursor.committed : Changed(m, c)
                /\ \A p \in HistoryPages : Changed(m, p.next)
                /\ Changed(m, run.next)
    <2>1. run.mode = "history" /\ Changed(m, run.next)
      BY <1>1, <1>4, <1>7, <1>12 DEF HistoryDone
    <2>2. /\ \A c \in cursor.committed : c <= run.next
          /\ \A p \in HistoryPages : p.next <= run.next
      BY <1>1, <1>7, <2>1 DEF Ordered, HistoryPages
    <2>3. history \in Seq(Messages)
      BY <1>1 DEF Typed
    <2> QED
      BY <1>11, <2>1, <2>2, <2>3, LaterChange
  <1>13. CursorKeeps'
    BY <1>2, <1>7, <1>10, <1>11, <1>12 DEF IInv, CursorKeeps
  <1>14. CursorCleans'
    BY <1>2, <1>7, <1>9 DEF IInv, CursorCleans
  <1>15. HistoryDone'
    <2> SUFFICES ASSUME run.mode = "history" PROVE HistoryDone'
      BY <1>3 DEF HistoryDone
    <2>1. "off" \notin cursor.ghost =>
            \A m \in Messages \ Oversized : (Kept(m, run.next))'
      BY <1>1, <1>2, <1>3, <1>7, <1>10, <1>11, <1>12 DEF HistoryDone
    <2>2. "replay" \notin cursor.ghost =>
            \A m \in Messages \ run'.gone : (Clean(m, run.next))'
      <3> SUFFICES ASSUME "replay" \notin cursor.ghost, NEW m \in Messages \ run'.gone
                   PROVE  (Clean(m, run.next))'
        OBVIOUS
      <3>1. CASE m \in run.gone
        BY <1>3, <3>1 DEF Clean
      <3>2. CASE m \notin run.gone
        BY <1>1, <1>3, <1>7, <1>9, <3>2 DEF HistoryDone
      <3> QED
        BY <3>1, <3>2
    <2>3. \A m \in run'.gone : (Selected(m, run.scope))' => (Changed(m, run.next))'
      BY <1>2, <1>3, <1>12, SameMailbox
    <2> QED
      BY <1>1, <1>2, <1>3, <1>4, <1>7, <1>9, <2>1, <2>2, <2>3 DEF HistoryDone
  <1>16. ScanDone'
    <2> SUFFICES ASSUME run.mode = "full" PROVE ScanDone'
      BY <1>3 DEF ScanDone
    <2>1. \A m \in Messages : sources'[m] = sources[m] /\ (Existing(m))' = Existing(m)
      BY <1>3, <1>4 DEF Existing
    <2>2. \A x : ScannedFrom(x) => (ScannedFrom(x))'
      BY <1>2, <1>3, <1>7, <1>9, <2>1, SameMailbox DEF ScannedFrom
    <2> QED
      BY <1>1, <1>2, <1>3, <1>4, <1>7, <1>9, <2>2 DEF ScanDone
  <1> QED
    BY <1>5, <1>6, <1>8, <1>13, <1>14, <1>15, <1>16 DEF IInv

\* After the whole scan, a source the run did not see belongs to a message that
\* is not selected, or that changed since the scan began.
LEMMA UnseenUnselected ==
    ASSUME IInv, run.pc = "reconcile", ReconcileMissing,
           NEW from \in run.start .. Len(history), ScannedFrom(from),
           NEW m \in Messages, Existing(m), m \notin seen
    PROVE  ~Selected(m, run.scope) \/ Changed(m, from)
  <1>1. run.left = {} /\ run.todo = {} /\ ~run.failures
    BY DEF IInv, Shaped, ReconcileMissing
  <1> QED
    BY <1>1 DEF ScannedFrom

LEMMA ReconcileKeeps ==
    ASSUME IInv, Reconcile
    PROVE  IInv'
  <1>1. Typed /\ Shaped /\ Ordered /\ HistoryDone /\ ScanDone
    BY DEF IInv
  <1>2. run.pc = "reconcile" /\ run.todo = {} /\ run.item = {} /\ ~run.failures
        /\ run.gone = {}
        /\ UNCHANGED <<label, history, floor, scope, small, seen, cursor, crashed, spent>>
    BY <1>1 DEF Reconcile, At, Provider, Shaped
  <1>3. /\ run' \in RunRow /\ run'.pc = "commit"
        /\ run'.scope = run.scope /\ run'.mode = run.mode /\ run'.id = run.id
        /\ run'.start = run.start /\ run'.next = run.next
        /\ run'.todo = run.todo /\ run'.gone = run.gone /\ run'.left = run.left
        /\ run'.item = run.item /\ run'.complete = run.complete
        /\ run'.failures = run.failures /\ run'.ghost = run.ghost
    BY <1>1 DEF Reconcile, Typed, RunRow, Pcs
  <1>4. /\ sources' \in [Messages -> SourceStatuses]
        /\ \A m \in Messages : sources'[m] = "indexed" => sources[m] = "indexed"
        /\ \A m \in Messages : sources'[m] # sources[m] =>
              ReconcileMissing /\ Existing(m) /\ m \notin seen
        /\ \A m \in Messages \ seen : ReconcileMissing => sources'[m] # "indexed"
        /\ \A m \in Messages : (Existing(m))' => Existing(m)
    BY <1>1 DEF Reconcile, Typed, SourceStatuses, Existing
  <1>5. Typed'
    BY <1>1, <1>2, <1>3, <1>4 DEF Typed
  <1>6. Shaped'
    BY <1>1, <1>2, <1>3 DEF Shaped
  <1>7. Listing /\ Listing' /\ HistoryPages' = HistoryPages /\ cursor.scope = run.scope
    BY <1>1, <1>2, <1>3 DEF Listing, HistoryPages, Ordered
  <1>8. Ordered'
    BY <1>1, <1>2, <1>3, <1>7 DEF Ordered
  <1>9. \A m \in Messages : \A x : /\ Clean(m, x) => (Clean(m, x))'
                                   /\ (Chosen(m, x))' = Chosen(m, x)
    BY <1>2, <1>3, <1>4, SameMailbox DEF Clean, Chosen
  <1>10. seen \subseteq Messages
    BY <1>1 DEF Typed
  <1>11. CASE ~ReconcileMissing
    <2>1. \A m \in Messages : sources'[m] = sources[m] /\ (Existing(m))' = Existing(m)
      BY <1>4, <1>11 DEF Existing
    <2>2. \A m \in Messages : \A x : (Kept(m, x))' = Kept(m, x)
      BY <1>2, <2>1, SameMailbox DEF Kept
    <2>3. CursorKeeps' /\ CursorCleans'
      BY <1>2, <2>1, CursorSame
    <2>4. HistoryDone'
      BY <1>1, <1>2, <1>3, <1>7, <1>9, <1>10, <2>2 DEF HistoryDone
    <2>5. \A x : ScannedFrom(x) => (ScannedFrom(x))'
      BY <1>2, <1>3, <1>7, <1>9, <2>1, SameMailbox DEF ScannedFrom
    <2>6. ScanDone'
      BY <1>1, <1>2, <1>3, <1>7, <1>9, <1>10, <1>11, <2>5 DEF ScanDone, ReconcileMissing
    <2> QED
      BY <1>5, <1>6, <1>8, <2>3, <2>4, <2>6 DEF IInv
  <1>12. CASE ReconcileMissing
    <2>1. run.mode = "full" /\ run.complete
      BY <1>12 DEF ReconcileMissing
    <2>2. PICK from \in run.start .. Len(history) : ScannedFrom(from)
      BY <1>1, <1>7, <2>1 DEF ScanDone
    <2>3. from \in Nat /\ run.start \in Nat /\ history \in Seq(Messages)
      BY <1>1 DEF Typed, RunRow, Cursors
    <2>4. \A m \in Messages : sources'[m] # sources[m] =>
            ~Selected(m, run.scope) \/ Changed(m, from)
      BY <1>2, <1>4, <1>12, <2>2, UnseenUnselected
    <2>5. /\ \A c \in cursor.committed : c \in Nat /\ c <= from
          /\ \A p \in HistoryPages : p.next \in Nat /\ p.next <= from
      BY <1>1, <2>2 DEF Typed, CursorRow, Cursors, HistoryPages, ScannedFrom
    <2>6. \A m \in Messages, x \in Nat : x <= from /\ Kept(m, x) => (Kept(m, x))'
      BY <1>2, <1>7, <2>3, <2>4, SameMailbox, LaterChange DEF Kept
    <2>7. CursorKeeps'
      BY <1>2, <1>7, <2>5, <2>6 DEF IInv, CursorKeeps
    <2>8. CursorCleans'
      BY <1>2, <1>7, <1>9 DEF IInv, CursorCleans
    <2>9. HistoryDone'
      BY <1>3, <2>1 DEF HistoryDone
    <2>10. (ScannedFrom(from))'
      <3>1. ASSUME NEW m \in Messages \ run'.left,
                   ~(Changed(m, from))', (Selected(m, run.scope))'
            PROVE  /\ m \in seen \/ ~(Existing(m))'
                   /\ "off" \notin run'.ghost /\ m \notin Oversized =>
                         m \in run'.item \/ sources'[m] = "indexed"
        <4>1. ~Changed(m, from) /\ Selected(m, run.scope)
          BY <1>2, <1>3, <3>1, SameMailbox
        <4>2. sources'[m] = sources[m]
          BY <2>4, <4>1
        <4>3. m \notin run.left \cup run.todo
          BY <1>2, <1>3, <3>1
        <4> QED
          BY <1>2, <1>3, <1>4, <2>2, <4>1, <4>2, <4>3 DEF ScannedFrom
      <3> QED
        BY <1>2, <1>3, <1>7, <2>2, <3>1 DEF ScannedFrom
    <2>11. "replay" \notin run.ghost => \A m \in seen : (Chosen(m, run.start))'
      BY <1>1, <1>3, <1>7, <1>9, <1>10, <2>1 DEF ScanDone
    <2>12. "replay" \notin run.ghost => \A m \in Messages : (Clean(m, run.start))'
      <3> SUFFICES ASSUME "replay" \notin run.ghost, NEW m \in Messages
                   PROVE  (Clean(m, run.start))'
        OBVIOUS
      <3>1. CASE m \in seen
        <4>1. (Chosen(m, run.start))'
          BY <2>11, <3>1
        <4>2. cursor'.scope = run'.scope
          BY <1>2, <1>3, <1>7
        <4> QED
          BY <4>1, <4>2 DEF Chosen, Clean
      <3>2. CASE m \notin seen
        BY <1>4, <1>12, <3>2 DEF Clean
      <3> QED
        BY <3>1, <3>2
    <2> QED
      BY <1>2, <1>3, <1>5, <1>6, <1>8, <2>2, <2>7, <2>8, <2>9, <2>10, <2>11, <2>12
         DEF IInv, ScanDone
  <1> QED
    BY <1>11, <1>12

\* The commit of a page that is not the last one.
LEMMA CommitPageKeeps ==
    ASSUME IInv, commitConnectorSyncPage, ~run.complete
    PROVE  IInv'
  <1>1. Typed /\ Shaped /\ Ordered /\ HistoryDone /\ ScanDone
    BY DEF IInv
  <1>2. run.pc = "commit" /\ run.todo = {} /\ run.item = {} /\ ~run.failures
        /\ run.gone = {} /\ run.mode \in {"history", "full"}
        /\ UNCHANGED <<label, history, floor, scope, small, sources, seen, crashed, spent>>
    BY <1>1 DEF commitConnectorSyncPage, At, Provider, Shaped, Typed, RunRow, Modes
  <1>3. /\ run' \in RunRow /\ run'.pc = "page"
        /\ run'.scope = run.scope /\ run'.mode = run.mode /\ run'.id = run.id
        /\ run'.start = run.start /\ run'.next = run.next
        /\ run'.todo = run.todo /\ run'.gone = run.gone /\ run'.left = run.left
        /\ run'.item = run.item /\ run'.complete = run.complete
        /\ run'.failures = run.failures /\ run'.ghost = run.ghost
    BY <1>1 DEF commitConnectorSyncPage, Typed, RunRow, Pcs
  <1>4. /\ cursor' \in CursorRow /\ cursor'.scope = cursor.scope
        /\ cursor'.committed = cursor.committed /\ cursor'.ghost = cursor.ghost
        /\ cursor'.page = {[mode |-> run.mode, next |-> run.next]}
    <2>1. [mode |-> run.mode, next |-> run.next] \in [mode : {"history", "full"}, next : Cursors]
      BY <1>1, <1>2 DEF Typed, RunRow
    <2> QED
      BY <1>1, <2>1 DEF commitConnectorSyncPage, Typed, CursorRow
  <1>5. HistoryPages' = IF run.mode = "history"
                        THEN {[mode |-> run.mode, next |-> run.next]} ELSE {}
    BY <1>4 DEF HistoryPages
  <1>6. Typed'
    BY <1>1, <1>2, <1>3, <1>4 DEF Typed
  <1>7. Shaped'
    BY <1>1, <1>2, <1>3 DEF Shaped
  <1>8. Listing /\ Listing' /\ cursor.scope = run.scope
    BY <1>1, <1>2, <1>3 DEF Listing, Ordered
  <1>9. \A m \in Messages : \A x : /\ (Kept(m, x))' = Kept(m, x)
                                   /\ (Clean(m, x))' = Clean(m, x)
                                   /\ (Chosen(m, x))' = Chosen(m, x)
                                   /\ (Existing(m))' = Existing(m)
    BY <1>2, <1>3, <1>4, SameMailbox DEF Kept, Clean, Chosen, Existing
  <1>10. Ordered'
    <2>1. CASE run.mode = "history"
      BY <1>1, <1>2, <1>3, <1>4, <1>5, <1>8, <2>1, LenProperties DEF Ordered, Typed, RunRow, Cursors
    <2>2. CASE run.mode = "full"
      BY <1>1, <1>2, <1>3, <1>4, <1>5, <1>8, <2>2 DEF Ordered
    <2> QED
      BY <1>2, <2>1, <2>2
  <1>11. CursorKeeps'
    <2>1. "off" \notin cursor.ghost /\ run.mode = "history" =>
            \A m \in Messages \ Oversized : Kept(m, run.next)
      BY <1>1, <1>2, <1>8 DEF HistoryDone
    <2> QED
      BY <1>4, <1>5, <1>9, <2>1 DEF IInv, CursorKeeps
  <1>12. CursorCleans'
    <2>1. "replay" \notin cursor.ghost /\ run.mode = "history" =>
            \A m \in Messages : Clean(m, run.next)
      BY <1>1, <1>2, <1>8 DEF HistoryDone
    <2> QED
      BY <1>4, <1>5, <1>9, <2>1 DEF IInv, CursorCleans
  <1>13. seen \subseteq Messages
    BY <1>1 DEF Typed
  <1>14. HistoryDone'
    BY <1>1, <1>2, <1>3, <1>4, <1>8, <1>9, <1>13 DEF HistoryDone
  <1>15. ScanDone'
    <2> SUFFICES ASSUME run.mode = "full" PROVE ScanDone'
      BY <1>3 DEF ScanDone
    <2>1. HistoryPages' = {}
      BY <1>5
    <2>2. \A x : ScannedFrom(x) => (ScannedFrom(x))'
      BY <1>2, <1>3, <1>4, <1>9, <2>1, SameMailbox DEF ScannedFrom
    <2> QED
      BY <1>1, <1>2, <1>3, <1>8, <1>9, <1>13, <2>2 DEF ScanDone
  <1> QED
    BY <1>6, <1>7, <1>10, <1>11, <1>12, <1>14, <1>15 DEF IInv

\* The checkpoint of a complete listing.
LEMMA CheckpointKeeps ==
    ASSUME IInv, commitConnectorSyncPage, run.complete
    PROVE  IInv'
  <1>1. Typed /\ Shaped /\ Ordered /\ HistoryDone /\ ScanDone
    BY DEF IInv
  <1>2. run.pc = "commit" /\ run.todo = {} /\ run.item = {} /\ ~run.failures
        /\ run.gone = {} /\ run' = NoRun
        /\ UNCHANGED <<label, history, floor, scope, small, sources, seen, crashed, spent>>
    BY <1>1 DEF commitConnectorSyncPage, At, Provider, Shaped
  <1>3. run.next \in Cursors /\ run.start \in Cursors /\ run.mode \in Modes
        /\ run.ghost \subseteq {"replay", "off"} /\ cursor.ghost \subseteq {"replay", "off"}
        /\ history \in Seq(Messages)
    BY <1>1 DEF Typed, RunRow, CursorRow
  <1>4. /\ cursor' \in CursorRow /\ cursor'.scope = cursor.scope
        /\ cursor'.committed = Checkpoint /\ cursor'.page = {}
        /\ cursor'.ghost = IF run.mode = "full" THEN run.ghost
                           ELSE cursor.ghost \cup (run.ghost \ {"replay"})
    <2>1. Checkpoint \in SUBSET Cursors
      BY <1>3 DEF Checkpoint
    <2> QED
      BY <1>1, <1>3, <2>1 DEF commitConnectorSyncPage, Typed, CursorRow
  <1>5. Listing /\ HistoryPages' = {} /\ cursor.scope = run.scope /\ run'.pc = "idle"
    BY <1>1, <1>2, <1>4 DEF Listing, HistoryPages, Ordered, NoRun
  <1>6. Typed'
    BY <1>1, <1>2, <1>4, NoRunTyped DEF Typed
  <1>7. \A c \in Checkpoint : c <= Len(history)
    <2>1. run.mode = "history" => run.next <= Len(history)
      BY <1>1, <1>5 DEF Ordered
    <2>2. run.mode = "full" => run.start <= Len(history)
      <3>1. run.start \in Nat /\ Len(history) \in Nat
        BY <1>3, LenProperties DEF Cursors
      <3> QED
        BY <1>1, <1>5, <3>1 DEF ScanDone
    <2> QED
      BY <2>1, <2>2 DEF Checkpoint
  <1>8. Ordered'
    <2>1. \A c, d \in Checkpoint : c = d
      BY DEF Checkpoint
    <2> QED
      BY <1>2, <1>4, <1>5, <1>7, <2>1 DEF Ordered, Listing
  <1>9. \A m \in Messages : \A x : /\ (Kept(m, x))' = Kept(m, x)
                                   /\ (Clean(m, x))' = Clean(m, x)
    BY <1>2, <1>4, SameMailbox DEF Kept, Clean
  <1>10. CursorKeeps'
    <2> SUFFICES ASSUME "off" \notin cursor'.ghost, NEW m \in Messages \ Oversized,
                        NEW c \in Checkpoint
                 PROVE  Kept(m, c)
      BY <1>4, <1>5, <1>9 DEF CursorKeeps
    <2>1. CASE run.mode = "history"
      BY <1>1, <1>2, <1>4, <1>5, <2>1 DEF HistoryDone, Checkpoint
    <2>2. CASE run.mode = "full"
      <3>1. PICK from \in run.start .. Len(history) : ScannedFrom(from)
        BY <1>1, <1>5, <2>2 DEF ScanDone
      <3>2. c = run.start /\ c \in Nat /\ from \in Nat /\ c <= from
        BY <1>3, <2>2, <3>1, LenProperties DEF Checkpoint, Cursors
      <3>3. run.left = {}
        BY <1>1, <2>2 DEF Shaped
      <3>4. ~Changed(m, from) /\ Selected(m, run.scope) => sources[m] = "indexed"
        BY <1>2, <1>4, <2>2, <3>1, <3>3 DEF ScannedFrom
      <3>5. Changed(m, from) => Changed(m, c)
        BY <1>3, <3>2, LaterChange
      <3> QED
        BY <1>5, <3>4, <3>5 DEF Kept
    <2>3. run.mode # "off"
      BY DEF Checkpoint
    <2> QED
      BY <1>3, <2>1, <2>2, <2>3 DEF Modes
  <1>11. CursorCleans'
    <2> SUFFICES ASSUME "replay" \notin cursor'.ghost, NEW m \in Messages,
                        NEW c \in Checkpoint
                 PROVE  Clean(m, c)
      BY <1>4, <1>5, <1>9 DEF CursorCleans
    <2>1. CASE run.mode = "history"
      BY <1>1, <1>2, <1>4, <1>5, <2>1 DEF HistoryDone, Checkpoint
    <2>2. CASE run.mode = "full"
      BY <1>1, <1>2, <1>4, <1>5, <2>2 DEF ScanDone, Checkpoint
    <2>3. run.mode # "off"
      BY DEF Checkpoint
    <2> QED
      BY <1>3, <2>1, <2>2, <2>3 DEF Modes
  <1> QED
    BY <1>2, <1>6, <1>8, <1>10, <1>11, IdleKeeps

LEMMA StepKeeps == IInv /\ [Next]_vars => IInv'
  <1> SUFFICES ASSUME IInv, [Next]_vars PROVE IInv'
    OBVIOUS
  <1>1. CASE Step
    <2>1. CASE \E m \in Messages : UpsertItem(m)
      BY <2>1, UpsertItemKeeps
    <2>2. CASE commitConnectorSyncPage
      BY <2>2, CommitPageKeeps, CheckpointKeeps
    <2> QED
      BY <1>1, <2>1, <2>2, StartRunKeeps, ResetCursorKeeps, ReadProfileKeeps, FetchPageKeeps,
         IndexItemKeeps, PageAppliedKeeps, DropDeletedKeeps, ReconcileKeeps DEF Step
  <1>2. CASE RunEnds
    <2>1. UNCHANGED <<label, history, floor, scope, small, sources, seen, cursor>>
          /\ run' = NoRun /\ crashed' \in BOOLEAN
      BY <1>2 DEF RunEnds, Provider
    <2>2. Spend /\ spent \in [faults : 0 .. MaxFaults, edits : 0 .. MaxEdits]
      BY <1>2 DEF RunEnds, IInv, Typed
    <2>3. spent' \in [faults : 0 .. MaxFaults, edits : 0 .. MaxEdits]
      BY <2>2, SyncAssumption DEF Spend
    <2> QED
      BY <2>1, <2>3, RunEndsKeeps
  <1>3. CASE ItemFails
    BY <1>3, ItemFailsKeeps
  <1>4. CASE HistoryExpires \/ PlanShrinks
    BY <1>4, ProviderKeeps
  <1>5. CASE \E m \in Messages, to \in Labels : MessageChanges(m, to)
    BY <1>5, MessageChangesKeeps
  <1>6. CASE \E to \in Scopes : EditScope(to)
    BY <1>6, EditScopeKeeps
  <1>7. CASE UNCHANGED vars
    <2>1. UNCHANGED <<label, history, floor, scope, small, sources, seen, cursor, run,
                      crashed, spent>>
      BY <1>7 DEF vars
    <2>2. Typed'
      BY <2>1 DEF IInv, Typed
    <2> QED
      BY <2>1, <2>2, FrameKeeps
  <1> QED
    BY <1>1, <1>2, <1>3, <1>4, <1>5, <1>6, <1>7 DEF Next

LEMMA Invariance == Spec => []IInv
  <1> QED
    BY InitKeeps, StepKeeps, PTL DEF Spec

-----------------------------------------------------------------------------
\* The theorems

\* A committed cursor and every run keep to their ranges (connector_sync_state
\* and connector_runs rows), and there is at most one committed cursor.
THEOREM TypeCorrect == Spec => []TypeOK
  <1>1. IInv => TypeOK
    <2> SUFFICES ASSUME IInv PROVE TypeOK
      OBVIOUS
    <2>1. Typed /\ Ordered
      BY DEF IInv
    <2>2. Cardinality(cursor.committed) <= 1
      <3>1. CASE cursor.committed = {}
        BY <3>1, FS_EmptySet
      <3>2. CASE cursor.committed # {}
        <4>1. PICK c \in cursor.committed : cursor.committed = {c}
          BY <2>1, <3>2 DEF Ordered
        <4>2. Cardinality({c}) = 1
          BY FS_Singleton
        <4>3. Cardinality(cursor.committed) = 1
          BY <4>1, <4>2, Zenon
        <4> QED
          BY <4>3
      <3> QED
        BY <3>1, <3>2
    <2>3. /\ cursor.scope \in Scopes \cup {None} /\ cursor.committed \subseteq Cursors
          /\ \A c \in cursor.page : c.mode \in {"history", "full"}
          /\ cursor.ghost \subseteq {"replay", "off"}
      BY <2>1 DEF Typed, CursorRow
    <2>4. /\ run.pc \in Pcs /\ run.scope \in Scopes \cup {Off}
          /\ run.id \in Cursors /\ run.start \in Cursors /\ run.next \in Cursors
          /\ run.todo \cup run.gone \cup run.left \cup run.item \subseteq Messages
          /\ run.ghost \subseteq {"replay", "off"}
      BY <2>1 DEF Typed, RunRow
    <2> QED
      BY <2>1, <2>2, <2>3, <2>4 DEF Typed, TypeOK
  <1> QED
    BY <1>1, Invariance, PTL

\* Whatever pages, crashes, failures, expiries and scopes led to the cursor
\* (sync-orchestrator.ts run, repository/sync-state.ts commitConnectorSyncPage),
\* a selected message whose changes it covers is indexed.
THEOREM NothingIsMissed == Spec => []NothingMissed
  <1>1. IInv => NothingMissed
    BY DEF IInv, CursorKeeps, NothingMissed, Covered, Kept, Changed
  <1> QED
    BY <1>1, Invariance, PTL

\* A deleted or unselected message whose changes the cursor covers is not
\* searchable (archiveConnectorSource, archiveConnectorSourcesNotSeenInRun).
THEOREM NothingIsStale == Spec => []NothingStale
  <1>1. IInv => NothingStale
    BY DEF IInv, CursorCleans, NothingStale, Covered, Clean, Changed
  <1> QED
    BY <1>1, Invariance, PTL

\* archiveConnectorSourcesNotSeenInRun archives only the sources of messages
\* that are not selected, or have changed since the scan began.
THEOREM ArchivesOnlyUnselected == Spec => OnlyUnselectedArchived
  <1>1. ASSUME IInv, [Next]_vars, NEW m \in Messages, At("reconcile"), run'.pc = "commit",
               Existing(m), sources'[m] = "archived"
        PROVE  \/ ~Selected(m, run.scope)
               \/ \E i \in run.start + 1 .. Len(history) : history[i] = m
    <2>1. ReconcileMissing /\ m \notin seen
      <3>1. run.pc = "reconcile" /\ sources[m] # "archived" /\ sources'[m] # sources[m]
        BY <1>1 DEF At, Existing
      <3>2. Reconcile \/ \E to \in Scopes : EditScope(to)
        <4>1. ~StartRun /\ ~getOrResetConnectorSyncState /\ ~ReadProfile /\ ~FetchPage
              /\ ~IndexItem /\ ~PageApplied /\ ~DropDeleted /\ ~commitConnectorSyncPage
          BY <3>1 DEF StartRun, getOrResetConnectorSyncState, ReadProfile, FetchPage,
             IndexItem, PageApplied, DropDeleted, commitConnectorSyncPage, At
        <4>2. ~(\E n \in Messages : UpsertItem(n)) /\ ~ItemFails
          BY <3>1 DEF UpsertItem, ItemFails, At
        <4>3. ~RunEnds /\ ~HistoryExpires /\ ~PlanShrinks /\ ~(UNCHANGED vars)
          BY <3>1 DEF RunEnds, HistoryExpires, PlanShrinks, vars
        <4>4. ~(\E n \in Messages, to \in Labels : MessageChanges(n, to))
          BY <3>1 DEF MessageChanges
        <4> QED
          BY <1>1, <4>1, <4>2, <4>3, <4>4 DEF Next, Step
      <3>3. ~(\E to \in Scopes : EditScope(to))
        <4> SUFFICES ASSUME NEW to \in Scopes, EditScope(to) PROVE FALSE
          OBVIOUS
        <4>1. run'.pc = run.pc
          BY <1>1, <3>1 DEF EditScope, At, IInv, Typed, RunRow
        <4> QED
          BY <1>1, <3>1, <4>1
      <3>4. Reconcile
        BY <3>2, <3>3
      <3> QED
        BY <3>1, <3>4 DEF Reconcile
    <2>2. PICK from \in run.start .. Len(history) : ScannedFrom(from)
      BY <1>1, <2>1 DEF IInv, ScanDone, Listing, At, ReconcileMissing
    <2>3. ~Selected(m, run.scope) \/ Changed(m, from)
      BY <1>1, <2>1, <2>2, UnseenUnselected DEF At
    <2>4. history \in Seq(Messages) /\ run.start \in Nat
      BY <1>1 DEF IInv, Typed, RunRow, Cursors
    <2>5. Changed(m, from) => Changed(m, run.start)
      BY <2>2, <2>4, LaterChange, LenProperties
    <2> QED
      BY <2>3, <2>5 DEF Changed
  <1>2. IInv /\ [Next]_vars =>
          [\A m \in Messages :
             /\ At("reconcile") /\ run'.pc = "commit"
             /\ Existing(m) /\ sources'[m] = "archived"
             => \/ ~Selected(m, run.scope)
                \/ \E i \in run.start + 1 .. Len(history) : history[i] = m]_vars
    BY <1>1
  <1> QED
    BY <1>2, Invariance, PTL DEF Spec, OnlyUnselectedArchived
=============================================================================
