--------------------------- MODULE SnapshotReads ---------------------------
(***************************************************************************)
(* Reading a workspace's log in one API process (PostgresFoldDatabase).    *)
(* Requests read concurrently. Unselected reads share one load: a request  *)
(* joins the active one if that is pinned to a head as new as its own, and *)
(* queues behind it otherwise; loads go page by page and extend a cached   *)
(* snapshot. Selected reads (a run's transcript, the latest events of each *)
(* session) share a cache object that each of them extends when its query  *)
(* comes back. Rows are numbered by their ingestion sequence; a snapshot   *)
(* is the set of its rows, since its order is that of their times and ids. *)
(***************************************************************************)
EXTENDS Naturals, Sequences, FiniteSets, FiniteSetsExt

CONSTANTS
  Readers,     \* requests that read the whole log
  SelReaders,  \* requests that read one selection
  Kinds,       \* kinds of events appended: "project", "run", "artifact", "other"
  Groups,      \* sessions the events belong to
  Latest,      \* the selection is latestBySession
  PageSize,    \* eventPageSize
  Objects,     \* cache objects of the selection
  None,
  MaxLog       \* bound: events

SnapshotReadsAssumption ==
  /\ Kinds \subseteq {"project", "run", "artifact", "other"} /\ Latest \in BOOLEAN
  /\ PageSize \in Nat \ {0} /\ MaxLog \in Nat
  /\ None \notin Readers \cup SelReaders \cup Objects
  /\ Cardinality(Objects) > Cardinality(SelReaders)

VARIABLES
  log,      \* fold_events of the workspace, by ingestion sequence
  cache,    \* eventCaches: a set with at most one snapshot
  active,   \* eventReads: the request whose flight is registered
  pc, minimum, behind, got, answer,          \* unselected requests
  slot, object,                              \* selectionCaches
  selPc, selHead, selObject, since, rows, selAnswer  \* selected requests

readVars == <<cache, active, pc, minimum, behind, got, answer>>
selVars == <<slot, object, selPc, selHead, selObject, since, rows, selAnswer>>
vars == <<log, readVars, selVars>>

NoSnapshot == [sequence |-> 0, entries |-> {}]
NewObject == [sequence |-> 0, entries |-> {}, built |-> FALSE]

Init ==
  /\ log = <<>> /\ cache = {} /\ active = None
  /\ pc = [r \in Readers |-> "idle"] /\ minimum = [r \in Readers |-> 0]
  /\ behind = [r \in Readers |-> None]
  /\ got = [r \in Readers |-> NoSnapshot] /\ answer = [r \in Readers |-> NoSnapshot]
  /\ slot = None /\ object = [o \in Objects |-> NewObject]
  /\ selPc = [s \in SelReaders |-> "idle"] /\ selHead = [s \in SelReaders |-> 0]
  /\ selObject = [s \in SelReaders |-> None] /\ since = [s \in SelReaders |-> 0]
  /\ rows = [s \in SelReaders |-> {}] /\ selAnswer = [s \in SelReaders |-> NoSnapshot]

\* appendEntries of any process; commits are in sequence order (FoldStore).
AppendEntry ==
  /\ Len(log) < MaxLog
  /\ \E k \in Kinds, g \in Groups : log' = Append(log, [kind |-> k, group |-> g])
  /\ UNCHANGED <<readVars, selVars>>

-----------------------------------------------------------------------------
(* readSnapshot without a selection                                        *)

workspaceRevision(r) ==
  /\ pc[r] = "idle"
  /\ minimum' = [minimum EXCEPT ![r] = Len(log)]
  /\ pc' = [pc EXCEPT ![r] = "asked"]
  /\ UNCHANGED <<log, cache, active, behind, got, answer, selVars>>

Joinable(r) == active # None /\ minimum[active] >= minimum[r]

Join(r) ==
  /\ pc[r] = "asked" /\ Joinable(r)
  /\ pc' = [pc EXCEPT ![r] = "joined"]
  /\ behind' = [behind EXCEPT ![r] = active]
  /\ UNCHANGED <<log, cache, active, minimum, got, answer, selVars>>

\* The cached snapshot a load starts from; one newer than the pinned head is not used.
Prior(r) ==
  IF \E c \in cache : c.sequence <= minimum[r] THEN CHOOSE c \in cache : TRUE ELSE NoSnapshot

\* A flight that finds another one queues behind it; the first one loads at once.
Launch(r) ==
  /\ pc[r] = "asked" /\ ~Joinable(r)
  /\ active' = r
  /\ behind' = [behind EXCEPT ![r] = active]
  /\ IF active = None
       THEN pc' = [pc EXCEPT ![r] = "loads"] /\ got' = [got EXCEPT ![r] = Prior(r)]
       ELSE pc' = [pc EXCEPT ![r] = "queued"] /\ UNCHANGED got
  /\ UNCHANGED <<log, cache, minimum, answer, selVars>>

\* active.promise.then(load, load): the flight ahead has settled, one way or the other.
Proceed(r) ==
  /\ pc[r] = "queued" /\ behind[r] = None
  /\ pc' = [pc EXCEPT ![r] = "loads"] /\ got' = [got EXCEPT ![r] = Prior(r)]
  /\ UNCHANGED <<log, cache, active, minimum, behind, answer, selVars>>

LoadPage(r) ==
  /\ pc[r] = "loads" /\ got[r].sequence < minimum[r]
  /\ LET last == Min({got[r].sequence + PageSize, minimum[r]})
     IN got' = [got EXCEPT ![r] = [sequence |-> last,
                  entries |-> @.entries \cup (@.sequence + 1)..last]]
  /\ UNCHANGED <<log, cache, active, pc, minimum, behind, answer, selVars>>

\* Everyone who waits for flight r gets its outcome; the flight behind it may go on.
Waiters(r) == {q \in Readers : q = r \/ (pc[q] = "joined" /\ behind[q] = r)}
Released(r) == [q \in Readers |-> IF behind[q] = r THEN None ELSE behind[q]]
Settle(r, outcome) ==
  /\ pc' = [q \in Readers |-> IF q \in Waiters(r) THEN outcome ELSE pc[q]]
  /\ behind' = Released(r)
  /\ active' = IF active = r THEN None ELSE active

LoadDone(r) ==
  /\ pc[r] = "loads" /\ got[r].sequence >= minimum[r]
  /\ LET done == [sequence |-> minimum[r], entries |-> got[r].entries]
     IN /\ answer' = [q \in Readers |-> IF q \in Waiters(r) THEN done ELSE answer[q]]
        /\ cache' = {done}
  /\ Settle(r, "done")
  /\ UNCHANGED <<log, minimum, got, selVars>>

\* Mutant: the flight behind a failed one is not released.
LoadFailsAlone(r) ==
  /\ pc[r] = "loads" /\ got[r].sequence < minimum[r]
  /\ pc' = [q \in Readers |-> IF q \in Waiters(r) THEN "failed" ELSE pc[q]]
  /\ active' = IF active = r THEN None ELSE active
  /\ UNCHANGED <<log, cache, behind, minimum, got, answer, selVars>>
\* A page query fails.
LoadFails(r) ==
  /\ pc[r] = "loads" /\ got[r].sequence < minimum[r]
  /\ Settle(r, "failed")
  /\ UNCHANGED <<log, cache, minimum, got, answer, selVars>>

\* The request is answered; its place stands for another request.
NextRequest(r) ==
  /\ pc[r] \in {"done", "failed"}
  /\ pc' = [pc EXCEPT ![r] = "idle"]
  /\ minimum' = [minimum EXCEPT ![r] = 0] /\ got' = [got EXCEPT ![r] = NoSnapshot]
  /\ answer' = [answer EXCEPT ![r] = NoSnapshot]
  /\ UNCHANGED <<log, cache, active, behind, selVars>>

\* BoundedCache: other workspaces take the room, or the snapshot is too big to keep.
Evict ==
  /\ cache # {} /\ cache' = {}
  /\ UNCHANGED <<log, active, pc, minimum, behind, got, answer, selVars>>

-----------------------------------------------------------------------------
(* readSelectionSnapshot                                                   *)

\* selectionSql for a transcript run: an artifact is selected once a run names it.
Selected ==
  {i \in 1..Len(log) :
     \/ log[i].kind \in {"project", "run"}
     \/ log[i].kind = "artifact" /\ \E j \in 1..Len(log) : log[j].kind = "run"}
SelectedHead == Max({0} \cup Selected)

\* row_number() ... ORDER BY sequence DESC = 1
LatestOf(S) == {i \in S : \A j \in S : log[j].group = log[i].group => j <= i}
Picked(S) == IF Latest THEN LatestOf(S) ELSE S

selRevision(s) ==
  /\ selPc[s] = "idle"
  /\ selHead' = [selHead EXCEPT ![s] = SelectedHead]
  /\ selPc' = [selPc EXCEPT ![s] = "asked"]
  /\ UNCHANGED <<log, readVars, slot, object, selObject, since, rows, selAnswer>>

Unused == Objects \ ({slot} \cup {selObject[s] : s \in SelReaders})

\* The cache object of the selection, or a new one when there is none or it is ahead.
Usable(s) == slot # None /\ object[slot].sequence <= selHead[s]

Answered(s, set) ==
  /\ selAnswer' = [selAnswer EXCEPT ![s] = [sequence |-> selHead[s], entries |-> set]]
  /\ selPc' = [selPc EXCEPT ![s] = "done"]
  /\ selObject' = [selObject EXCEPT ![s] = None]

Lookup(s) ==
  /\ selPc[s] = "asked" /\ Usable(s)
  /\ IF object[slot].sequence = selHead[s] /\ object[slot].built
       THEN Answered(s, object[slot].entries) /\ UNCHANGED since
       ELSE /\ selPc' = [selPc EXCEPT ![s] = "queries"]
            /\ selObject' = [selObject EXCEPT ![s] = slot]
            /\ since' = [since EXCEPT ![s] = object[slot].sequence]
            /\ UNCHANGED selAnswer
  /\ UNCHANGED <<log, readVars, slot, object, selHead, rows>>

Replace(s) ==
  /\ selPc[s] = "asked" /\ ~Usable(s)
  /\ LET o == CHOOSE o \in Unused : TRUE
     IN /\ slot' = o /\ selObject' = [selObject EXCEPT ![s] = o]
        /\ object' = [p \in Objects |-> IF p \in Unused THEN NewObject ELSE object[p]]
  /\ since' = [since EXCEPT ![s] = 0]
  /\ selPc' = [selPc EXCEPT ![s] = "queries"]
  /\ UNCHANGED <<log, readVars, selHead, rows, selAnswer>>

\* sinceSql
Since(s) == {i \in Selected : (i > since[s] /\ i <= selHead[s]) \/ log[i].kind = "artifact"}

Query(s) ==
  /\ selPc[s] = "queries"
  /\ rows' = [rows EXCEPT ![s] = Picked(Since(s))]
  /\ selPc' = [selPc EXCEPT ![s] = "applies"]
  /\ UNCHANGED <<log, readVars, slot, object, selHead, selObject, since, selAnswer>>

\* Rows the object has already are skipped; its sequence and snapshot are this request's.
Apply(s) ==
  /\ selPc[s] = "applies"
  /\ LET o == selObject[s]
         all == object[o].entries \cup rows[s]
     IN /\ object' = [object EXCEPT ![o] =
                        [sequence |-> selHead[s], entries |-> all, built |-> TRUE]]
        /\ Answered(s, all)
  /\ rows' = [rows EXCEPT ![s] = {}]
  /\ UNCHANGED <<log, readVars, slot, selHead, since>>

\* A query fails, or the request is answered; its place stands for another request.
SelNext(s) ==
  /\ selPc[s] \in {"done", "queries"}
  /\ selPc' = [selPc EXCEPT ![s] = "idle"] /\ selHead' = [selHead EXCEPT ![s] = 0]
  /\ selObject' = [selObject EXCEPT ![s] = None] /\ since' = [since EXCEPT ![s] = 0]
  /\ selAnswer' = [selAnswer EXCEPT ![s] = NoSnapshot]
  /\ UNCHANGED <<log, readVars, slot, object, rows>>

\* Sixteen other selections were read since.
SelEvict ==
  /\ slot # None /\ slot' = None
  /\ UNCHANGED <<log, readVars, object, selPc, selHead, selObject, since, rows, selAnswer>>

-----------------------------------------------------------------------------
Read(r) ==
  \/ workspaceRevision(r) \/ Join(r) \/ Launch(r) \/ Proceed(r)
  \/ LoadPage(r) \/ LoadDone(r) \/ LoadFails(r) \/ NextRequest(r)
ReadSelected(s) ==
  \/ selRevision(s) \/ Lookup(s) \/ Replace(s) \/ Query(s) \/ Apply(s) \/ SelNext(s)

Next ==
  \/ AppendEntry \/ Evict \/ SelEvict
  \/ \E r \in Readers : Read(r)
  \/ \E s \in SelReaders : ReadSelected(s)

Spec == Init /\ [][Next]_vars

\* Node runs callbacks that are due, and a page query ends with rows or an error.
Fairness ==
  \A r \in Readers :
    WF_vars(Join(r) \/ Launch(r) \/ Proceed(r) \/ LoadPage(r) \/ LoadDone(r))
FairSpec == Spec /\ Fairness

-----------------------------------------------------------------------------
(* Properties                                                              *)

\* A reader gets exactly the log up to the revision it is told, and that revision is
\* no older than the head when it asked, whichever load it joined or queued behind
\* (store.ts readSnapshot, loadSnapshot); the cached snapshot is such a prefix too.
AnswersExact ==
  /\ \A c \in cache : c.entries = 1..c.sequence
  /\ \A r \in Readers : pc[r] = "done" =>
       answer[r].sequence >= minimum[r] /\ answer[r].entries = 1..answer[r].sequence

\* Unselected reads of a workspace load one at a time (store.ts readSnapshot chains
\* a flight behind the active one).
OneLoad == Cardinality({r \in Readers : pc[r] = "loads"}) <= 1

\* What a selected read returns under a revision that is still the selection's head is
\* what the selection selects, so a command whose compare-and-set passes was checked
\* against all of it (store.ts readSelectionSnapshot, commitEntries:1648). The latest
\* events of each session are compared where only these are read.
SelectedExact ==
  \A s \in SelReaders :
    (selPc[s] = "done" /\ selAnswer[s].sequence = SelectedHead) =>
      /\ selAnswer[s].entries \subseteq Selected
      /\ Picked(selAnswer[s].entries) = Picked(Selected)
=============================================================================
