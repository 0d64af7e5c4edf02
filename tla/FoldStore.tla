----------------------------- MODULE FoldStore -----------------------------
(***************************************************************************)
(* One workspace of the PostgreSQL Fold store                              *)
(* (packages/fold-postgres/src/store.ts) and the SDK command loop that     *)
(* writes to it (FoldSdk.command, packages/fold-sdk/src/client.ts).        *)
(*                                                                         *)
(* Several API processes work on the same tenant.  A command looks for its *)
(* receipt, reads a pinned snapshot page by page, validates the entries it *)
(* stages against that snapshot, and commits them under the tenant's       *)
(* transaction advisory lock with a compare-and-set on the workspace head. *)
(* Imports and raw appends take the same lock, with neither receipt nor    *)
(* compare-and-set.  A sequence is drawn from the table's IDENTITY when    *)
(* the row is inserted and is gone for good if the transaction rolls back. *)
(* A process can die anywhere; PostgreSQL then rolls back and unlocks.     *)
(***************************************************************************)
EXTENDS Naturals, Sequences, FiniteSets

CONSTANTS
  Processes,     \* API processes and import tools
  Commands,      \* command identities
  Candidates,    \* memory candidates that candidate events are about
  Requests,      \* what callers may ask for: see RequestsAssumption
  PageSize,      \* rows per snapshot page (eventPageSize)
  MaxAttempts,   \* retries of a command after a revision conflict
  MaxSubmits,    \* bound: how many requests are submitted
  MaxForeign,    \* bound: sequences below it may go to other tenants
  None           \* no command, no candidate, no receipt, no lock holder

(***************************************************************************)
(* Of the candidate events: a proposal, an evidence contribution, and an   *)
(* acceptance that names the revision it was shown.                        *)
(***************************************************************************)
Kinds == {"plain", "proposed", "contributed", "decided"}

(***************************************************************************)
(* The parts of an event that the store and the candidate rules look at:   *)
(* its key (t, id), its kind, and for candidate events the candidate and   *)
(* the candidate revision it builds on.                                    *)
(***************************************************************************)
Entry == [id : Nat, t : Nat, kind : Kinds, cand : Candidates \cup {None}, rev : Nat]

Ops == {"command", "append", "import"}

Request == [op : Ops, cmd : Commands \cup {None}, entries : Seq(Entry)]

(***************************************************************************)
(* A command has an identity, an import or append has none; a batch names  *)
(* an event at most once.                                                  *)
(***************************************************************************)
ASSUME RequestsAssumption ==
  /\ Requests \subseteq Request
  /\ \A w \in Requests : (w.op = "command") <=> (w.cmd # None)
  /\ \A w \in Requests : \A i, j \in DOMAIN w.entries :
       w.entries[i].id = w.entries[j].id => i = j

ASSUME NoneAssumption == None \notin Commands \cup Candidates \cup Processes

ASSUME BoundsAssumption ==
  /\ PageSize \in Nat \ {0}
  /\ MaxAttempts \in Nat
  /\ MaxSubmits \in Nat
  /\ MaxForeign \in Nat

VARIABLES
  events,     \* committed rows of fold_events
  nextSeq,    \* next value of the fold_events.sequence IDENTITY
  receipts,   \* fold_command_receipts
  lock,       \* holder of the tenant's transaction advisory lock
  pc,         \* where each process is in its current request
  work,       \* the request it is serving
  attempt,    \* revision conflicts it has already retried
  cache,      \* eventCaches: snapshot rows and the sequence they reach
  load,       \* the snapshot being read: pinned head, reach, rows
  rest,       \* entries of the request still to be inserted
  staged,     \* entries of the request that are to be written
  pending,    \* rows inserted by the open transaction
  acked,      \* requests that were answered with success
  submits     \* requests submitted so far

store   == <<events, nextSeq, receipts, lock>>
memory  == <<pc, work, attempt, cache, load, rest, staged, pending>>
vars    == <<store, memory, acked, submits>>

Row == [seq : Nat, e : Entry, by : Requests]

Receipt == [req : Requests, entries : SUBSET Entry]

ASSUME NoReceiptAssumption == None \notin Receipt

Snapshot == [seq : Nat, rows : SUBSET Row]

Load == [head : Nat, at : Nat, rows : SUBSET Row]

PCs == {"idle", "lookup", "pin", "load", "stage", "lock", "check", "insert", "reply"}

NoWork  == [op |-> "append", cmd |-> None, entries |-> <<>>]
NoLoad  == [head |-> 0, at |-> 0, rows |-> {}]
NoCache == [seq |-> 0, rows |-> {}]

(* Type invariant: rows, receipts, lock, and what each process holds in memory. *)
TypeOK ==
  /\ events \subseteq Row
  /\ nextSeq \in Nat \ {0}
  /\ receipts \in [Commands -> Receipt \cup {None}]
  /\ lock \in Processes \cup {None}
  /\ pc \in [Processes -> PCs]
  /\ work \in [Processes -> Requests \cup {NoWork}]
  /\ attempt \in [Processes -> Nat]
  /\ cache \in [Processes -> Snapshot]
  /\ load \in [Processes -> Load]
  /\ rest \in [Processes -> Seq(Entry)]
  /\ staged \in [Processes -> SUBSET Entry]
  /\ pending \in [Processes -> SUBSET Row]
  /\ acked \subseteq Requests
  /\ submits \in Nat

----------------------------------------------------------------------------
(* Event keys, the workspace head and the candidate rules. *)

Entries(rows) == {r.e : r \in rows}

(* compareEventKeys: time first, then the id. *)
Before(a, b) == a.t < b.t \/ (a.t = b.t /\ a.id < b.id)

(* COALESCE(MAX(sequence), 0) *)
Head0(rows) ==
  IF rows = {} THEN 0
  ELSE CHOOSE m \in {r.seq : r \in rows} : \A r \in rows : r.seq <= m

(* The candidate revision an event meets when the log is replayed by key. *)
RevisionBefore(es, e) ==
  Cardinality({s \in es : s.kind = "contributed" /\ s.cand = e.cand /\ Before(s, e)})

(***************************************************************************)
(* Whether rebuildMemoryCandidates accepts the events: replayed by key,    *)
(* each candidate is proposed once, contributed to and decided only while  *)
(* it is known and undecided, and each of those events builds on exactly   *)
(* the revision it names.                                                  *)
(***************************************************************************)
CandidatesReplay(es) ==
  \A e \in es : e.kind # "plain" =>
    LET same == {o \in es \ {e} : o.kind # "plain" /\ o.cand = e.cand} IN
    IF e.kind = "proposed"
    THEN \A o \in same : o.kind # "proposed"
    ELSE /\ \E o \in same : o.kind = "proposed" /\ Before(o, e)
         /\ \A o \in same : o.kind = "decided" => Before(e, o) /\ e.kind # "decided"
         /\ e.rev = RevisionBefore(es, e)

(***************************************************************************)
(* validateCandidateTransition, run inside the tenant lock for every entry *)
(* that contributes to or decides a candidate.                             *)
(***************************************************************************)
ValidTransition(es, e) ==
  e.kind \in {"contributed", "decided"} =>
    LET about == {o \in es : o.kind # "plain" /\ o.cand = e.cand} IN
    /\ CandidatesReplay(about)
    /\ \E o \in about : o.kind = "proposed"
    /\ \A o \in about : o.kind # "decided" /\ Before(o, e)
    /\ CandidatesReplay(about \cup {e})

(* Mutant: the id of an earlier row with the same time is not compared. *)
AnyIdAt(rows, e) == TRUE

(* The newest row at the entry's time must carry a smaller id. *)
MonotonicAt(rows, e) ==
  \A r \in rows : (r.e.t = e.t /\ \A q \in rows : q.e.t = e.t => q.seq <= r.seq) => r.e.id < e.id

(* Primary key (organization, workspace, event_id). *)
UniqueId(rows, e) == \A r \in rows : r.e.id # e.id

Insertable(rows, e) ==
  /\ ValidTransition(Entries(rows), e)
  /\ MonotonicAt(rows, e)
  /\ UniqueId(rows, e)

----------------------------------------------------------------------------
(* What commitEntryBatch does with a request's entries on a snapshot. *)

Batch(w) == {w.entries[i] : i \in DOMAIN w.entries}

(* Entries already stored with the same content are not staged again. *)
NotStored(rows, w) == Batch(w) \ Entries(rows)

(* An id of the batch that the snapshot uses for another event. *)
IdClash(rows, w) == \E e \in Batch(w), r \in rows : r.e.id = e.id /\ r.e # e

(* validateProducerOrder on the sorted snapshot followed by the new entries. *)
ProducerOrder(rows, w) ==
  LET new == NotStored(rows, w) IN
  /\ \A e \in new, r \in rows : r.e.t = e.t => r.e.id < e.id
  /\ \A i, j \in DOMAIN w.entries :
       (i < j /\ w.entries[i] \in new /\ w.entries[j] \in new /\ w.entries[i].t = w.entries[j].t)
         => w.entries[i].id < w.entries[j].id

Stageable(rows, w) ==
  LET new == NotStored(rows, w) IN
  /\ ~IdClash(rows, w)
  /\ ProducerOrder(rows, w)
  /\ (\E e \in new : e.kind # "plain") => CandidatesReplay(Entries(rows) \cup new)

----------------------------------------------------------------------------
(* `initialize' has created the tables, keyed and empty, and every process is
   connected and idle. *)
Init ==
  /\ events = {}
  /\ nextSeq = 1
  /\ receipts = [c \in Commands |-> None]
  /\ lock = None
  /\ pc = [p \in Processes |-> "idle"]
  /\ work = [p \in Processes |-> NoWork]
  /\ attempt = [p \in Processes |-> 0]
  /\ cache = [p \in Processes |-> NoCache]
  /\ load = [p \in Processes |-> NoLoad]
  /\ rest = [p \in Processes |-> <<>>]
  /\ staged = [p \in Processes |-> {}]
  /\ pending = [p \in Processes |-> {}]
  /\ acked = {}
  /\ submits = 0

(***************************************************************************)
(* The request leaves the process: everything it held is dropped, the      *)
(* cache stays.  Ends the transaction if one is open.                      *)
(***************************************************************************)
Leave(p) ==
  /\ pc' = [pc EXCEPT ![p] = "idle"]
  /\ work' = [work EXCEPT ![p] = NoWork]
  /\ attempt' = [attempt EXCEPT ![p] = 0]
  /\ load' = [load EXCEPT ![p] = NoLoad]
  /\ rest' = [rest EXCEPT ![p] = <<>>]
  /\ staged' = [staged EXCEPT ![p] = {}]
  /\ pending' = [pending EXCEPT ![p] = {}]

(* The transaction advisory lock goes when the transaction ends. *)
Unlock(p) == lock' = IF lock = p THEN None ELSE lock

(* A caller, or a caller's retry, submits a request to an idle process. *)
Submit(p, w) ==
  /\ pc[p] = "idle"
  /\ submits < MaxSubmits
  /\ submits' = submits + 1
  /\ pc' = [pc EXCEPT ![p] = IF w.op = "command" THEN "lookup" ELSE "lock"]
  /\ work' = [work EXCEPT ![p] = w]
  /\ rest' = [rest EXCEPT ![p] = w.entries]
  /\ staged' = [staged EXCEPT ![p] = Batch(w)]
  /\ UNCHANGED <<store, attempt, cache, load, pending, acked>>

(* Mutant: the identity alone decides that a command was already done. *)
SameCommand(p) == TRUE

(* The stored receipt was written for this very request. *)
SameRequest(p) == receipts[work[p].cmd].req = work[p]

(* A success is a repeated answer, anything else a conflict. *)
AnswerFromReceipt(p) == acked' = IF SameRequest(p) THEN acked \cup {work[p]} ELSE acked

(* An earlier receipt answers the command, or contradicts it. *)
LookupFound(p) ==
  /\ pc[p] = "lookup"
  /\ receipts[work[p].cmd] # None
  /\ AnswerFromReceipt(p)
  /\ Leave(p)
  /\ UNCHANGED <<store, cache, submits>>

LookupMissing(p) ==
  /\ pc[p] = "lookup"
  /\ receipts[work[p].cmd] = None
  /\ pc' = [pc EXCEPT ![p] = "pin"]
  /\ UNCHANGED <<store, work, attempt, cache, load, rest, staged, pending, acked, submits>>

(* workspaceRevision *)
WorkspaceRevision == Head0(events)

(* readSnapshot: the head is pinned before any page is read. *)
PinHead(p) ==
  /\ pc[p] = "pin"
  /\ load' = [load EXCEPT ![p] = [head |-> WorkspaceRevision, at |-> cache[p].seq, rows |-> cache[p].rows]]
  /\ pc' = [pc EXCEPT ![p] = "load"]
  /\ UNCHANGED <<store, work, attempt, cache, rest, staged, pending, acked, submits>>

(* The first rows of `rows` by sequence, at most PageSize of them. *)
IsPage(page, rows) ==
  /\ Cardinality(page) <= PageSize
  /\ Cardinality(page) < PageSize => page = rows
  /\ \A r \in page, q \in rows \ page : r.seq < q.seq

LoadPage(p) ==
  /\ pc[p] = "load"
  /\ load[p].at < load[p].head
  /\ LET left == {r \in events : load[p].at < r.seq /\ r.seq <= load[p].head} IN
     \E page \in SUBSET left : \E last \in page :
       /\ IsPage(page, left)
       /\ \A r \in page : r.seq <= last.seq
       /\ load' = [load EXCEPT ![p].at = last.seq, ![p].rows = @ \cup page]
  /\ UNCHANGED <<store, pc, work, attempt, cache, rest, staged, pending, acked, submits>>

(* The snapshot is complete and replaces the cached one. *)
LoadDone(p) ==
  /\ pc[p] = "load"
  /\ load[p].at >= load[p].head
  /\ cache' = [cache EXCEPT ![p] = [seq |-> load[p].head, rows |-> load[p].rows]]
  /\ pc' = [pc EXCEPT ![p] = "stage"]
  /\ UNCHANGED <<store, work, attempt, load, rest, staged, pending, acked, submits>>

(* The command's own validation, on the pinned snapshot. *)
Stage(p) ==
  /\ pc[p] = "stage"
  /\ Stageable(load[p].rows, work[p])
  /\ staged' = [staged EXCEPT ![p] = NotStored(load[p].rows, work[p])]
  /\ pc' = [pc EXCEPT ![p] = "lock"]
  /\ UNCHANGED <<store, work, attempt, cache, load, rest, pending, acked, submits>>

StageRefused(p) ==
  /\ pc[p] = "stage"
  /\ ~Stageable(load[p].rows, work[p])
  /\ Leave(p)
  /\ UNCHANGED <<store, cache, acked, submits>>

(* Mutant: transactions do not wait for each other. *)
NoWaiting == TRUE

LockFree == lock = None

(* BEGIN, then pg_advisory_xact_lock on the tenant. *)
AcquireLock(p) ==
  /\ pc[p] = "lock"
  /\ LockFree
  /\ lock' = p
  /\ pc' = [pc EXCEPT ![p] = IF work[p].op = "command" THEN "check" ELSE "insert"]
  /\ UNCHANGED <<events, nextSeq, receipts, work, attempt, cache, load, rest, staged, pending, acked, submits>>

(* commitEntries finds a receipt that another process wrote meanwhile. *)
CheckReceipt(p) ==
  /\ pc[p] = "check"
  /\ receipts[work[p].cmd] # None
  /\ AnswerFromReceipt(p)
  /\ Unlock(p)
  /\ Leave(p)
  /\ UNCHANGED <<events, nextSeq, receipts, cache, submits>>

(* Mutant: the commit does not compare revisions. *)
AnyRevision(p) == TRUE

(* The compare-and-set of commitEntries. *)
RevisionMatches(p) == WorkspaceRevision = load[p].head

CheckRevision(p) ==
  /\ pc[p] = "check"
  /\ receipts[work[p].cmd] = None
  /\ RevisionMatches(p)
  /\ pc' = [pc EXCEPT ![p] = "insert"]
  /\ UNCHANGED <<store, work, attempt, cache, load, rest, staged, pending, acked, submits>>

(* PostgresFoldRevisionConflictError: retried a bounded number of times. *)
RevisionConflict(p) ==
  /\ pc[p] = "check"
  /\ receipts[work[p].cmd] = None
  /\ ~RevisionMatches(p)
  /\ Unlock(p)
  /\ IF attempt[p] < MaxAttempts
     THEN /\ attempt' = [attempt EXCEPT ![p] = @ + 1]
          /\ pc' = [pc EXCEPT ![p] = "lookup"]
          /\ load' = [load EXCEPT ![p] = NoLoad]
          /\ UNCHANGED <<work, rest, staged, pending>>
     ELSE Leave(p)
  /\ UNCHANGED <<events, nextSeq, receipts, cache, acked, submits>>

(* What the open transaction of p sees. *)
Seen(p) == events \cup pending[p]

(***************************************************************************)
(* A command inserts what it staged; importEntries passes over an entry    *)
(* that is stored with equal content.                                      *)
(***************************************************************************)
Passed(p, e) ==
  \/ e \notin staged[p]
  \/ work[p].op = "import" /\ e \in Entries(Seen(p))

InsertSkip(p) ==
  /\ pc[p] = "insert"
  /\ rest[p] # <<>>
  /\ Passed(p, Head(rest[p]))
  /\ rest' = [rest EXCEPT ![p] = Tail(@)]
  /\ UNCHANGED <<store, pc, work, attempt, cache, load, staged, pending, acked, submits>>

(* insertEntry: the sequence is drawn here, not at commit. *)
Insert(p) ==
  /\ pc[p] = "insert"
  /\ rest[p] # <<>>
  /\ ~Passed(p, Head(rest[p]))
  /\ Insertable(Seen(p), Head(rest[p]))
  /\ pending' = [pending EXCEPT ![p] = @ \cup {[seq |-> nextSeq, e |-> Head(rest[p]), by |-> work[p]]}]
  /\ nextSeq' = nextSeq + 1
  /\ rest' = [rest EXCEPT ![p] = Tail(@)]
  /\ UNCHANGED <<events, receipts, lock, pc, work, attempt, cache, load, staged, acked, submits>>

(* A conflict on any entry rolls the whole transaction back. *)
InsertConflict(p) ==
  /\ pc[p] = "insert"
  /\ rest[p] # <<>>
  /\ ~Passed(p, Head(rest[p]))
  /\ ~Insertable(Seen(p), Head(rest[p]))
  /\ Unlock(p)
  /\ Leave(p)
  /\ UNCHANGED <<events, nextSeq, receipts, cache, acked, submits>>

(* Mutant: the receipt is not part of the transaction. *)
NoReceipt(p) == receipts

WithReceipt(p) ==
  IF work[p].op = "command"
  THEN [receipts EXCEPT ![work[p].cmd] = [req |-> work[p], entries |-> staged[p]]]
  ELSE receipts

(* COMMIT: rows and receipt become visible together, the lock goes. *)
Commit(p) ==
  /\ pc[p] = "insert"
  /\ rest[p] = <<>>
  /\ events' = events \cup pending[p]
  /\ receipts' = WithReceipt(p)
  /\ pending' = [pending EXCEPT ![p] = {}]
  /\ Unlock(p)
  /\ pc' = [pc EXCEPT ![p] = "reply"]
  /\ UNCHANGED <<nextSeq, work, attempt, cache, load, rest, staged, acked, submits>>

(* The answer reaches the caller, which until now could not know. *)
Reply(p) ==
  /\ pc[p] = "reply"
  /\ acked' = acked \cup {work[p]}
  /\ Leave(p)
  /\ UNCHANGED <<store, cache, submits>>

(* The process dies, or its connection does: rollback, memory lost. *)
Crash(p) ==
  /\ pc[p] # "idle"
  /\ Unlock(p)
  /\ Leave(p)
  /\ cache' = [cache EXCEPT ![p] = NoCache]
  /\ UNCHANGED <<events, nextSeq, receipts, acked, submits>>

(* The IDENTITY is shared by all tenants of the table. *)
ForeignInsert ==
  /\ nextSeq <= MaxForeign
  /\ nextSeq' = nextSeq + 1
  /\ UNCHANGED <<events, receipts, lock, memory, acked, submits>>

(* What a process does once it has a request, short of dying. *)
Step(p) ==
  \/ LookupFound(p) \/ LookupMissing(p)
  \/ PinHead(p) \/ LoadPage(p) \/ LoadDone(p)
  \/ Stage(p) \/ StageRefused(p)
  \/ CheckReceipt(p) \/ CheckRevision(p) \/ RevisionConflict(p)
  \/ InsertSkip(p) \/ Insert(p) \/ InsertConflict(p)
  \/ Commit(p) \/ Reply(p)

Next ==
  \/ \E p \in Processes : \/ \E w \in Requests : Submit(p, w)
                          \/ Step(p)
                          \/ AcquireLock(p)
                          \/ Crash(p)
  \/ ForeignInsert

Spec == Init /\ [][Next]_vars

(***************************************************************************)
(* A process with a request keeps running, and PostgreSQL serves advisory  *)
(* lock waiters in their order of arrival, so none waits for ever.         *)
(***************************************************************************)
FairSpec == Spec /\ \A p \in Processes : WF_vars(Step(p)) /\ SF_vars(AcquireLock(p))

----------------------------------------------------------------------------
(* Properties *)

(***************************************************************************)
(* Rows become visible in sequence order: no commit ever shows a row below *)
(* one that was visible before.  This is what taking the advisory lock     *)
(* before the first IDENTITY draw, and keeping it through COMMIT, is for.  *)
(***************************************************************************)
VisibleInOrder ==
  [][\A new \in events' \ events, old \in events : old.seq < new.seq]_vars

DL == INSTANCE DeliveryLog WITH log <- {r.seq : r \in events}

(***************************************************************************)
(* The sequences visible in the store are a delivery log: transactions     *)
(* appear whole, at the end, and nothing visible is withdrawn.             *)
(***************************************************************************)
DeliversInOrder == DL!Spec

(***************************************************************************)
(* A cached snapshot that claims to reach sequence n holds every row up to *)
(* n, although it was read page by page while other processes committed    *)
(* and was extended from an older snapshot (readSnapshot, loadSnapshot).   *)
(***************************************************************************)
SnapshotExact ==
  \A p \in Processes : cache[p].rows = {r \in events : r.seq <= cache[p].seq}

(***************************************************************************)
(* Rows with equal event time were stored in the order of their ids, so    *)
(* the fold order (t, id) never puts a later arrival before an earlier one *)
(* of the same time (the monotonic id rule of insertEntry).                *)
(***************************************************************************)
EqualTimeIdOrder ==
  \A r, q \in events : (r.e.t = q.e.t /\ r.seq < q.seq) => r.e.id < q.e.id

(***************************************************************************)
(* A command takes effect once and completely: the rows it wrote are those *)
(* of its receipt, whatever crashed, was retried, or was submitted to two  *)
(* processes at the same time, and a command without a receipt wrote none. *)
(***************************************************************************)
CommandOnce ==
  \A c \in Commands :
    LET mine == {r \in events : r.by.cmd = c} IN
    IF receipts[c] = None THEN mine = {}
    ELSE /\ Entries(mine) = receipts[c].entries
         /\ Cardinality(mine) = Cardinality(receipts[c].entries)
         /\ \A r \in mine : r.by = receipts[c].req

(***************************************************************************)
(* Success is only reported for what is durable: every entry of an         *)
(* answered request is stored, and two different requests under one        *)
(* command identity are never both answered with success.                  *)
(***************************************************************************)
AckedDurable ==
  \A w \in acked :
    /\ Batch(w) \subseteq Entries(events)
    /\ w.op = "command" => receipts[w.cmd] # None /\ receipts[w.cmd].req = w

(***************************************************************************)
(* The candidate projection can always be rebuilt from the stored log: no  *)
(* interleaving of commands that were validated on a snapshot and imports  *)
(* that were not leaves a candidate proposed twice, decided twice, or      *)
(* decided on a revision other than the one its evidence has.  Only        *)
(* commands propose here: insertEntry does not compare an imported         *)
(* proposal with those already stored.                                     *)
(***************************************************************************)
CandidatesConsistent == CandidatesReplay(Entries(events))

(***************************************************************************)
(* Every submitted request is answered, refused or lost in a crash: no     *)
(* process waits for the tenant lock, or retries, for ever.                *)
(***************************************************************************)
RequestsEnd == \A p \in Processes : pc[p] # "idle" ~> pc[p] = "idle"
============================================================================
