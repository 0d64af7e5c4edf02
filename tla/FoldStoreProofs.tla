-------------------------- MODULE FoldStoreProofs --------------------------
(***************************************************************************)
(* Theorems about FoldStore for any number of processes, commands,         *)
(* candidates and requests.                                                *)
(*                                                                         *)
(* The argument: whoever is past the advisory lock holds it, so at most    *)
(* one process has uncommitted rows; their sequences were drawn after      *)
(* every visible row was, hence lie above all of them; and a pinned head   *)
(* is never above the newest visible row, so later commits cannot fall     *)
(* under it.  A receipt is looked for and written under one hold of the    *)
(* lock, so a command commits once; and a command that commits was         *)
(* validated on the whole log, since the head it pinned is still the head. *)
(***************************************************************************)
EXTENDS FoldStore, FiniteSetTheorems, TLAPS

----------------------------------------------------------------------------
(* The inductive invariant *)

(* A non-empty set of rows has a newest one. *)
HasNewest(rows) == rows # {} => \E r \in rows : \A q \in rows : q.seq <= r.seq

(* A process beyond idle serves a request. *)
Working == \A p \in Processes : pc[p] # "idle" => work[p] \in Requests

Newest ==
  /\ HasNewest(events)
  /\ \A p \in Processes : HasNewest(pending[p])

(* The lock, and who may have uncommitted rows. *)
Locking ==
  /\ \A p \in Processes : pc[p] \in {"check", "insert"} <=> lock = p
  /\ \A p \in Processes : pc[p] # "insert" => pending[p] = {}

(* Sequences below the next draw; uncommitted ones above every visible one. *)
Drawn ==
  /\ \A r \in events : r.seq < nextSeq
  /\ \A p \in Processes : \A r \in pending[p] :
       r.seq < nextSeq /\ \A q \in events : q.seq < r.seq

StoreInv == TypeOK /\ Working /\ Locking /\ Newest /\ Drawn
----------------------------------------------------------------------------
(* Lemmas *)

(* The head of a set of rows is a number, and no row is above it. *)
LEMMA HeadType ==
  ASSUME NEW rows \in SUBSET Row, HasNewest(rows)
  PROVE  /\ Head0(rows) \in Nat
         /\ \A r \in rows : r.seq <= Head0(rows)
         /\ rows # {} => \E r \in rows : r.seq = Head0(rows)
<1>1. CASE rows = {}
  BY <1>1 DEF Head0
<1>2. CASE rows # {}
  <2>1. PICK r \in rows : \A q \in rows : q.seq <= r.seq
    BY <1>2 DEF HasNewest
  <2>2. \E m \in {q.seq : q \in rows} : \A q \in rows : q.seq <= m
    BY <2>1
  <2>3. Head0(rows) \in {q.seq : q \in rows} /\ \A q \in rows : q.seq <= Head0(rows)
    BY <1>2, <2>2 DEF Head0
  <2> QED BY <2>3 DEF Row
<1> QED BY <1>1, <1>2

(* Adding a row above the others keeps a newest one. *)
LEMMA NewestAdd ==
  ASSUME NEW rows \in SUBSET Row, NEW new \in Row, \A q \in rows : q.seq < new.seq
  PROVE  HasNewest(rows \cup {new})
<1>1. \A q \in rows \cup {new} : q.seq <= new.seq
  BY DEF Row
<1> QED BY <1>1 DEF HasNewest

(* Adding rows above the others keeps a newest one. *)
LEMMA NewestUnion ==
  ASSUME NEW rows \in SUBSET Row, NEW more \in SUBSET Row,
         HasNewest(rows), HasNewest(more),
         \A r \in more : \A q \in rows : q.seq < r.seq
  PROVE  HasNewest(rows \cup more)
<1>1. CASE more = {}
  BY <1>1
<1>2. CASE more # {}
  <2>1. PICK r \in more : \A q \in more : q.seq <= r.seq
    BY <1>2 DEF HasNewest
  <2>2. \A q \in rows \cup more : q.seq <= r.seq
    BY <2>1 DEF Row
  <2> QED BY <2>1, <2>2 DEF HasNewest
<1> QED BY <1>1, <1>2

(* What a caller asks for consists of entries. *)
LEMMA BatchType == ASSUME NEW w \in Requests PROVE Batch(w) \subseteq Entry /\ w.entries \in Seq(Entry)
<1>1. w \in Request
  BY RequestsAssumption
<1> QED BY <1>1 DEF Batch, Request

----------------------------------------------------------------------------
(* Every step keeps the invariant *)

(* The store starts empty and every process idle. *)
LEMMA InitInv == Init => StoreInv
<1> SUFFICES ASSUME Init PROVE StoreInv
  OBVIOUS
<1> USE DEF Init, NoWork, NoLoad, NoCache
<1>1. TypeOK
  BY BoundsAssumption DEF TypeOK, Load, Snapshot, PCs, Receipt
<1>2. Working /\ Locking /\ Drawn
  BY NoneAssumption DEF Working, Locking, Drawn
<1>3. Newest
  BY DEF Newest, HasNewest
<1> QED BY <1>1, <1>2, <1>3 DEF StoreInv

(* A request that ends leaves nothing of it behind. *)
LEMMA LeaveInv ==
  ASSUME StoreInv, NEW p \in Processes, Leave(p), Unlock(p),
         UNCHANGED <<events, nextSeq, receipts>>,
         cache' \in [Processes -> Snapshot], acked' \subseteq Requests, submits' \in Nat
  PROVE  StoreInv'
<1> USE DEF StoreInv, Leave, Unlock
<1>0. NoLoad \in Load /\ "idle" \in PCs /\ <<>> \in Seq(Entry)
  BY DEF NoLoad, Load, PCs
<1>1. TypeOK'
  BY <1>0 DEF TypeOK
<1>2. Working'
  BY DEF Working, TypeOK
<1>3. Locking'
  BY NoneAssumption DEF Locking, TypeOK
<1>4. Newest' /\ Drawn'
  BY DEF Newest, HasNewest, Drawn, TypeOK
<1> QED BY <1>1, <1>2, <1>3, <1>4

(* Steps that only move the process on. *)
LEMMA LookupMissingInv ==
  ASSUME StoreInv, NEW p \in Processes, LookupMissing(p)
  PROVE  StoreInv'
<1> USE DEF StoreInv, LookupMissing, store
<1>1. TypeOK'
  BY DEF TypeOK, PCs
<1>2. Working' /\ Locking'
  BY NoneAssumption DEF Working, Locking, TypeOK
<1>3. Newest' /\ Drawn'
  BY DEF Newest, HasNewest, Drawn
<1> QED BY <1>1, <1>2, <1>3

(* Comparing the revision under the lock changes nothing a row depends on. *)
LEMMA CheckRevisionInv ==
  ASSUME StoreInv, NEW p \in Processes, CheckRevision(p)
  PROVE  StoreInv'
<1> USE DEF StoreInv, CheckRevision, store
<1>1. TypeOK'
  BY DEF TypeOK, PCs
<1>2. Working' /\ Locking'
  BY NoneAssumption DEF Working, Locking, TypeOK
<1>3. Newest' /\ Drawn'
  BY DEF Newest, HasNewest, Drawn
<1> QED BY <1>1, <1>2, <1>3

(* The tenant lock is free when it is taken, so one process has it. *)
LEMMA AcquireLockInv ==
  ASSUME StoreInv, NEW p \in Processes, AcquireLock(p)
  PROVE  StoreInv'
<1> USE DEF StoreInv, AcquireLock, store
<1>1. TypeOK'
  BY DEF TypeOK, PCs
<1>2. Working'
  BY DEF Working, TypeOK
<1>4. Locking'
  <2>1. \A q \in Processes : pc[q] \notin {"check", "insert"}
    BY NoneAssumption DEF LockFree, Locking
  <2>2. pc' = [pc EXCEPT ![p] = "check"] \/ pc' = [pc EXCEPT ![p] = "insert"]
    OBVIOUS
  <2> QED BY <2>1, <2>2 DEF Locking, TypeOK
<1>3. Newest' /\ Drawn'
  BY DEF Newest, HasNewest, Drawn
<1> QED BY <1>1, <1>2, <1>3, <1>4

(* An entry that is already stored adds no row. *)
LEMMA InsertSkipInv ==
  ASSUME StoreInv, NEW p \in Processes, InsertSkip(p)
  PROVE  StoreInv'
<1> USE DEF StoreInv, InsertSkip, store
<1>0. Tail(rest[p]) \in Seq(Entry)
  BY DEF TypeOK
<1>1. TypeOK'
  BY <1>0 DEF TypeOK, PCs
<1>2. Working' /\ Locking'
  BY NoneAssumption DEF Working, Locking, TypeOK
<1>3. Newest' /\ Drawn'
  BY DEF Newest, HasNewest, Drawn
<1> QED BY <1>1, <1>2, <1>3

(* Steps of the snapshot read. *)
LEMMA PinHeadInv ==
  ASSUME StoreInv, NEW p \in Processes, PinHead(p)
  PROVE  StoreInv'
<1> USE DEF StoreInv, PinHead, store
<1>0. [head |-> WorkspaceRevision, at |-> cache[p].seq, rows |-> cache[p].rows] \in Load
  BY HeadType DEF WorkspaceRevision, Newest, TypeOK, Snapshot, Load
<1>1. TypeOK'
  BY <1>0 DEF TypeOK, PCs
<1>2. Working' /\ Locking'
  BY NoneAssumption DEF Working, Locking, TypeOK
<1>3. Newest' /\ Drawn'
  BY DEF Newest, HasNewest, Drawn
<1> QED BY <1>1, <1>2, <1>3

(* A page is made of visible rows only. *)
LEMMA LoadPageInv ==
  ASSUME StoreInv, NEW p \in Processes, LoadPage(p)
  PROVE  StoreInv'
<1> USE DEF StoreInv, LoadPage, store
<1>0. load' \in [Processes -> Load]
  <2>0. PICK page \in SUBSET events : \E last \in page :
          load' = [load EXCEPT ![p].at = last.seq, ![p].rows = @ \cup page]
    OBVIOUS
  <2>1. PICK last \in page : load' = [load EXCEPT ![p].at = last.seq, ![p].rows = @ \cup page]
    BY <2>0
  <2>2. last.seq \in Nat /\ page \subseteq Row /\ load[p] \in Load
    BY DEF TypeOK, Row
  <2>3. [load[p] EXCEPT !.at = last.seq, !.rows = @ \cup page] \in Load
    BY <2>2 DEF Load
  <2>4. load' = [load EXCEPT ![p] = [load[p] EXCEPT !.at = last.seq, !.rows = @ \cup page]]
    BY <2>1 DEF TypeOK
  <2> QED BY <2>3, <2>4 DEF TypeOK
<1>1. TypeOK'
  BY <1>0 DEF TypeOK, PCs
<1>2. Working' /\ Locking'
  BY NoneAssumption DEF Working, Locking, TypeOK
<1>3. Newest' /\ Drawn'
  BY DEF Newest, HasNewest, Drawn
<1> QED BY <1>1, <1>2, <1>3

(* The last page ends the read at the pinned head. *)
LEMMA LoadDoneInv ==
  ASSUME StoreInv, NEW p \in Processes, LoadDone(p)
  PROVE  StoreInv'
<1> USE DEF StoreInv, LoadDone, store
<1>0. [seq |-> load[p].head, rows |-> load[p].rows] \in Snapshot
  BY DEF TypeOK, Load, Snapshot
<1>1. TypeOK'
  BY <1>0 DEF TypeOK, PCs
<1>2. Working' /\ Locking'
  BY NoneAssumption DEF Working, Locking, TypeOK
<1>3. Newest' /\ Drawn'
  BY DEF Newest, HasNewest, Drawn
<1> QED BY <1>1, <1>2, <1>3

(* Staging keeps to the entries the caller sent. *)
LEMMA StageInv ==
  ASSUME StoreInv, NEW p \in Processes, Stage(p)
  PROVE  StoreInv'
<1> USE DEF StoreInv, Stage, store
<1>0. NotStored(load[p].rows, work[p]) \in SUBSET Entry
  BY BatchType DEF NotStored, Working
<1>1. TypeOK'
  BY <1>0 DEF TypeOK, PCs
<1>2. Working' /\ Locking'
  BY NoneAssumption DEF Working, Locking, TypeOK
<1>3. Newest' /\ Drawn'
  BY DEF Newest, HasNewest, Drawn
<1> QED BY <1>1, <1>2, <1>3

(* Steps that take on a request or end one. *)
LEMMA SubmitInv ==
  ASSUME StoreInv, NEW p \in Processes, NEW w \in Requests, Submit(p, w)
  PROVE  StoreInv'
<1> USE DEF StoreInv, Submit, store
<1>1. TypeOK'
  BY BatchType DEF TypeOK, PCs
<1>2. Working'
  BY DEF Working, TypeOK
<1>3. Locking'
  BY DEF Locking, TypeOK
<1>4. Newest' /\ Drawn'
  BY DEF Newest, HasNewest, Drawn
<1> QED BY <1>1, <1>2, <1>3, <1>4

(* A request that ends gives the lock back and drops its rows. *)
LEMMA EndInv ==
  ASSUME StoreInv, NEW p \in Processes,
         \/ LookupFound(p) \/ StageRefused(p) \/ CheckReceipt(p)
         \/ InsertConflict(p) \/ Reply(p) \/ Crash(p)
  PROVE  StoreInv'
<1> USE DEF store
<1>1. work[p] \in Requests
  BY DEF StoreInv, Working, LookupFound, StageRefused, CheckReceipt, InsertConflict, Reply, Crash
<1>2. pc[p] \notin {"check", "insert"} => lock # p
  BY DEF StoreInv, Locking
<1>3. Unlock(p)
  BY <1>2 DEF LookupFound, StageRefused, CheckReceipt, InsertConflict, Reply, Crash, Unlock
<1>4. Leave(p) /\ UNCHANGED <<events, nextSeq, receipts>>
  BY DEF LookupFound, StageRefused, CheckReceipt, InsertConflict, Reply, Crash
<1>5. NoCache \in Snapshot
  BY DEF NoCache, Snapshot
<1>6. cache' \in [Processes -> Snapshot] /\ submits' \in Nat
  BY <1>5 DEF LookupFound, StageRefused, CheckReceipt, InsertConflict, Reply, Crash, StoreInv, TypeOK
<1>7. acked' \subseteq Requests
  BY <1>1 DEF LookupFound, StageRefused, CheckReceipt, InsertConflict, Reply, Crash,
              AnswerFromReceipt, StoreInv, TypeOK
<1> QED BY <1>3, <1>4, <1>6, <1>7, LeaveInv

(* A conflict starts the command over, or ends it after the last attempt. *)
LEMMA RevisionConflictInv ==
  ASSUME StoreInv, NEW p \in Processes, RevisionConflict(p)
  PROVE  StoreInv'
<1> USE DEF RevisionConflict, store
<1>1. CASE attempt[p] < MaxAttempts
  <2> USE <1>1 DEF StoreInv
  <2>0. NoLoad \in Load
    BY DEF NoLoad, Load
  <2>1. TypeOK'
    <3>0. /\ attempt' = [attempt EXCEPT ![p] = attempt[p] + 1]
          /\ pc' = [pc EXCEPT ![p] = "lookup"]
          /\ load' = [load EXCEPT ![p] = NoLoad]
      OBVIOUS
    <3>1. pc' \in [Processes -> PCs] /\ load' \in [Processes -> Load]
      BY <2>0, <3>0 DEF TypeOK, PCs
    <3>3. attempt' \in [Processes -> Nat]
      BY <3>0 DEF TypeOK
    <3>2. lock' \in Processes \cup {None}
      BY DEF TypeOK, Unlock
    <3> QED BY <3>1, <3>2, <3>3 DEF TypeOK
  <2>2. Working'
    BY DEF Working, TypeOK
  <2>3. Locking'
    BY NoneAssumption DEF Locking, TypeOK, Unlock
  <2>4. Newest' /\ Drawn'
    BY DEF Newest, HasNewest, Drawn
  <2> QED BY <2>1, <2>2, <2>3, <2>4
<1>2. CASE ~(attempt[p] < MaxAttempts)
  <2>1. cache' \in [Processes -> Snapshot] /\ acked' \subseteq Requests /\ submits' \in Nat
    BY DEF StoreInv, TypeOK
  <2> QED BY <1>2, <2>1, LeaveInv
<1> QED BY <1>1, <1>2

(* Steps that write. *)
LEMMA InsertInv ==
  ASSUME StoreInv, NEW p \in Processes, Insert(p)
  PROVE  StoreInv'
<1> USE DEF StoreInv, Insert, store
<1> DEFINE row == [seq |-> nextSeq, e |-> Head(rest[p]), by |-> work[p]]
<1>1. row \in Row
  <2>1. Head(rest[p]) \in Entry
    BY DEF TypeOK
  <2>2. work[p] \in Requests
    BY DEF Working
  <2> QED BY <2>1, <2>2 DEF Row, TypeOK
<1>2. pending' = [pending EXCEPT ![p] = @ \cup {row}]
  OBVIOUS
<1>3. TypeOK'
  <2>1. Tail(rest[p]) \in Seq(Entry)
    BY DEF TypeOK
  <2>2. pending' \in [Processes -> SUBSET Row]
    BY <1>1, <1>2 DEF TypeOK
  <2> QED BY <2>1, <2>2 DEF TypeOK
<1>4. Working'
  BY DEF Working
<1>5. Locking'
  BY DEF Locking, TypeOK
<1>6. Newest'
  <2>1. HasNewest(pending[p] \cup {row})
    BY <1>1, NewestAdd DEF Drawn, TypeOK
  <2> QED BY <2>1, <1>2 DEF Newest, TypeOK
<1>7. Drawn'
  <2>1. \A r \in events : r.seq < nextSeq + 1
    BY DEF Drawn, TypeOK, Row
  <2>2. ASSUME NEW q \in Processes, NEW r \in pending'[q]
        PROVE  r.seq < nextSeq + 1 /\ \A old \in events : old.seq < r.seq
    <3>1. CASE r = row
      BY <3>1 DEF Drawn, TypeOK
    <3>2. CASE r # row
      <4>1. r \in pending[q] /\ r.seq \in Nat
        BY <3>2, <1>2 DEF TypeOK, Row
      <4> QED BY <4>1 DEF Drawn, TypeOK
    <3> QED BY <3>1, <3>2
  <2> QED BY <2>1, <2>2 DEF Drawn
<1> QED BY <1>3, <1>4, <1>5, <1>6, <1>7

(* The rows of a commit are above everything visible. *)
LEMMA CommitInv ==
  ASSUME StoreInv, NEW p \in Processes, Commit(p)
  PROVE  StoreInv'
<1> USE DEF StoreInv, Commit, store
<1>1. \A q \in Processes \ {p} : pending[q] = {}
  BY DEF Locking
<1>2. \A q \in Processes : pending'[q] = {}
  BY <1>1 DEF TypeOK
<1>3. TypeOK'
  <2>1. receipts' \in [Commands -> Receipt \cup {None}]
    <3>1. [req |-> work[p], entries |-> staged[p]] \in Receipt
      BY DEF Working, TypeOK, Receipt
    <3> QED BY <3>1 DEF WithReceipt, TypeOK
  <2> QED BY <2>1 DEF TypeOK, Unlock, PCs
<1>4. Working'
  BY DEF Working, TypeOK
<1>5. Locking'
  BY <1>2, NoneAssumption DEF Locking, TypeOK, Unlock
<1>6. Newest'
  <2>1. HasNewest(events \cup pending[p])
    BY NewestUnion DEF Newest, Drawn, TypeOK
  <2>2. HasNewest({})
    BY DEF HasNewest
  <2> QED BY <2>1, <2>2, <1>2 DEF Newest
<1>7. Drawn'
  BY <1>2 DEF Drawn
<1> QED BY <1>3, <1>4, <1>5, <1>6, <1>7

(* Another tenant only moves the sequence on. *)
LEMMA ForeignInsertInv == ASSUME StoreInv, ForeignInsert PROVE StoreInv'
<1> USE DEF StoreInv, ForeignInsert, memory
<1>1. TypeOK'
  BY DEF TypeOK
<1>2. Working' /\ Locking' /\ Newest'
  BY DEF Working, Locking, Newest, HasNewest
<1>3. Drawn'
  BY DEF Drawn, TypeOK, Row
<1> QED BY <1>1, <1>2, <1>3

(* A step that changes nothing keeps the invariant. *)
LEMMA StutterInv == ASSUME StoreInv, UNCHANGED vars PROVE StoreInv'
BY DEF StoreInv, vars, store, memory, TypeOK, Working, Locking, Newest, HasNewest, Drawn

(* Every step of the store keeps the invariant. *)
LEMMA NextInv == ASSUME StoreInv, [Next]_vars PROVE StoreInv'
<1>1. ASSUME NEW p \in Processes, NEW w \in Requests, Submit(p, w) PROVE StoreInv'
  BY <1>1, SubmitInv
<1>2. ASSUME NEW p \in Processes, Step(p) PROVE StoreInv'
  BY <1>2, EndInv, LookupMissingInv, PinHeadInv, LoadPageInv, LoadDoneInv, StageInv,
     CheckRevisionInv, RevisionConflictInv, InsertSkipInv, InsertInv, CommitInv DEF Step
<1>3. ASSUME NEW p \in Processes, AcquireLock(p) \/ Crash(p) PROVE StoreInv'
  BY <1>3, AcquireLockInv, EndInv
<1> QED BY <1>1, <1>2, <1>3, ForeignInsertInv, StutterInv DEF Next

----------------------------------------------------------------------------
(* Theorems *)

(***************************************************************************)
(* The inductive invariant holds in every reachable state.                 *)
(***************************************************************************)
THEOREM StoreInvariant == Spec => []StoreInv
BY InitInv, NextInv, PTL DEF Spec

(***************************************************************************)
(* Every variable keeps its type: in particular a sequence that is pinned, *)
(* paged to or compared is always a number, because a workspace with rows  *)
(* has a newest one (workspaceRevision).                                   *)
(***************************************************************************)
THEOREM TypeCorrect == Spec => []TypeOK
<1>1. StoreInv => TypeOK
  BY DEF StoreInv
<1> QED BY <1>1, StoreInvariant, PTL

(* Only a commit changes what is visible, and it adds the rows of one process. *)
LEMMA EventsStep ==
  ASSUME StoreInv, [Next]_vars
  PROVE  events' = events \/ \E p \in Processes : events' = events \cup pending[p]
<1>1. ASSUME NEW p \in Processes, Step(p) PROVE events' = events \/ events' = events \cup pending[p]
  BY <1>1 DEF Step, store, LookupFound, LookupMissing, PinHead, LoadPage, LoadDone, Stage,
     StageRefused, CheckReceipt, CheckRevision, RevisionConflict, InsertSkip, Insert,
     InsertConflict, Commit, Reply
<1>2. ASSUME NEW p \in Processes, NEW w \in Requests, Submit(p, w) PROVE events' = events
  BY <1>2 DEF Submit, store
<1>3. ASSUME NEW p \in Processes, AcquireLock(p) \/ Crash(p) PROVE events' = events
  BY <1>3 DEF AcquireLock, Crash
<1>4. ASSUME ForeignInsert \/ UNCHANGED vars PROVE events' = events
  BY <1>4 DEF ForeignInsert, vars, store
<1> QED BY <1>1, <1>2, <1>3, <1>4 DEF Next

(* What a step makes visible is above what was visible. *)
LEMMA AddedAbove ==
  ASSUME StoreInv, [Next]_vars
  PROVE  /\ events \subseteq events'
         /\ \A new \in events' \ events, old \in events : old.seq < new.seq
BY EventsStep DEF StoreInv, Drawn

(***************************************************************************)
(* No commit shows a row below a visible one, for any number of processes: *)
(* the advisory lock is taken before the first sequence is drawn and kept  *)
(* through COMMIT.                                                         *)
(***************************************************************************)
THEOREM VisibleInOrderHolds == Spec => VisibleInOrder
<1>1. StoreInv /\ [Next]_vars => [\A new \in events' \ events, old \in events : old.seq < new.seq]_vars
  BY AddedAbove
<1> QED BY <1>1, StoreInvariant, PTL DEF Spec, VisibleInOrder

(***************************************************************************)
(* The Fold store implements the delivery log its readers are promised.    *)
(***************************************************************************)
THEOREM ImplementsDeliveryLog == Spec => DeliversInOrder
<1>1. Init => DL!Init
  BY DEF Init, DL!Init
<1>2. StoreInv /\ StoreInv' /\ [Next]_vars => [DL!Append]_({r.seq : r \in events})
  <2> SUFFICES ASSUME StoreInv, StoreInv', [Next]_vars
               PROVE  DL!Append
    OBVIOUS
  <2>1. {r.seq : r \in events'} \subseteq Nat
    BY DEF StoreInv, TypeOK, Row
  <2>2. {r.seq : r \in events} \subseteq {r.seq : r \in events'}
    BY AddedAbove
  <2>3. ASSUME NEW old \in {r.seq : r \in events},
               NEW new \in {r.seq : r \in events'} \ {r.seq : r \in events}
        PROVE  old < new
    BY AddedAbove
  <2> QED BY <2>1, <2>2, <2>3 DEF DL!Append
<1> QED BY <1>1, <1>2, StoreInvariant, PTL DEF Spec, DeliversInOrder, DL!Spec

----------------------------------------------------------------------------
(* Equal times *)

(* Rows of equal time, ordered alike by sequence and by id, with a newest one. *)
IdOrdered(rows) ==
  /\ \A r, q \in rows : (r.e.t = q.e.t /\ r.seq < q.seq) => r.e.id < q.e.id
  /\ \A r, q \in rows : r.seq = q.seq => r = q
  /\ \A r \in rows : \E q \in rows :
       q.e.t = r.e.t /\ \A o \in rows : o.e.t = r.e.t => o.seq <= q.seq

IdOrderInv == IdOrdered(events) /\ \A p \in Processes : IdOrdered(Seen(p))

(***************************************************************************)
(* insertEntry compares an entry with the newest row of its time only;     *)
(* that is enough, because the rows of that time are ordered already.      *)
(***************************************************************************)
LEMMA IdOrderedAdd ==
  ASSUME NEW rows \in SUBSET Row, NEW new \in Row, IdOrdered(rows),
         \A q \in rows : q.seq < new.seq, MonotonicAt(rows, new.e)
  PROVE  IdOrdered(rows \cup {new})
<1> USE DEF IdOrdered
<1>0. /\ \A r \in rows \cup {new} : r.seq \in Nat /\ r.e \in Entry
      /\ \A e \in Entry : e.t \in Nat /\ e.id \in Nat
  BY DEF Row, Entry
<1>1. ASSUME NEW r \in rows, r.e.t = new.e.t PROVE r.e.id < new.e.id
  <2>1. PICK q \in rows : q.e.t = r.e.t /\ \A o \in rows : o.e.t = r.e.t => o.seq <= q.seq
    OBVIOUS
  <2>2. q.e.id < new.e.id
    BY <1>1, <2>1 DEF MonotonicAt
  <2>3. r.seq < q.seq \/ r = q
    BY <1>0, <2>1
  <2> QED BY <1>0, <1>1, <2>1, <2>2, <2>3
<1>2. \A r, q \in rows \cup {new} : (r.e.t = q.e.t /\ r.seq < q.seq) => r.e.id < q.e.id
  BY <1>0, <1>1
<1>3. \A r, q \in rows \cup {new} : r.seq = q.seq => r = q
  BY <1>0
<1>4. ASSUME NEW r \in rows \cup {new}
      PROVE  \E q \in rows \cup {new} :
               q.e.t = r.e.t /\ \A o \in rows \cup {new} : o.e.t = r.e.t => o.seq <= q.seq
  <2>1. CASE r.e.t = new.e.t
    <3>1. \A o \in rows \cup {new} : o.seq <= new.seq
      BY <1>0
    <3> QED BY <2>1, <3>1
  <2>2. CASE r.e.t # new.e.t
    BY <2>2
  <2> QED BY <2>1, <2>2
<1> QED BY <1>2, <1>3, <1>4

(* No rows, so none out of order. *)
LEMMA IdOrderInit == Init => IdOrderInv
BY DEF Init, IdOrderInv, IdOrdered, Seen

(* Every step keeps rows of one time in the order of their ids. *)
LEMMA IdOrderStep == ASSUME StoreInv, StoreInv', IdOrderInv, [Next]_vars PROVE IdOrderInv'
<1> USE DEF IdOrderInv
<1>1. ASSUME NEW p \in Processes, Insert(p) PROVE IdOrderInv'
  <2> USE <1>1 DEF Insert
  <2> DEFINE row == [seq |-> nextSeq, e |-> Head(rest[p]), by |-> work[p]]
  <2>1. row \in Row
    <3>1. Head(rest[p]) \in Entry /\ work[p] \in Requests
      BY DEF StoreInv, Working, TypeOK
    <3> QED BY <3>1 DEF StoreInv, TypeOK, Row
  <2>2. Seen(p) \in SUBSET Row /\ \A q \in Seen(p) : q.seq < row.seq
    BY DEF StoreInv, TypeOK, Drawn, Seen
  <2>3. MonotonicAt(Seen(p), row.e)
    BY DEF Insertable
  <2>4. IdOrdered(Seen(p) \cup {row})
    BY <2>1, <2>2, <2>3, IdOrderedAdd
  <2>5. Seen(p)' = Seen(p) \cup {row} /\ \A q \in Processes \ {p} : Seen(q)' = Seen(q)
    BY DEF Seen, StoreInv, TypeOK
  <2> QED BY <2>4, <2>5
<1>2. ASSUME NEW p \in Processes, Commit(p) PROVE IdOrderInv'
  <2>1. \A q \in Processes : pending'[q] = {}
    BY <1>2 DEF Commit, StoreInv, Locking, TypeOK
  <2>2. events' = Seen(p)
    BY <1>2 DEF Commit, Seen
  <2>3. \A q \in Processes : Seen(q)' = events'
    BY <2>1 DEF Seen
  <2> QED BY <2>2, <2>3
<1>3. ASSUME events' = events, \A p \in Processes : pending'[p] = pending[p] \/ pending'[p] = {}
      PROVE  IdOrderInv'
  <2>1. \A p \in Processes : Seen(p)' = Seen(p) \/ Seen(p)' = events
    BY <1>3 DEF Seen
  <2> QED BY <1>3, <2>1
<1>4. ASSUME NEW p \in Processes, Step(p) PROVE IdOrderInv'
  <2>1. \/ Insert(p) \/ Commit(p)
        \/ events' = events /\ (pending' = pending \/ pending' = [pending EXCEPT ![p] = {}])
    BY <1>4 DEF Step, store, Leave, LookupFound, LookupMissing, PinHead, LoadPage, LoadDone, Stage,
       StageRefused, CheckReceipt, CheckRevision, RevisionConflict, InsertSkip, InsertConflict, Reply
  <2> QED BY <2>1, <1>1, <1>2, <1>3 DEF StoreInv, TypeOK
<1>5. ASSUME NEW p \in Processes, AcquireLock(p) \/ Crash(p) PROVE IdOrderInv'
  BY <1>5, <1>3 DEF AcquireLock, Crash, Leave, StoreInv, TypeOK
<1>6. ASSUME NEW p \in Processes, NEW w \in Requests, Submit(p, w) PROVE IdOrderInv'
  BY <1>6, <1>3 DEF Submit, store
<1>7. ASSUME ForeignInsert \/ UNCHANGED vars PROVE IdOrderInv'
  BY <1>7, <1>3 DEF ForeignInsert, vars, store, memory
<1> QED BY <1>4, <1>5, <1>6, <1>7 DEF Next

(***************************************************************************)
(* Rows of equal event time are stored in the order of their ids, although *)
(* insertEntry looks at one row of that time only and batches of several   *)
(* processes interleave.                                                   *)
(***************************************************************************)
THEOREM EqualTimeIdOrderHolds == Spec => []EqualTimeIdOrder
<1>1. IdOrderInv => EqualTimeIdOrder
  BY DEF IdOrderInv, IdOrdered, EqualTimeIdOrder
<1> QED BY <1>1, IdOrderInit, IdOrderStep, StoreInvariant, PTL DEF Spec

----------------------------------------------------------------------------
(* Snapshots *)

UpTo(n) == {r \in events : r.seq <= n}

(* The log has reached n, so whatever becomes visible later is above n. *)
Reached(n) == n = 0 \/ \E r \in events : n <= r.seq

Positive ==
  /\ \A r \in events : r.seq > 0
  /\ \A p \in Processes : \A r \in pending[p] : r.seq > 0

CacheInv(p) == cache[p].rows = UpTo(cache[p].seq) /\ Reached(cache[p].seq)

LoadInv(p) ==
  pc[p] = "load" => /\ load[p].rows = UpTo(load[p].at)
                    /\ load[p].at <= load[p].head
                    /\ Reached(load[p].head)

SnapshotInv == Positive /\ \A p \in Processes : CacheInv(p) /\ LoadInv(p)

(* Nothing cached and no read under way. *)
LEMMA SnapshotInit == Init => SnapshotInv
BY DEF Init, SnapshotInv, Positive, CacheInv, LoadInv, NoCache, UpTo, Reached

(* A commit changes nothing at or below a sequence the log has reached. *)
LEMMA ReachedStable ==
  ASSUME StoreInv, StoreInv', Positive, [Next]_vars, NEW n \in Nat, Reached(n)
  PROVE  UpTo(n)' = UpTo(n) /\ Reached(n)'
<1>1. events \subseteq events'
  BY AddedAbove
<1>2. ASSUME NEW r \in events' \ events PROVE r.seq > n
  <2>1. r.seq \in Nat /\ \A q \in events : q.seq \in Nat
    BY DEF StoreInv, TypeOK, Row
  <2>2. r.seq > 0
    BY EventsStep DEF Positive
  <2>3. \A q \in events : q.seq < r.seq
    BY AddedAbove
  <2> QED BY <2>1, <2>2, <2>3 DEF Reached
<1>3. \A r \in events' : r.seq \in Nat
  BY DEF StoreInv, TypeOK, Row
<1> QED BY <1>1, <1>2, <1>3 DEF UpTo, Reached

(* Sequences stay above zero. *)
LEMMA PositiveStep == ASSUME StoreInv, Positive, [Next]_vars PROVE Positive'
<1> USE DEF Positive
<1>1. \A r \in events' : r.seq > 0
  BY EventsStep
<1>2. ASSUME NEW p \in Processes, Step(p) PROVE \A q \in Processes : \A r \in pending'[q] : r.seq > 0
  <2>1. CASE Insert(p)
    BY <2>1 DEF Insert, StoreInv, TypeOK
  <2>2. CASE ~Insert(p)
    <3>1. pending' = pending \/ pending' = [pending EXCEPT ![p] = {}]
      BY <1>2, <2>2 DEF Step, store, Leave, LookupFound, LookupMissing, PinHead, LoadPage, LoadDone,
         Stage, StageRefused, CheckReceipt, CheckRevision, RevisionConflict, InsertSkip,
         InsertConflict, Commit, Reply
    <3> QED BY <3>1 DEF StoreInv, TypeOK
  <2> QED BY <2>1, <2>2
<1>3. ASSUME ~\E p \in Processes : Step(p)
      PROVE  \A q \in Processes : \A r \in pending'[q] : r.seq > 0
  <2>1. pending' = pending \/ \E p \in Processes : pending' = [pending EXCEPT ![p] = {}]
    BY <1>3 DEF Next, Submit, AcquireLock, Crash, Leave, ForeignInsert, vars, memory
  <2> QED BY <2>1 DEF StoreInv, TypeOK
<1> QED BY <1>1, <1>2, <1>3

(* A read that moves to the end of a page has everything up to there. *)
LEMMA PageExact ==
  ASSUME StoreInv, NEW p \in Processes, LoadInv(p), LoadPage(p)
  PROVE  LoadInv(p)'
<1> USE DEF LoadPage, store
<1> DEFINE left == {r \in events : load[p].at < r.seq /\ r.seq <= load[p].head}
<1>1. PICK page \in SUBSET left : \E last \in page :
        /\ IsPage(page, left)
        /\ \A r \in page : r.seq <= last.seq
        /\ load' = [load EXCEPT ![p].at = last.seq, ![p].rows = @ \cup page]
  OBVIOUS
<1>2. PICK last \in page :
        /\ \A r \in page, q \in left \ page : r.seq < q.seq
        /\ \A r \in page : r.seq <= last.seq
        /\ load' = [load EXCEPT ![p].at = last.seq, ![p].rows = @ \cup page]
  BY <1>1 DEF IsPage
<1>3. /\ load'[p].at = last.seq
      /\ load'[p].rows = load[p].rows \cup page
      /\ load'[p].head = load[p].head
  BY <1>2 DEF StoreInv, TypeOK, Load
<1>4. /\ load[p].at \in Nat /\ load[p].head \in Nat
      /\ \A r \in events : r.seq \in Nat
  BY DEF StoreInv, TypeOK, Load, Row
<1>5. UpTo(last.seq) = UpTo(load[p].at) \cup page
  <2>1. ASSUME NEW r \in events, r.seq <= last.seq PROVE r.seq <= load[p].at \/ r \in page
    BY <1>2, <1>4, <2>1
  <2>2. ASSUME NEW r \in events, r.seq <= load[p].at \/ r \in page PROVE r.seq <= last.seq
    BY <1>2, <1>4, <2>2
  <2> QED BY <2>1, <2>2 DEF UpTo
<1> QED BY <1>2, <1>3, <1>5 DEF LoadInv, UpTo, Reached

(* Every step keeps cached snapshots and reads under way exact. *)
LEMMA SnapshotStep == ASSUME StoreInv, StoreInv', SnapshotInv, [Next]_vars PROVE SnapshotInv'
<1> USE DEF SnapshotInv
<1>1. Positive'
  BY PositiveStep
<1>2. ASSUME NEW q \in Processes, cache'[q] = cache[q] PROVE CacheInv(q)'
  BY <1>2, ReachedStable DEF CacheInv, StoreInv, TypeOK, Snapshot
<1>3. ASSUME NEW q \in Processes, pc'[q] # "load" \/ (pc[q] = "load" /\ load'[q] = load[q]) PROVE LoadInv(q)'
  <2>1. CASE pc'[q] # "load"
    BY <2>1 DEF LoadInv
  <2>2. CASE pc[q] = "load" /\ load'[q] = load[q]
    <3>1. /\ load[q].at \in Nat /\ load[q].head \in Nat
          /\ \A r \in events : r.seq \in Nat
      BY DEF StoreInv, TypeOK, Load, Row
    <3>2. load[q].rows = UpTo(load[q].at) /\ load[q].at <= load[q].head /\ Reached(load[q].head)
      BY <2>2 DEF LoadInv
    <3>3. Reached(load[q].at)
      BY <3>1, <3>2 DEF Reached
    <3> QED BY <2>2, <3>1, <3>2, <3>3, ReachedStable DEF LoadInv
  <2> QED BY <1>3, <2>1, <2>2
<1>4. ASSUME NEW p \in Processes, PinHead(p) PROVE \A q \in Processes : CacheInv(q)' /\ LoadInv(q)'
  <2> USE <1>4 DEF PinHead, store
  <2>1. /\ WorkspaceRevision \in Nat
        /\ \A r \in events : r.seq <= WorkspaceRevision
        /\ events # {} => \E r \in events : r.seq = WorkspaceRevision
        /\ events = {} => WorkspaceRevision = 0
    BY HeadType DEF WorkspaceRevision, Head0, StoreInv, Newest, TypeOK
  <2>2. cache[p].rows = UpTo(cache[p].seq) /\ Reached(cache[p].seq) /\ cache[p].seq \in Nat
    BY DEF CacheInv, StoreInv, TypeOK, Snapshot
  <2>3. \A r \in events : r.seq \in Nat
    BY DEF StoreInv, TypeOK, Row
  <2>4. cache[p].seq <= WorkspaceRevision /\ Reached(WorkspaceRevision)
    BY <2>1, <2>2, <2>3 DEF Reached
  <2>5. LoadInv(p)'
    <3>1. load'[p] = [head |-> WorkspaceRevision, at |-> cache[p].seq, rows |-> cache[p].rows]
      BY DEF StoreInv, TypeOK
    <3> QED BY <3>1, <2>2, <2>4 DEF LoadInv, UpTo, Reached
  <2>6. \A q \in Processes \ {p} : LoadInv(q)'
    BY <1>3 DEF StoreInv, TypeOK, LoadInv, UpTo, Reached
  <2> QED BY <1>2, <2>5, <2>6
<1>5. ASSUME NEW p \in Processes, LoadPage(p) PROVE \A q \in Processes : CacheInv(q)' /\ LoadInv(q)'
  <2>1. LoadInv(p)'
    BY <1>5, PageExact
  <2>2. \A q \in Processes \ {p} : load'[q] = load[q] /\ pc'[q] = pc[q]
    BY <1>5 DEF LoadPage, StoreInv, TypeOK
  <2>3. \A q \in Processes : cache'[q] = cache[q]
    BY <1>5 DEF LoadPage
  <2> QED BY <1>2, <1>3, <2>1, <2>2, <2>3
<1>6. ASSUME NEW p \in Processes, LoadDone(p) PROVE \A q \in Processes : CacheInv(q)' /\ LoadInv(q)'
  <2> USE <1>6 DEF LoadDone, store
  <2>1. cache'[p] = [seq |-> load[p].head, rows |-> load[p].rows]
    BY DEF StoreInv, TypeOK
  <2>2. load[p].at = load[p].head
    BY DEF LoadInv, StoreInv, TypeOK, Load
  <2>3. CacheInv(p)'
    BY <2>1, <2>2 DEF LoadInv, CacheInv, UpTo, Reached
  <2>4. \A q \in Processes \ {p} : cache'[q] = cache[q] /\ load'[q] = load[q] /\ pc'[q] = pc[q]
    BY DEF StoreInv, TypeOK
  <2>5. pc'[p] # "load"
    BY DEF StoreInv, TypeOK
  <2> QED BY <1>2, <1>3, <2>3, <2>4, <2>5
<1>7. ASSUME NEW p \in Processes, Crash(p) PROVE \A q \in Processes : CacheInv(q)' /\ LoadInv(q)'
  <2> USE <1>7 DEF Crash, Leave
  <2>1. CacheInv(p)'
    <3>1. cache'[p] = NoCache
      BY DEF StoreInv, TypeOK
    <3>2. {r \in events' : r.seq <= 0} = {}
      BY <1>1 DEF Positive, StoreInv, TypeOK, Row
    <3>3. cache'[p].seq = 0 /\ cache'[p].rows = {}
      BY <3>1 DEF NoCache
    <3> QED BY <3>2, <3>3 DEF CacheInv, UpTo, Reached
  <2>2. \A q \in Processes \ {p} : cache'[q] = cache[q] /\ load'[q] = load[q] /\ pc'[q] = pc[q]
    BY DEF StoreInv, TypeOK
  <2>3. pc'[p] # "load"
    BY DEF StoreInv, TypeOK
  <2> QED BY <1>2, <1>3, <2>1, <2>2, <2>3
<1>8. ASSUME cache' = cache, \A q \in Processes : pc'[q] # "load" \/ (pc[q] = "load" /\ load'[q] = load[q])
      PROVE  \A q \in Processes : CacheInv(q)' /\ LoadInv(q)'
  BY <1>2, <1>3, <1>8
<1>9. ASSUME NEW p \in Processes, Step(p) PROVE \A q \in Processes : CacheInv(q)' /\ LoadInv(q)'
  <2>1. CASE PinHead(p) \/ LoadPage(p) \/ LoadDone(p)
    BY <2>1, <1>4, <1>5, <1>6
  <2>2. CASE ~(PinHead(p) \/ LoadPage(p) \/ LoadDone(p))
    <3>1. /\ cache' = cache
          /\ \E x \in PCs \ {"load"} : pc' = [pc EXCEPT ![p] = x] \/ pc' = pc
          /\ load' = load \/ load' = [load EXCEPT ![p] = NoLoad]
          /\ pc[p] # "load"
      BY <1>9, <2>2 DEF Step, store, Leave, LookupFound, LookupMissing, Stage, StageRefused,
         CheckReceipt, CheckRevision, RevisionConflict, InsertSkip, Insert, InsertConflict,
         Commit, Reply, PCs
    <3>2. \A q \in Processes : pc'[q] # "load" \/ (pc[q] = "load" /\ load'[q] = load[q])
      BY <3>1 DEF StoreInv, TypeOK
    <3> QED BY <3>1, <3>2, <1>8
  <2> QED BY <2>1, <2>2
<1>10. ASSUME NEW p \in Processes, NEW w \in Requests, Submit(p, w)
       PROVE  \A q \in Processes : CacheInv(q)' /\ LoadInv(q)'
  BY <1>10, <1>8 DEF Submit, store, StoreInv, TypeOK
<1>11. ASSUME NEW p \in Processes, AcquireLock(p)
       PROVE  \A q \in Processes : CacheInv(q)' /\ LoadInv(q)'
  BY <1>11, <1>8 DEF AcquireLock, StoreInv, TypeOK
<1>12. ASSUME ForeignInsert \/ UNCHANGED vars PROVE \A q \in Processes : CacheInv(q)' /\ LoadInv(q)'
  BY <1>12, <1>8 DEF ForeignInsert, vars, memory
<1> QED BY <1>1, <1>7, <1>9, <1>10, <1>11, <1>12 DEF Next

(***************************************************************************)
(* A cached snapshot holds exactly the rows up to the sequence it claims,  *)
(* for every page size and however many processes commit while its pages   *)
(* are read (readSnapshot, loadSnapshot).                                  *)
(***************************************************************************)
THEOREM SnapshotExactHolds == Spec => []SnapshotExact
<1>1. SnapshotInv => SnapshotExact
  BY DEF SnapshotInv, CacheInv, SnapshotExact, UpTo
<1> QED BY <1>1, SnapshotInit, SnapshotStep, StoreInvariant, PTL DEF Spec

----------------------------------------------------------------------------
(***************************************************************************)
(* What a request has done                                                 *)
(*                                                                         *)
(* A receipt is written once, because the lock is held from the look at it *)
(* to the commit; and what a request was to store is at every point either *)
(* stored, about to be, or was found stored in its snapshot.               *)
(***************************************************************************)

RestOf(p) == {rest[p][i] : i \in DOMAIN rest[p]}

UniqueIds(rows) == \A r, q \in rows : r.e.id = q.e.id => r = q

Before_(p) == pc[p] \in {"lookup", "pin", "load", "stage", "check"}

Serving(p) ==
  /\ Before_(p) => work[p].op = "command"
  /\ Before_(p) \/ pc[p] = "lock" => rest[p] = work[p].entries
  /\ pc[p] \in {"load", "stage"} => load[p].rows \subseteq events
  /\ pc[p] \in {"lock", "check", "insert"} =>
       /\ staged[p] \subseteq Batch(work[p])
       /\ Batch(work[p]) \subseteq staged[p] \cup Entries(events)
  /\ pc[p] = "insert" =>
       /\ work[p].op = "command" => receipts[work[p].cmd] = None
       /\ \A e \in staged[p] : \/ e \in RestOf(p) \/ e \in Entries(pending[p])
                               \/ (work[p].op # "command" /\ e \in Entries(events))
       /\ Entries(pending[p]) \subseteq staged[p]
  /\ pc[p] = "reply" =>
       /\ Batch(work[p]) \subseteq Entries(events)
       /\ work[p].op = "command" => receipts[work[p].cmd] # None /\ receipts[work[p].cmd].req = work[p]

Cached(p) == cache[p].rows \subseteq events

Uncommitted(p) ==
  /\ \A r \in pending[p] : r.by = work[p]
  /\ UniqueIds(Seen(p))
  /\ IsFiniteSet(pending[p])

\* A receipt is that of its command, and what it answers for is stored.
Receipted ==
  \A c \in Commands : receipts[c] # None =>
    /\ receipts[c].req.op = "command" /\ receipts[c].req.cmd = c
    /\ Batch(receipts[c].req) \subseteq Entries(events)

DurableInv ==
  /\ \A p \in Processes : Serving(p) /\ Cached(p) /\ Uncommitted(p)
  /\ UniqueIds(events) /\ IsFiniteSet(events)
  /\ Receipted
  /\ AckedDurable
  /\ CommandOnce

(* What a command is known by. *)
LEMMA CommandFacts ==
  ASSUME NEW w \in Requests
  PROVE  /\ w.op = "command" <=> w.cmd # None
         /\ w.op = "command" => w.cmd \in Commands
         /\ w.op # "command" => w.cmd = None
         /\ None \notin Commands
<1>1. w \in Request /\ ((w.op = "command") <=> (w.cmd # None))
  BY RequestsAssumption
<1> QED BY <1>1, NoneAssumption DEF Request

(* The rest of a request loses its first entry. *)
LEMMA RestFacts ==
  ASSUME StoreInv, NEW p \in Processes, rest[p] # <<>>
  PROVE  /\ Head(rest[p]) \in Entry
         /\ rest' = [rest EXCEPT ![p] = Tail(@)] => RestOf(p) = {Head(rest[p])} \cup RestOf(p)'
<1>1. rest[p] \in Seq(Entry)
  BY DEF StoreInv, TypeOK
<1>2. ASSUME rest' = [rest EXCEPT ![p] = Tail(@)]
      PROVE  RestOf(p) = {Head(rest[p])} \cup RestOf(p)'
  <2> DEFINE s == rest[p]
  <2>1. rest'[p] = Tail(s)
    BY <1>2 DEF StoreInv, TypeOK
  <2>2. DOMAIN s = 1..Len(s) /\ Len(s) \in Nat /\ Len(s) > 0 /\ Head(s) = s[1]
        /\ DOMAIN Tail(s) = 1..(Len(s) - 1) /\ \A i \in 1..(Len(s) - 1) : Tail(s)[i] = s[i + 1]
    BY <1>1
  <2>3. ASSUME NEW i \in DOMAIN s PROVE s[i] = Head(s) \/ \E j \in DOMAIN Tail(s) : s[i] = Tail(s)[j]
    <3>1. CASE i = 1
      BY <2>2, <3>1
    <3>2. CASE i # 1
      <4>1. i - 1 \in DOMAIN Tail(s) /\ Tail(s)[i - 1] = s[i]
        BY <2>2, <3>2
      <4> QED BY <4>1
    <3> QED BY <3>1, <3>2
  <2>4. ASSUME NEW j \in DOMAIN Tail(s) PROVE \E i \in DOMAIN s : Tail(s)[j] = s[i]
    <3>1. j + 1 \in DOMAIN s /\ Tail(s)[j] = s[j + 1]
      BY <2>2
    <3> QED BY <3>1
  <2>5. \E i \in DOMAIN s : Head(s) = s[i]
    BY <2>2
  <2> QED BY <2>1, <2>3, <2>4, <2>5 DEF RestOf
<1> QED BY <1>1, <1>2

(* What a commit does to the receipts. *)
LEMMA CommitReceipts ==
  ASSUME StoreInv, DurableInv, NEW p \in Processes, Commit(p)
  PROVE  /\ work[p] \in Requests
         /\ work[p].op # "command" => receipts' = receipts
         /\ work[p].op = "command" =>
              /\ work[p].cmd \in Commands
              /\ receipts[work[p].cmd] = None
              /\ receipts'[work[p].cmd] = [req |-> work[p], entries |-> staged[p]]
              /\ [req |-> work[p], entries |-> staged[p]] # None
              /\ \A c \in Commands : c # work[p].cmd => receipts'[c] = receipts[c]
<1>1. work[p] \in Requests
  BY DEF Commit, StoreInv, Working
<1>2. pc[p] = "insert"
  BY DEF Commit
<1>3. work[p].op = "command" => work[p].cmd \in Commands /\ receipts[work[p].cmd] = None
  BY <1>1, <1>2, CommandFacts DEF DurableInv, Serving
<1>4. work[p].op # "command" => receipts' = receipts
  BY DEF Commit, WithReceipt
<1>5. work[p].op = "command" =>
        receipts' = [receipts EXCEPT ![work[p].cmd] = [req |-> work[p], entries |-> staged[p]]]
  BY DEF Commit, WithReceipt
<1>6. [req |-> work[p], entries |-> staged[p]] \in Receipt
  BY <1>1 DEF Receipt, StoreInv, TypeOK
<1>7. [req |-> work[p], entries |-> staged[p]] # None
  BY <1>6, NoReceiptAssumption
<1>8. work[p].op = "command" =>
        /\ receipts'[work[p].cmd] = [req |-> work[p], entries |-> staged[p]]
        /\ \A c \in Commands : c # work[p].cmd => receipts'[c] = receipts[c]
  BY <1>3, <1>5 DEF StoreInv, TypeOK
<1> QED BY <1>1, <1>3, <1>4, <1>7, <1>8

(* A row adds its entry. *)
LEMMA EntriesAdd ==
  ASSUME NEW rows, NEW row
  PROVE  Entries(rows \cup {row}) = Entries(rows) \cup {row.e}
BY DEF Entries

(* A step of one process that leaves what the others hold alone. *)
Alone(p) ==
  \A q \in Processes \ {p} :
    /\ pc'[q] = pc[q] /\ work'[q] = work[q] /\ rest'[q] = rest[q] /\ staged'[q] = staged[q]
    /\ load'[q] = load[q] /\ cache'[q] = cache[q] /\ pending'[q] = pending[q]

(* Stored rows stay, and the lock keeps receipts from changing under an insert. *)
LEMMA OtherServing ==
  ASSUME DurableInv, NEW p \in Processes, Alone(p), NEW q \in Processes \ {p},
         events \subseteq events',
         \A c \in Commands : receipts[c] # None => receipts'[c] = receipts[c],
         pc[q] = "insert" => receipts' = receipts,
         pc[q] # "idle" => work[q] \in Requests
  PROVE  Serving(q)' /\ Cached(q)'
<1> USE DEF Alone
<1>0. Serving(q) /\ Cached(q)
  BY DEF DurableInv
<1>1. Entries(events) \subseteq Entries(events')
  BY DEF Entries
<1>2. Cached(q)'
  BY <1>0 DEF Cached
<1>3. RestOf(q)' = RestOf(q)
  BY DEF RestOf
<1>4. pc[q] \in {"lock", "check", "insert"} =>
        /\ staged'[q] \subseteq Batch(work'[q])
        /\ Batch(work'[q]) \subseteq staged'[q] \cup Entries(events')
  BY <1>0, <1>1 DEF Serving
<1>5. pc[q] = "insert" =>
        /\ work'[q].op = "command" => receipts'[work'[q].cmd] = None
        /\ \A e \in staged'[q] : \/ e \in RestOf(q)' \/ e \in Entries(pending'[q])
                                \/ (work'[q].op # "command" /\ e \in Entries(events'))
        /\ Entries(pending'[q]) \subseteq staged'[q]
  BY <1>0, <1>1, <1>3 DEF Serving
<1>6. pc[q] = "reply" =>
        /\ Batch(work'[q]) \subseteq Entries(events')
        /\ work'[q].op = "command" =>
             receipts'[work'[q].cmd] # None /\ receipts'[work'[q].cmd].req = work'[q]
  <2>1. pc[q] = "reply" => /\ Batch(work[q]) \subseteq Entries(events)
                           /\ work[q].op = "command" => /\ receipts[work[q].cmd] # None
                                                        /\ receipts[work[q].cmd].req = work[q]
    BY <1>0 DEF Serving
  <2>2. pc[q] = "reply" /\ work[q].op = "command" => work[q].cmd \in Commands
    BY CommandFacts
  <2> QED BY <1>1, <2>1, <2>2
<1>7. /\ pc[q] \in {"load", "stage"} => load'[q].rows \subseteq events'
      /\ Before_(q) => work'[q].op = "command"
      /\ Before_(q) \/ pc[q] = "lock" => rest'[q] = work'[q].entries
      /\ Before_(q)' <=> Before_(q)
  BY <1>0 DEF Serving, Before_
<1>8. Serving(q)'
  BY <1>4, <1>5, <1>6, <1>7 DEF Serving, Entries
<1> QED BY <1>2, <1>8

(* A step that writes nothing has to answer for its own process only. *)
LEMMA QuietStep ==
  ASSUME StoreInv, DurableInv, NEW p \in Processes, Alone(p),
         UNCHANGED <<events, receipts>>,
         Serving(p)', Cached(p)', Uncommitted(p)', AckedDurable'
  PROVE  DurableInv'
<1>1. ASSUME NEW q \in Processes \ {p} PROVE Serving(q)' /\ Cached(q)'
  BY OtherServing DEF StoreInv, Working
<1>2. ASSUME NEW q \in Processes \ {p} PROVE Uncommitted(q)'
  BY DEF DurableInv, Alone, Uncommitted, UniqueIds, Seen
<1>3. (UniqueIds(events) /\ IsFiniteSet(events) /\ Receipted /\ CommandOnce)'
  BY DEF DurableInv, UniqueIds, Receipted, CommandOnce, Entries
<1> QED BY <1>1, <1>2, <1>3 DEF DurableInv

(* What is answered was answered before, or is stored. *)
LEMMA AckedStep ==
  ASSUME DurableInv, UNCHANGED <<events, receipts>>, NEW w,
         acked' = acked \/ /\ acked' = acked \cup {w}
                           /\ Batch(w) \subseteq Entries(events)
                           /\ w.op = "command" => receipts[w.cmd] # None /\ receipts[w.cmd].req = w
  PROVE  AckedDurable'
<1>1. Entries(events)' = Entries(events)
  BY DEF Entries
<1>2. \A v \in acked' : /\ Batch(v) \subseteq Entries(events)
                        /\ v.op = "command" => receipts[v.cmd] # None /\ receipts[v.cmd].req = v
  BY DEF DurableInv, AckedDurable
<1> QED BY <1>1, <1>2 DEF AckedDurable

(* A request that ends leaves the store to answer for what it stored. *)
LEMMA LeaveDurable ==
  ASSUME StoreInv, DurableInv, NEW p \in Processes, Leave(p), UNCHANGED <<events, receipts>>,
         \A q \in Processes \ {p} : cache'[q] = cache[q],
         cache'[p].rows \subseteq events, AckedDurable'
  PROVE  DurableInv'
<1>1. Alone(p)
  BY DEF Alone, Leave, StoreInv, TypeOK
<1>2. pc'[p] = "idle" /\ pending'[p] = {}
  BY DEF Leave, StoreInv, TypeOK
<1>3. Serving(p)' /\ Cached(p)'
  BY <1>2 DEF Serving, Before_, Cached
<1>4. Uncommitted(p)'
  <2>1. UniqueIds(events)
    BY DEF DurableInv
  <2>2. UniqueIds(Seen(p))'
    BY <1>2, <2>1 DEF UniqueIds, Seen
  <2>3. IsFiniteSet({})
    BY FS_EmptySet
  <2> QED BY <1>2, <2>2, <2>3 DEF Uncommitted
<1> QED BY <1>1, <1>3, <1>4, QuietStep

(* A command that is answered from a receipt is that of the receipt. *)
LEMMA AnswerDurable ==
  ASSUME StoreInv, DurableInv, NEW p \in Processes, Before_(p),
         receipts[work[p].cmd] # None, AnswerFromReceipt(p), UNCHANGED <<events, receipts>>
  PROVE  AckedDurable'
<1>1. work[p] \in Requests /\ work[p].op = "command"
  BY DEF StoreInv, Working, Before_, DurableInv, Serving
<1>2. work[p].cmd \in Commands
  BY <1>1, CommandFacts
<1>3. Batch(receipts[work[p].cmd].req) \subseteq Entries(events)
  BY <1>2 DEF DurableInv, Receipted
<1>4. CASE SameRequest(p)
  <2>1. receipts[work[p].cmd].req = work[p] /\ acked' = acked \cup {work[p]}
    BY <1>4 DEF SameRequest, AnswerFromReceipt
  <2>2. Batch(work[p]) \subseteq Entries(events)
    BY <1>3, <2>1
  <2> QED BY <2>1, <2>2, AckedStep
<1>5. CASE ~SameRequest(p)
  <2>1. acked' = acked
    BY <1>5 DEF AnswerFromReceipt
  <2> QED BY <2>1, AckedStep
<1> QED BY <1>4, <1>5

(* Steps that end a request. *)
LEMMA EndDurable ==
  ASSUME StoreInv, DurableInv, NEW p \in Processes,
         \/ LookupFound(p) \/ StageRefused(p) \/ CheckReceipt(p)
         \/ InsertConflict(p) \/ Reply(p) \/ Crash(p)
  PROVE  DurableInv'
<1>1. Leave(p) /\ UNCHANGED <<events, receipts>>
  BY DEF LookupFound, StageRefused, CheckReceipt, InsertConflict, Reply, Crash, store
<1>2. cache[p].rows \subseteq events
  BY DEF DurableInv, Cached
<1>3. /\ \A q \in Processes \ {p} : cache'[q] = cache[q]
      /\ cache'[p].rows \subseteq events
  <2>1. CASE cache' = cache
    BY <1>2, <2>1
  <2>2. CASE cache' = [cache EXCEPT ![p] = NoCache]
    BY <2>2 DEF NoCache, StoreInv, TypeOK
  <2> QED BY <2>1, <2>2 DEF LookupFound, StageRefused, CheckReceipt, InsertConflict, Reply, Crash, store
<1>4. AckedDurable'
  <2>1. CASE LookupFound(p) \/ CheckReceipt(p)
    BY <1>1, <2>1, AnswerDurable DEF LookupFound, CheckReceipt, Before_
  <2>2. CASE StageRefused(p) \/ InsertConflict(p) \/ Crash(p)
    <3>1. acked' = acked
      BY <2>2 DEF StageRefused, InsertConflict, Crash
    <3> QED BY <1>1, <3>1, AckedStep
  <2>3. CASE Reply(p)
    <3>1. pc[p] = "reply" /\ acked' = acked \cup {work[p]}
      BY <2>3 DEF Reply
    <3>2. /\ Batch(work[p]) \subseteq Entries(events)
          /\ work[p].op = "command" => /\ receipts[work[p].cmd] # None
                                       /\ receipts[work[p].cmd].req = work[p]
      BY <3>1 DEF DurableInv, Serving
    <3> QED BY <1>1, <3>1, <3>2, AckedStep
  <2> QED BY <2>1, <2>2, <2>3
<1> QED BY <1>1, <1>3, <1>4, LeaveDurable

(* Steps that neither write nor answer. *)
LEMMA MoveDurable ==
  ASSUME StoreInv, DurableInv, NEW p \in Processes, Alone(p),
         UNCHANGED <<events, receipts, acked, pending>>,
         work'[p] = work[p] \/ pending[p] = {},
         Serving(p)', Cached(p)'
  PROVE  DurableInv'
<1>1. AckedDurable'
  BY AckedStep
<1>2. Uncommitted(p)'
  BY DEF DurableInv, Uncommitted, UniqueIds, Seen
<1> QED BY <1>1, <1>2, QuietStep

(* A request starts with all of its entries to write. *)
LEMMA SubmitDurable ==
  ASSUME StoreInv, DurableInv, NEW p \in Processes, NEW w \in Requests, Submit(p, w)
  PROVE  DurableInv'
<1> USE DEF Submit, store
<1>1. Alone(p)
  BY DEF Alone, StoreInv, TypeOK
<1>2. pending[p] = {}
  BY DEF StoreInv, Locking
<1>3. /\ pc'[p] = IF w.op = "command" THEN "lookup" ELSE "lock"
      /\ work'[p] = w /\ rest'[p] = w.entries /\ staged'[p] = Batch(w)
  BY DEF StoreInv, TypeOK
<1>4. Serving(p)'
  BY <1>3 DEF Serving, Before_
<1>5. Cached(p)'
  BY DEF DurableInv, Cached
<1> QED BY <1>1, <1>2, <1>4, <1>5, MoveDurable

(* The read of the snapshot collects stored rows. *)
LEMMA ReadDurable ==
  ASSUME StoreInv, DurableInv, NEW p \in Processes,
         LookupMissing(p) \/ PinHead(p) \/ LoadPage(p) \/ LoadDone(p)
  PROVE  DurableInv'
<1> USE DEF LookupMissing, PinHead, LoadPage, LoadDone, store
<1>0. UNCHANGED <<events, receipts, acked, pending, work, rest>>
  OBVIOUS
<1>1. \A q \in Processes \ {p} : load'[q] = load[q]
  <2>1. CASE LoadPage(p)
    <3>1. PICK new : load' = [load EXCEPT ![p] = new]
      BY <2>1
    <3> QED BY <3>1 DEF StoreInv, TypeOK
  <2>2. CASE LookupMissing(p) \/ LoadDone(p)
    BY <2>2
  <2>3. CASE PinHead(p)
    BY <2>3 DEF StoreInv, TypeOK
  <2> QED BY <2>1, <2>2, <2>3
<1>2. Alone(p)
  BY <1>1 DEF Alone, StoreInv, TypeOK
<1>3. pc[p] \in {"load", "stage"} => load[p].rows \subseteq events
  BY DEF DurableInv, Serving
<1>4. cache[p].rows \subseteq events
  BY DEF DurableInv, Cached
<1>5. pc'[p] \in {"load", "stage"} => load'[p].rows \subseteq events
  <2>1. CASE LoadPage(p)
    <3>1. PICK page \in SUBSET events : \E last \in page :
            load' = [load EXCEPT ![p].at = last.seq, ![p].rows = @ \cup page]
      BY <2>1
    <3>2. PICK last \in page : load' = [load EXCEPT ![p].at = last.seq, ![p].rows = @ \cup page]
      BY <3>1
    <3>4. load' = [load EXCEPT ![p] = [load[p] EXCEPT !.at = last.seq, !.rows = @ \cup page]]
      BY <3>2 DEF StoreInv, TypeOK
    <3>5. load'[p] = [load[p] EXCEPT !.at = last.seq, !.rows = @ \cup page] /\ load[p] \in Load
      BY <3>4 DEF StoreInv, TypeOK
    <3>3. load'[p].rows = load[p].rows \cup page
      BY <3>5 DEF Load
    <3> QED BY <1>3, <2>1, <3>3
  <2>2. CASE LookupMissing(p)
    BY <2>2 DEF StoreInv, TypeOK
  <2>3. CASE PinHead(p)
    BY <1>4, <2>3 DEF StoreInv, TypeOK
  <2>4. CASE LoadDone(p)
    BY <1>3, <2>4
  <2> QED BY <2>1, <2>2, <2>3, <2>4
<1>6. Cached(p)'
  <2>1. CASE LoadDone(p)
    BY <1>3, <2>1 DEF Cached, StoreInv, TypeOK
  <2>2. CASE LookupMissing(p) \/ PinHead(p) \/ LoadPage(p)
    BY <1>4, <2>2 DEF Cached
  <2> QED BY <2>1, <2>2
<1>7. Before_(p) /\ pc'[p] \in {"pin", "load", "stage"}
  BY DEF Before_, StoreInv, TypeOK
<1>8. Serving(p)'
  <2>1. work[p].op = "command" /\ rest[p] = work[p].entries
    BY <1>7 DEF DurableInv, Serving
  <2> QED BY <1>0, <1>5, <1>7, <2>1 DEF Serving, Before_
<1> QED BY <1>0, <1>2, <1>6, <1>8, MoveDurable

(* What staging leaves out is in the snapshot. *)
LEMMA StageDurable ==
  ASSUME StoreInv, DurableInv, NEW p \in Processes, Stage(p)
  PROVE  DurableInv'
<1> USE DEF Stage, store
<1>1. Alone(p)
  BY DEF Alone, StoreInv, TypeOK
<1>2. /\ work[p].op = "command" /\ rest[p] = work[p].entries
      /\ load[p].rows \subseteq events
  BY DEF DurableInv, Serving, Before_
<1>3. pc'[p] = "lock" /\ staged'[p] = Batch(work[p]) \ Entries(load[p].rows)
  BY DEF StoreInv, TypeOK, NotStored
<1>4. Entries(load[p].rows) \subseteq Entries(events)
  BY <1>2 DEF Entries
<1>5. Serving(p)'
  BY <1>2, <1>3, <1>4 DEF Serving, Before_
<1>6. Cached(p)'
  BY DEF DurableInv, Cached
<1> QED BY <1>1, <1>5, <1>6, MoveDurable

(* Under the lock everything that is to be written is still to be inserted. *)
LEMMA LockDurable ==
  ASSUME StoreInv, DurableInv, NEW p \in Processes, AcquireLock(p) \/ CheckRevision(p)
  PROVE  DurableInv'
<1> USE DEF AcquireLock, CheckRevision, store
<1>0. UNCHANGED <<events, receipts, acked, pending, work, rest, staged, cache, load>>
  OBVIOUS
<1>1. Alone(p)
  BY DEF Alone, StoreInv, TypeOK
<1>2. Cached(p)'
  BY DEF DurableInv, Cached
<1>3. /\ pc[p] \in {"lock", "check"} /\ pc'[p] \in {"check", "insert"}
      /\ pc[p] = "check" \/ pc'[p] = "check" => work[p].op = "command"
      /\ pc'[p] = "insert" /\ work[p].op = "command" => receipts[work[p].cmd] = None
  BY DEF StoreInv, TypeOK, DurableInv, Serving, Before_
<1>4. /\ rest[p] = work[p].entries
      /\ staged[p] \subseteq Batch(work[p])
      /\ Batch(work[p]) \subseteq staged[p] \cup Entries(events)
  BY <1>3 DEF DurableInv, Serving, Before_
<1>5. Entries(pending[p]) = {}
  BY <1>3 DEF StoreInv, Locking, Entries
<1>6. RestOf(p) = Batch(work[p])
  BY <1>4 DEF RestOf, Batch
<1>7. RestOf(p)' = RestOf(p) /\ Entries(pending'[p]) = {} /\ Entries(events') = Entries(events)
  BY <1>0, <1>5 DEF RestOf, Entries
<1>8. Serving(p)'
  <2>1. CASE pc'[p] = "check"
    BY <1>0, <1>3, <1>4, <1>7, <2>1 DEF Serving, Before_
  <2>2. CASE pc'[p] = "insert"
    BY <1>0, <1>3, <1>4, <1>6, <1>7, <2>2 DEF Serving, Before_
  <2> QED BY <1>3, <2>1, <2>2
<1> QED BY <1>0, <1>1, <1>2, <1>8, MoveDurable

(* A conflict starts the command over from its receipt. *)
LEMMA ConflictDurable ==
  ASSUME StoreInv, DurableInv, NEW p \in Processes, RevisionConflict(p)
  PROVE  DurableInv'
<1> USE DEF RevisionConflict, store
<1>1. CASE attempt[p] < MaxAttempts
  <2>1. Alone(p)
    BY <1>1 DEF Alone, StoreInv, TypeOK
  <2>2. pc'[p] = "lookup" /\ work[p].op = "command" /\ rest[p] = work[p].entries
    BY <1>1 DEF DurableInv, Serving, Before_, StoreInv, TypeOK
  <2>3. Serving(p)'
    BY <1>1, <2>2 DEF Serving, Before_
  <2>4. Cached(p)'
    BY DEF DurableInv, Cached
  <2> QED BY <1>1, <2>1, <2>3, <2>4, MoveDurable
<1>2. CASE ~(attempt[p] < MaxAttempts)
  <2>1. AckedDurable'
    BY AckedStep
  <2>2. cache[p].rows \subseteq events
    BY DEF DurableInv, Cached
  <2> QED BY <1>2, <2>1, <2>2, LeaveDurable
<1> QED BY <1>1, <1>2

(* An entry is passed over when it is stored, or is not to be written. *)
LEMMA SkipDurable ==
  ASSUME StoreInv, DurableInv, NEW p \in Processes, InsertSkip(p)
  PROVE  DurableInv'
<1> USE DEF InsertSkip, store
<1>1. Alone(p)
  BY DEF Alone, StoreInv, TypeOK
<1>2. Cached(p)'
  BY DEF DurableInv, Cached
<1> DEFINE e == Head(rest[p])
<1>3. RestOf(p) = {e} \cup RestOf(p)'
  BY RestFacts
<1>4. work[p] \in Requests
  BY DEF StoreInv, Working
<1>5. \/ e \notin staged[p]
      \/ e \in Entries(pending[p])
      \/ (work[p].op # "command" /\ e \in Entries(events))
  BY DEF Passed, Seen, Entries
<1>6. /\ staged[p] \subseteq Batch(work[p])
      /\ Batch(work[p]) \subseteq staged[p] \cup Entries(events)
      /\ work[p].op = "command" => receipts[work[p].cmd] = None
      /\ \A x \in staged[p] : \/ x \in RestOf(p) \/ x \in Entries(pending[p])
                              \/ (work[p].op # "command" /\ x \in Entries(events))
      /\ Entries(pending[p]) \subseteq staged[p]
  BY DEF DurableInv, Serving
<1>7. \A x \in staged[p] : \/ x \in RestOf(p)' \/ x \in Entries(pending[p])
                           \/ (work[p].op # "command" /\ x \in Entries(events))
  BY <1>3, <1>5, <1>6
<1>8. Serving(p)'
  BY <1>6, <1>7 DEF Serving, Before_, Entries
<1> QED BY <1>1, <1>2, <1>8, MoveDurable

(* A row that is inserted is one of the request, under an id of its own. *)
LEMMA InsertDurable ==
  ASSUME StoreInv, DurableInv, NEW p \in Processes, Insert(p)
  PROVE  DurableInv'
<1> USE DEF Insert, store
<1> DEFINE e == Head(rest[p])
           row == [seq |-> nextSeq, e |-> e, by |-> work[p]]
<1>1. Alone(p)
  BY DEF Alone, StoreInv, TypeOK
<1>2. Cached(p)'
  BY DEF DurableInv, Cached
<1>3. RestOf(p) = {e} \cup RestOf(p)'
  BY RestFacts
<1>4. pending'[p] = pending[p] \cup {row}
  BY DEF StoreInv, TypeOK
<1>5. Entries(pending'[p]) = Entries(pending[p]) \cup {e}
  <2>1. Entries(pending[p] \cup {row}) = Entries(pending[p]) \cup {row.e}
    BY EntriesAdd
  <2> QED BY <1>4, <2>1
<1>6. e \in staged[p] /\ \A r \in Seen(p) : r.e.id # e.id
  BY DEF Passed, Insertable, UniqueId
<1>7. /\ staged[p] \subseteq Batch(work[p])
      /\ Batch(work[p]) \subseteq staged[p] \cup Entries(events)
      /\ work[p].op = "command" => receipts[work[p].cmd] = None
      /\ \A x \in staged[p] : \/ x \in RestOf(p) \/ x \in Entries(pending[p])
                              \/ (work[p].op # "command" /\ x \in Entries(events))
      /\ Entries(pending[p]) \subseteq staged[p]
  BY DEF DurableInv, Serving
<1>8. \A x \in staged[p] : \/ x \in RestOf(p)' \/ x \in Entries(pending'[p])
                           \/ (work[p].op # "command" /\ x \in Entries(events))
  BY <1>3, <1>5, <1>7
<1>9. Serving(p)'
  <2>1. Entries(pending'[p]) \subseteq staged[p]
    BY <1>5, <1>6, <1>7
  <2>2. Entries(events') = Entries(events)
    OBVIOUS
  <2> QED BY <1>7, <1>8, <2>1, <2>2 DEF Serving, Before_
<1>10. Uncommitted(p)'
  <2>1. \A r \in pending[p] : r.by = work[p]
    BY DEF DurableInv, Uncommitted
  <2>2. UniqueIds(Seen(p)) /\ IsFiniteSet(pending[p])
    BY DEF DurableInv, Uncommitted
  <2>3. IsFiniteSet(pending[p] \cup {row})
    BY <2>2, FS_AddElement
  <2>4. Seen(p)' = Seen(p) \cup {row}
    BY <1>4 DEF Seen
  <2>5. UniqueIds(Seen(p) \cup {row})
    BY <1>6, <2>2 DEF UniqueIds
  <2>6. \A r \in pending'[p] : r.by = work'[p]
    BY <1>4, <2>1
  <2>7. IsFiniteSet(pending'[p])
    BY <1>4, <2>3
  <2>8. UniqueIds(Seen(p))'
    BY <2>4, <2>5 DEF UniqueIds
  <2> QED BY <2>6, <2>7, <2>8 DEF Uncommitted
<1>11. AckedDurable'
  BY AckedStep
<1> QED BY <1>1, <1>2, <1>9, <1>10, <1>11, QuietStep

(* Rows with ids of their own are as many as their entries. *)
LEMMA EntriesCardinality ==
  ASSUME NEW rows, IsFiniteSet(rows), UniqueIds(rows)
  PROVE  Cardinality(Entries(rows)) = Cardinality(rows)
<1> DEFINE f == [r \in rows |-> r.e]
<1>1. f \in [rows -> Entries(rows)]
  BY DEF Entries
<1>2. f \in Surjection(rows, Entries(rows))
  BY <1>1 DEF Surjection, Entries
<1>3. f \in Injection(rows, Entries(rows))
  <2>1. ASSUME NEW a \in rows, NEW b \in rows, f[a] = f[b] PROVE a = b
    BY <2>1 DEF UniqueIds
  <2> QED BY <1>1, <2>1 DEF Injection, IsInjective
<1>4. ExistsBijection(rows, Entries(rows))
  BY <1>2, <1>3 DEF ExistsBijection, Bijection
<1> QED BY <1>4, FS_Bijection

(* The rows and the receipt of a request become visible together. *)
LEMMA CommitDurable ==
  ASSUME StoreInv, DurableInv, NEW p \in Processes, Commit(p)
  PROVE  DurableInv'
<1> DEFINE w == work[p]
<1>0. /\ pc[p] = "insert" /\ rest[p] = <<>> /\ events' = events \cup pending[p]
      /\ UNCHANGED <<work, cache, load, rest, staged, acked>>
      /\ w \in Requests
      /\ pc'[p] = "reply" /\ pending'[p] = {}
  BY CommitReceipts DEF Commit, StoreInv, TypeOK
<1>1. Alone(p)
  BY DEF Commit, Alone, StoreInv, TypeOK
<1>2. \A q \in Processes \ {p} : pc[q] # "insert" /\ pending[q] = {}
  BY <1>0 DEF StoreInv, Locking
<1>3. /\ Entries(events') = Entries(events) \cup Entries(pending[p])
      /\ events \subseteq events'
  BY <1>0 DEF Entries
<1>4. /\ staged[p] \subseteq Batch(w)
      /\ Batch(w) \subseteq staged[p] \cup Entries(events)
      /\ \A x \in staged[p] : \/ x \in Entries(pending[p])
                              \/ (w.op # "command" /\ x \in Entries(events))
      /\ Entries(pending[p]) \subseteq staged[p]
  <2>1. RestOf(p) = {}
    BY <1>0 DEF RestOf
  <2> QED BY <1>0, <2>1 DEF DurableInv, Serving
<1>5. Batch(w) \subseteq Entries(events')
  BY <1>3, <1>4
<1>6. /\ w.op # "command" => receipts' = receipts
      /\ w.op = "command" =>
           /\ w.cmd \in Commands
           /\ receipts[w.cmd] = None
           /\ receipts'[w.cmd] # None
           /\ receipts'[w.cmd].req = w /\ receipts'[w.cmd].entries = staged[p]
           /\ \A c \in Commands : c # w.cmd => receipts'[c] = receipts[c]
  <2>1. [req |-> w, entries |-> staged[p]].req = w /\ [req |-> w, entries |-> staged[p]].entries = staged[p]
    OBVIOUS
  <2> QED BY <2>1, CommitReceipts
<1>7. \A c \in Commands : receipts[c] # None => receipts'[c] = receipts[c]
  BY <1>6
<1>8. Serving(p)' /\ Cached(p)'
  <2>1. cache[p].rows \subseteq events
    BY DEF DurableInv, Cached
  <2>2. Serving(p)'
    BY <1>0, <1>5, <1>6 DEF Serving, Before_
  <2> QED BY <1>0, <1>3, <2>1, <2>2 DEF Cached
<1>9. ASSUME NEW q \in Processes \ {p} PROVE Serving(q)' /\ Cached(q)'
  BY <1>1, <1>2, <1>3, <1>7, OtherServing DEF StoreInv, Working
<1>10. UniqueIds(events)' /\ IsFiniteSet(events)'
  <2>1. UniqueIds(events \cup pending[p]) /\ IsFiniteSet(pending[p]) /\ IsFiniteSet(events)
    BY DEF DurableInv, Uncommitted, Seen
  <2>2. IsFiniteSet(events \cup pending[p])
    BY <2>1, FS_Union
  <2> QED BY <1>0, <2>1, <2>2 DEF UniqueIds
<1>11. ASSUME NEW q \in Processes PROVE Uncommitted(q)'
  <2>1. pending'[q] = {}
    BY <1>0, <1>1, <1>2 DEF Alone
  <2>2. IsFiniteSet({})
    BY FS_EmptySet
  <2> QED BY <1>10, <2>1, <2>2 DEF Uncommitted, Seen, UniqueIds
<1>12. Receipted'
  <2>1. ASSUME NEW c \in Commands, receipts'[c] # None
        PROVE  /\ receipts'[c].req.op = "command" /\ receipts'[c].req.cmd = c
               /\ Batch(receipts'[c].req) \subseteq Entries(events')
    <3>1. CASE w.op = "command" /\ c = w.cmd
      BY <1>5, <1>6, <3>1
    <3>2. CASE ~(w.op = "command" /\ c = w.cmd)
      <4>1. receipts'[c] = receipts[c]
        BY <1>6, <3>2
      <4> QED BY <1>3, <2>1, <4>1 DEF DurableInv, Receipted
    <3> QED BY <3>1, <3>2
  <2> QED BY <2>1 DEF Receipted, Entries
<1>13. AckedDurable'
  <2>1. ASSUME NEW v \in acked
        PROVE  /\ Batch(v) \subseteq Entries(events')
               /\ v.op = "command" => receipts'[v.cmd] # None /\ receipts'[v.cmd].req = v
    <3>1. v \in Requests
      BY DEF StoreInv, TypeOK
    <3>2. /\ Batch(v) \subseteq Entries(events)
          /\ v.op = "command" => receipts[v.cmd] # None /\ receipts[v.cmd].req = v
      BY DEF DurableInv, AckedDurable
    <3>3. v.op = "command" => v.cmd \in Commands
      BY <3>1, CommandFacts
    <3> QED BY <1>3, <1>7, <3>2, <3>3
  <2> QED BY <1>0, <2>1 DEF AckedDurable, Entries
<1>14. CommandOnce'
  <2> DEFINE Mine(rows, c) == {r \in rows : r.by.cmd = c}
  <2>1. \A r \in pending[p] : r.by = w
    BY DEF DurableInv, Uncommitted
  <2>2. ASSUME NEW c \in Commands
        PROVE  IF receipts'[c] = None THEN Mine(events', c) = {}
               ELSE /\ Entries(Mine(events', c)) = receipts'[c].entries
                    /\ Cardinality(Mine(events', c)) = Cardinality(receipts'[c].entries)
                    /\ \A r \in Mine(events', c) : r.by = receipts'[c].req
    <3>0. IF receipts[c] = None THEN Mine(events, c) = {}
          ELSE /\ Entries(Mine(events, c)) = receipts[c].entries
               /\ Cardinality(Mine(events, c)) = Cardinality(receipts[c].entries)
               /\ \A r \in Mine(events, c) : r.by = receipts[c].req
      BY DEF DurableInv, CommandOnce
    <3>1. CASE w.op = "command" /\ c = w.cmd
      <4>1. Mine(events, c) = {}
        BY <1>6, <3>0, <3>1
      <4>2. Mine(events', c) = pending[p]
        BY <1>0, <2>1, <3>1, <4>1
      <4>3. Entries(pending[p]) = staged[p]
        BY <1>4, <3>1
      <4>4. Cardinality(Entries(pending[p])) = Cardinality(pending[p])
        BY EntriesCardinality DEF DurableInv, Uncommitted, UniqueIds, Seen
      <4> HIDE DEF Mine
      <4>5. \A r \in Mine(events', c) : r.by = receipts'[c].req
        BY <1>6, <2>1, <3>1, <4>2
      <4>6. Entries(Mine(events', c)) = receipts'[c].entries
        BY <1>6, <3>1, <4>2, <4>3
      <4>7. Cardinality(Mine(events', c)) = Cardinality(receipts'[c].entries)
        BY <1>6, <3>1, <4>2, <4>3, <4>4
      <4> QED BY <1>6, <3>1, <4>5, <4>6, <4>7
    <3>2. CASE ~(w.op = "command" /\ c = w.cmd)
      <4>1. receipts'[c] = receipts[c]
        BY <1>6, <3>2
      <4>2. w.cmd # c
        BY <1>0, <3>2, CommandFacts
      <4>3. Mine(events', c) = Mine(events, c)
        BY <1>0, <2>1, <4>2
      <4> HIDE DEF Mine
      <4> QED BY <3>0, <4>1, <4>3
    <3> QED BY <3>1, <3>2
  <2> QED BY <2>2 DEF CommandOnce, Entries
<1> QED BY <1>8, <1>9, <1>10, <1>11, <1>12, <1>13, <1>14 DEF DurableInv

(* The store starts with nothing to answer for. *)
LEMMA DurableInit == Init => DurableInv
<1> SUFFICES ASSUME Init PROVE DurableInv
  OBVIOUS
<1>0. IsFiniteSet({})
  BY FS_EmptySet
<1>1. ASSUME NEW p \in Processes PROVE Serving(p) /\ Cached(p) /\ Uncommitted(p)
  BY <1>0 DEF Init, Serving, Before_, Cached, Uncommitted, UniqueIds, Seen, NoCache
<1>2. UniqueIds(events) /\ IsFiniteSet(events) /\ Receipted /\ AckedDurable /\ CommandOnce
  BY <1>0 DEF Init, UniqueIds, Receipted, AckedDurable, CommandOnce
<1> QED BY <1>1, <1>2 DEF DurableInv

(* Other tenants and steps that change nothing. *)
LEMMA ElsewhereDurable ==
  ASSUME StoreInv, DurableInv, ForeignInsert \/ UNCHANGED vars
  PROVE  DurableInv'
<1>0. UNCHANGED <<events, receipts, memory, acked>>
  BY DEF ForeignInsert, vars, store, memory
<1>1. AckedDurable'
  BY <1>0, AckedStep
<1>2. (\A p \in Processes : Serving(p) /\ Cached(p) /\ Uncommitted(p))'
  BY <1>0 DEF DurableInv, memory, Serving, Before_, Cached, Uncommitted, UniqueIds, Seen, Entries, RestOf
<1>3. (UniqueIds(events) /\ IsFiniteSet(events) /\ Receipted /\ CommandOnce)'
  BY <1>0 DEF DurableInv, UniqueIds, Receipted, CommandOnce, Entries
<1> QED BY <1>1, <1>2, <1>3 DEF DurableInv

(* Every step keeps what was promised. *)
LEMMA DurableStep == ASSUME StoreInv, DurableInv, [Next]_vars PROVE DurableInv'
<1>1. ASSUME NEW p \in Processes, NEW w \in Requests, Submit(p, w) PROVE DurableInv'
  BY <1>1, SubmitDurable
<1>2. ASSUME NEW p \in Processes, Step(p) PROVE DurableInv'
  BY <1>2, EndDurable, ReadDurable, StageDurable, LockDurable, ConflictDurable, SkipDurable,
     InsertDurable, CommitDurable DEF Step
<1>3. ASSUME NEW p \in Processes, AcquireLock(p) \/ Crash(p) PROVE DurableInv'
  BY <1>3, LockDurable, EndDurable
<1> QED BY <1>1, <1>2, <1>3, ElsewhereDurable DEF Next

(* Both invariants hold together. *)
LEMMA DurableHolds == Spec => [](StoreInv /\ DurableInv)
<1>1. StoreInv /\ DurableInv /\ [Next]_vars => StoreInv' /\ DurableInv'
  BY NextInv, DurableStep
<1> QED BY InitInv, DurableInit, <1>1, PTL DEF Spec

(***************************************************************************)
(* Whatever was answered with success is stored, and no two requests under *)
(* one command identity are both answered with success, whichever process  *)
(* died, conflicted or raced (commitEntries, FoldSdk.command).             *)
(***************************************************************************)
THEOREM AckedDurableHolds == Spec => []AckedDurable
<1>1. DurableInv => AckedDurable
  BY DEF DurableInv
<1> QED BY <1>1, DurableHolds, PTL

(***************************************************************************)
(* A command's rows are exactly those of its receipt, each written once    *)
(* (commitEntries looks for the receipt under the tenant lock and writes   *)
(* it in the transaction of the rows).                                     *)
(***************************************************************************)
THEOREM CommandOnceHolds == Spec => []CommandOnce
<1>1. DurableInv => CommandOnce
  BY DEF DurableInv
<1> QED BY <1>1, DurableHolds, PTL

----------------------------------------------------------------------------
(***************************************************************************)
(* Candidates                                                              *)
(*                                                                         *)
(* Whether an event replays depends on the events of its candidate alone.  *)
(* A command validated its entries on a snapshot that is the whole log     *)
(* when it commits; an import or append validated each contribution and    *)
(* decision against the log under the lock.  A proposal is validated by    *)
(* commands only, so only they may bring one.                              *)
(***************************************************************************)

OnlyCommandsPropose ==
  \A w \in Requests : w.op # "command" => \A e \in Batch(w) : e.kind # "proposed"

About(es, k) == {o \in es : o.kind # "plain" /\ o.cand = k}

\* The condition CandidatesReplay puts on one event.
ReplayAt(es, e) ==
  LET same == {o \in es \ {e} : o.kind # "plain" /\ o.cand = e.cand} IN
  IF e.kind = "proposed"
  THEN \A o \in same : o.kind # "proposed"
  ELSE /\ \E o \in same : o.kind = "proposed" /\ Before(o, e)
       /\ \A o \in same : o.kind = "decided" => Before(e, o) /\ e.kind # "decided"
       /\ e.rev = RevisionBefore(es, e)

LEMMA ReplayEach == ASSUME NEW es PROVE CandidatesReplay(es) <=> \A e \in es : e.kind # "plain" => ReplayAt(es, e)
BY DEF CandidatesReplay, ReplayAt

(* Events of other candidates and plain events do not matter. *)
LEMMA ReplayLocal ==
  ASSUME NEW es, NEW fs, NEW e, About(es, e.cand) = About(fs, e.cand), ReplayAt(es, e)
  PROVE  ReplayAt(fs, e)
<1>1. {o \in es \ {e} : o.kind # "plain" /\ o.cand = e.cand}
        = {o \in fs \ {e} : o.kind # "plain" /\ o.cand = e.cand}
  BY DEF About
<1>2. RevisionBefore(es, e) = RevisionBefore(fs, e)
  <2>1. {s \in es : s.kind = "contributed" /\ s.cand = e.cand /\ Before(s, e)}
          = {s \in fs : s.kind = "contributed" /\ s.cand = e.cand /\ Before(s, e)}
    BY DEF About
  <2> QED BY <2>1 DEF RevisionBefore
<1> QED BY <1>1, <1>2 DEF ReplayAt

(* Plain events can be added to any log. *)
LEMMA ReplayPlain ==
  ASSUME NEW es, NEW new, CandidatesReplay(es), \A e \in new : e.kind = "plain"
  PROVE  CandidatesReplay(es \cup new)
<1>1. ASSUME NEW e \in es \cup new, e.kind # "plain" PROVE ReplayAt(es \cup new, e)
  <2>1. e \in es /\ About(es, e.cand) = About(es \cup new, e.cand)
    BY <1>1 DEF About
  <2>2. ReplayAt(es, e)
    BY <1>1, <2>1, ReplayEach
  <2> QED BY <2>1, <2>2, ReplayLocal
<1> QED BY <1>1, ReplayEach

(* validateCandidateTransition looks at enough of the log. *)
LEMMA ReplayTransition ==
  ASSUME NEW es, NEW e, CandidatesReplay(es), ValidTransition(es, e),
         e.kind \in {"plain", "contributed", "decided"}
  PROVE  CandidatesReplay(es \cup {e})
<1>1. CASE e.kind = "plain"
  BY <1>1, ReplayPlain
<1>2. CASE e.kind # "plain"
  <2> DEFINE about == {o \in es : o.kind # "plain" /\ o.cand = e.cand}
  <2>1. CandidatesReplay(about \cup {e})
    BY <1>2 DEF ValidTransition
  <2>2. ASSUME NEW x \in es \cup {e}, x.kind # "plain" PROVE ReplayAt(es \cup {e}, x)
    <3>1. CASE x.cand = e.cand
      <4>1. x \in about \cup {e}
        BY <2>2, <3>1
      <4>2. ReplayAt(about \cup {e}, x)
        BY <2>1, <2>2, <4>1, ReplayEach
      <4>3. About(about \cup {e}, x.cand) = About(es \cup {e}, x.cand)
        BY <3>1 DEF About
      <4> QED BY <4>2, <4>3, ReplayLocal
    <3>2. CASE x.cand # e.cand
      <4>1. x \in es
        BY <3>2
      <4>2. ReplayAt(es, x)
        BY <2>2, <4>1, ReplayEach
      <4>3. About(es, x.cand) = About(es \cup {e}, x.cand)
        BY <3>2 DEF About
      <4> QED BY <4>2, <4>3, ReplayLocal
    <3> QED BY <3>1, <3>2
  <2> QED BY <2>2, ReplayEach
<1> QED BY <1>1, <1>2

(* A command past its read has the log up to the head it pinned. *)
Loaded(p) ==
  pc[p] \in {"stage", "lock", "check"} /\ work[p].op = "command" =>
    load[p].rows = UpTo(load[p].head) /\ Reached(load[p].head)

(* What it is to write replays on that log. *)
Validated(p) ==
  pc[p] \in {"lock", "check", "insert"} /\ work[p].op = "command" =>
    ((\E e \in staged[p] : e.kind # "plain") => CandidatesReplay(Entries(load[p].rows) \cup staged[p]))

(* Under the lock and past the comparison that log is the whole log. *)
Based(p) == pc[p] = "insert" /\ work[p].op = "command" => load[p].rows = events

(* What other requests have inserted replays already. *)
Inserted(p) == pc[p] = "insert" /\ work[p].op # "command" => CandidatesReplay(Entries(Seen(p)))

CandidateInv ==
  /\ CandidatesConsistent
  /\ \A p \in Processes : Loaded(p) /\ Validated(p) /\ Based(p) /\ Inserted(p)

(* A process touches its own memory only. *)
LEMMA StepsAlone ==
  ASSUME StoreInv, NEW p \in Processes,
         (\E w \in Requests : Submit(p, w)) \/ Step(p) \/ AcquireLock(p) \/ Crash(p)
  PROVE  Alone(p)
<1> USE DEF Alone, StoreInv, TypeOK, store
<1>1. CASE \E w \in Requests : Submit(p, w)
  BY <1>1 DEF Submit
<1>2. CASE LookupFound(p) \/ StageRefused(p) \/ CheckReceipt(p) \/ InsertConflict(p) \/ Reply(p) \/ Crash(p)
  BY <1>2 DEF LookupFound, StageRefused, CheckReceipt, InsertConflict, Reply, Crash, Leave
<1>3. CASE LookupMissing(p) \/ PinHead(p) \/ LoadDone(p) \/ Stage(p) \/ AcquireLock(p) \/ CheckRevision(p)
  BY <1>3 DEF LookupMissing, PinHead, LoadDone, Stage, AcquireLock, CheckRevision
<1>4. CASE LoadPage(p)
  <2>1. PICK new : load' = [load EXCEPT ![p] = new]
    BY <1>4 DEF LoadPage
  <2>2. \A q \in Processes \ {p} : load'[q] = load[q]
    BY <2>1
  <2> QED BY <1>4, <2>2 DEF LoadPage
<1>5. CASE RevisionConflict(p)
  <2>1. CASE attempt[p] < MaxAttempts
    BY <1>5, <2>1 DEF RevisionConflict
  <2>2. CASE ~(attempt[p] < MaxAttempts)
    BY <1>5, <2>2 DEF RevisionConflict, Leave
  <2> QED BY <2>1, <2>2
<1>6. CASE InsertSkip(p) \/ Insert(p) \/ Commit(p)
  BY <1>6 DEF InsertSkip, Insert, Commit
<1> QED BY <1>1, <1>2, <1>3, <1>4, <1>5, <1>6 DEF Step

(* What another process has validated stays valid. *)
LEMMA OtherCandidates ==
  ASSUME StoreInv, StoreInv', Positive, CandidateInv, [Next]_vars,
         NEW q \in Processes,
         /\ pc'[q] = pc[q] /\ work'[q] = work[q] /\ staged'[q] = staged[q]
         /\ load'[q] = load[q] /\ pending'[q] = pending[q],
         pc[q] = "insert" => events' = events
  PROVE  Loaded(q)' /\ Validated(q)' /\ Based(q)' /\ Inserted(q)'
<1>0. Loaded(q) /\ Validated(q) /\ Based(q) /\ Inserted(q)
  BY DEF CandidateInv
<1>1. Loaded(q)'
  <2>1. PICK n \in Nat : n = load[q].head
    BY DEF StoreInv, TypeOK, Load
  <2>2. Reached(n) => UpTo(n)' = UpTo(n) /\ Reached(n)'
    BY ReachedStable
  <2>3. pc[q] \in {"stage", "lock", "check"} /\ work[q].op = "command" =>
          load[q].rows = UpTo(n) /\ Reached(n)
    BY <1>0, <2>1 DEF Loaded
  <2> QED BY <2>1, <2>2, <2>3 DEF Loaded, UpTo, Reached
<1>2. Validated(q)'
  BY <1>0 DEF Validated, Entries
<1>3. Based(q)'
  BY <1>0 DEF Based
<1>4. Inserted(q)'
  BY <1>0 DEF Inserted, Seen, Entries
<1> QED BY <1>1, <1>2, <1>3, <1>4

(* The read, the validation and the comparison of a command. *)
LEMMA ReadCandidates ==
  ASSUME StoreInv, StoreInv', SnapshotInv, DurableInv, CandidateInv, [Next]_vars,
         NEW p \in Processes,
         LoadDone(p) \/ Stage(p) \/ AcquireLock(p) \/ CheckRevision(p)
  PROVE  Loaded(p)' /\ Validated(p)' /\ Based(p)' /\ Inserted(p)'
<1> USE DEF store
<1>0. Loaded(p) /\ Validated(p) /\ CandidatesConsistent
  BY DEF CandidateInv
<1>1. CASE LoadDone(p)
  <2>1. load[p].rows = UpTo(load[p].at) /\ load[p].at <= load[p].head /\ Reached(load[p].head)
    BY <1>1 DEF SnapshotInv, LoadInv, LoadDone
  <2>2. load[p].at = load[p].head
    BY <1>1, <2>1 DEF LoadDone, StoreInv, TypeOK, Load
  <2>3. pc'[p] = "stage" /\ UNCHANGED <<events, load>>
    BY <1>1 DEF LoadDone, StoreInv, TypeOK
  <2> QED BY <2>1, <2>2, <2>3 DEF Loaded, Validated, Based, Inserted, UpTo, Reached
<1>2. CASE Stage(p)
  <2>1. /\ pc[p] = "stage" /\ pc'[p] = "lock" /\ UNCHANGED <<events, load, work>>
        /\ staged'[p] = NotStored(load[p].rows, work[p])
        /\ Stageable(load[p].rows, work[p])
    BY <1>2 DEF Stage, StoreInv, TypeOK
  <2>2. Loaded(p)'
    BY <1>0, <2>1 DEF Loaded, UpTo, Reached
  <2>3. Validated(p)'
    BY <2>1 DEF Validated, Stageable, Entries
  <2> QED BY <2>1, <2>2, <2>3 DEF Based, Inserted
<1>3. CASE AcquireLock(p)
  <2>1. /\ pc[p] = "lock" /\ UNCHANGED <<events, load, work, staged, pending>>
        /\ pc'[p] = IF work[p].op = "command" THEN "check" ELSE "insert"
    BY <1>3 DEF AcquireLock, StoreInv, TypeOK
  <2>2. Loaded(p)' /\ Validated(p)' /\ Based(p)'
    BY <1>0, <2>1 DEF Loaded, Validated, Based, UpTo, Reached, Entries
  <2>3. Seen(p)' = events
    BY <2>1 DEF Seen, StoreInv, Locking
  <2>4. Inserted(p)'
    BY <1>0, <2>3 DEF Inserted, CandidatesConsistent, Entries
  <2> QED BY <2>2, <2>4
<1>4. CASE CheckRevision(p)
  <2>1. /\ pc[p] = "check" /\ UNCHANGED <<events, load, work, staged, pending>>
        /\ pc'[p] = "insert" /\ Head0(events) = load[p].head
    BY <1>4 DEF CheckRevision, RevisionMatches, WorkspaceRevision, StoreInv, TypeOK
  <2>2. work[p].op = "command"
    BY <2>1 DEF DurableInv, Serving, Before_
  <2>3. UpTo(load[p].head) = events
    BY <2>1, HeadType DEF UpTo, StoreInv, TypeOK, Newest
  <2>4. load[p].rows = events
    BY <1>0, <2>1, <2>2, <2>3 DEF Loaded
  <2> QED BY <1>0, <2>1, <2>2, <2>4 DEF Loaded, Validated, Based, Inserted, Entries
<1> QED BY <1>1, <1>2, <1>3, <1>4

(* An insert of an import or append is validated on the log it extends. *)
LEMMA InsertCandidates ==
  ASSUME StoreInv, DurableInv, CandidateInv, OnlyCommandsPropose,
         NEW p \in Processes, InsertSkip(p) \/ Insert(p)
  PROVE  Loaded(p)' /\ Validated(p)' /\ Based(p)' /\ Inserted(p)'
<1> USE DEF store
<1>0. Loaded(p) /\ Validated(p) /\ Based(p) /\ Inserted(p)
  BY DEF CandidateInv
<1>1. pc[p] = "insert" /\ UNCHANGED <<pc, events, load, work, staged>>
  BY DEF InsertSkip, Insert
<1>2. Loaded(p)' /\ Validated(p)' /\ Based(p)'
  BY <1>0, <1>1 DEF Loaded, Validated, Based, Entries
<1>3. Inserted(p)'
  <2>1. CASE InsertSkip(p)
    BY <1>0, <1>1, <2>1 DEF InsertSkip, Inserted, Seen, Entries
  <2>2. CASE Insert(p) /\ work[p].op # "command"
    <3> DEFINE e == Head(rest[p])
    <3>1. /\ e \in staged[p] /\ ValidTransition(Entries(Seen(p)), e)
          /\ pending'[p] = pending[p] \cup {[seq |-> nextSeq, e |-> e, by |-> work[p]]}
      BY <2>2 DEF Insert, Passed, Insertable, StoreInv, TypeOK
    <3>2. work[p] \in Requests /\ staged[p] \subseteq Batch(work[p])
      BY <1>1 DEF DurableInv, Serving, StoreInv, Working
    <3>3. e \in Entry /\ e.kind # "proposed"
      BY <2>2, <3>1, <3>2, BatchType DEF OnlyCommandsPropose
    <3>4. e.kind \in {"plain", "contributed", "decided"}
      BY <3>3 DEF Entry, Kinds
    <3> DEFINE row == [seq |-> nextSeq, e |-> e, by |-> work[p]]
    <3>8. Seen(p)' = Seen(p) \cup {row}
      BY <1>1, <3>1 DEF Seen
    <3>9. Entries(Seen(p) \cup {row}) = Entries(Seen(p)) \cup {row.e}
      BY EntriesAdd
    <3>5. Entries(Seen(p))' = Entries(Seen(p)) \cup {e}
      BY <3>8, <3>9 DEF Entries
    <3>6. CandidatesReplay(Entries(Seen(p)))
      BY <1>0, <1>1, <2>2 DEF Inserted
    <3>7. CandidatesReplay(Entries(Seen(p)) \cup {e})
      BY <3>1, <3>4, <3>6, ReplayTransition
    <3> QED BY <3>5, <3>7 DEF Inserted
  <2>3. CASE work[p].op = "command"
    BY <1>1, <2>3 DEF Inserted
  <2> QED BY <2>1, <2>2, <2>3
<1> QED BY <1>2, <1>3

(* What a commit makes visible replays. *)
LEMMA CommitCandidates ==
  ASSUME StoreInv, DurableInv, CandidateInv, NEW p \in Processes, Commit(p)
  PROVE  CandidatesConsistent'
<1>0. /\ pc[p] = "insert" /\ rest[p] = <<>> /\ events' = events \cup pending[p]
      /\ Validated(p) /\ Based(p) /\ Inserted(p) /\ CandidatesReplay(Entries(events))
  BY DEF Commit, CandidateInv, CandidatesConsistent
<1>1. CASE work[p].op # "command"
  BY <1>0, <1>1 DEF Inserted, Seen, CandidatesConsistent, Entries
<1>2. CASE work[p].op = "command"
  <2>1. Entries(pending[p]) = staged[p]
    <3>1. RestOf(p) = {}
      BY <1>0 DEF RestOf
    <3> QED BY <1>0, <1>2, <3>1 DEF DurableInv, Serving
  <2>2. Entries(events') = Entries(events) \cup staged[p]
    BY <1>0, <2>1 DEF Entries
  <2>3. CandidatesReplay(Entries(events) \cup staged[p])
    <3>1. CASE \E e \in staged[p] : e.kind # "plain"
      BY <1>0, <1>2, <3>1 DEF Validated, Based
    <3>2. CASE \A e \in staged[p] : e.kind = "plain"
      BY <1>0, <3>2, ReplayPlain
    <3> QED BY <3>1, <3>2
  <2> QED BY <2>2, <2>3 DEF CandidatesConsistent, Entries
<1> QED BY <1>1, <1>2

(* Nothing validated, nothing stored. *)
LEMMA CandidateInit == Init => CandidateInv
<1> SUFFICES ASSUME Init PROVE CandidateInv
  OBVIOUS
<1>1. CandidatesConsistent
  BY DEF Init, CandidatesConsistent, CandidatesReplay, Entries
<1>2. \A p \in Processes : Loaded(p) /\ Validated(p) /\ Based(p) /\ Inserted(p)
  BY DEF Init, Loaded, Validated, Based, Inserted
<1> QED BY <1>1, <1>2 DEF CandidateInv

(* Every step keeps the log replayable. *)
LEMMA CandidateStep ==
  ASSUME StoreInv, StoreInv', SnapshotInv, DurableInv, CandidateInv, OnlyCommandsPropose, [Next]_vars
  PROVE  CandidateInv'
<1> DEFINE Ready(q) == Loaded(q)' /\ Validated(q)' /\ Based(q)' /\ Inserted(q)'
<1>0. Positive /\ CandidatesConsistent
  BY DEF SnapshotInv, CandidateInv
<1>1. ASSUME NEW p \in Processes,
             (\E w \in Requests : Submit(p, w)) \/ Step(p) \/ AcquireLock(p) \/ Crash(p)
      PROVE  CandidateInv'
  <2>1. Alone(p)
    BY <1>1, StepsAlone
  <2>2. Commit(p) \/ events' = events
    BY <1>1 DEF Step, store, Submit, AcquireLock, Crash, LookupFound, LookupMissing, PinHead,
       LoadPage, LoadDone, Stage, StageRefused, CheckReceipt, CheckRevision, RevisionConflict,
       InsertSkip, Insert, InsertConflict, Reply
  <2>3. ASSUME NEW q \in Processes \ {p} PROVE Ready(q)
    <3>1. pc[q] = "insert" => events' = events
      BY <2>2 DEF Commit, StoreInv, Locking
    <3> QED BY <1>0, <2>1, <3>1, OtherCandidates DEF Alone
  <2>4. Ready(p)
    <3>1. CASE LoadDone(p) \/ Stage(p) \/ AcquireLock(p) \/ CheckRevision(p)
      BY <3>1, ReadCandidates
    <3>2. CASE InsertSkip(p) \/ Insert(p)
      BY <3>2, InsertCandidates
    <3>3. CASE pc'[p] \in {"idle", "lookup", "pin", "load", "reply"}
      BY <3>3 DEF Loaded, Validated, Based, Inserted
    <3>4. CASE pc'[p] = "lock" /\ work'[p].op # "command"
      BY <3>4 DEF Loaded, Validated, Based, Inserted
    <3>5. ASSUME NEW w \in Requests, Submit(p, w)
          PROVE  \/ pc'[p] \in {"idle", "lookup", "pin", "load", "reply"}
                 \/ pc'[p] = "lock" /\ work'[p].op # "command"
      BY <3>5 DEF Submit, StoreInv, TypeOK
    <3>6. ASSUME Crash(p) \/ LookupFound(p) \/ StageRefused(p) \/ CheckReceipt(p)
                 \/ InsertConflict(p) \/ Reply(p)
          PROVE  pc'[p] = "idle"
      BY <3>6 DEF Crash, LookupFound, StageRefused, CheckReceipt, InsertConflict, Reply, Leave,
         StoreInv, TypeOK
    <3>7. ASSUME LookupMissing(p) \/ PinHead(p) \/ LoadPage(p) \/ Commit(p) \/ RevisionConflict(p)
          PROVE  pc'[p] \in {"idle", "lookup", "pin", "load", "reply"}
      <4>1. CASE LookupMissing(p) \/ PinHead(p) \/ LoadPage(p) \/ Commit(p)
        BY <4>1 DEF LookupMissing, PinHead, LoadPage, Commit, StoreInv, TypeOK
      <4>2. CASE RevisionConflict(p) /\ attempt[p] < MaxAttempts
        BY <4>2 DEF RevisionConflict, StoreInv, TypeOK
      <4>3. CASE RevisionConflict(p) /\ ~(attempt[p] < MaxAttempts)
        BY <4>3 DEF RevisionConflict, Leave, StoreInv, TypeOK
      <4> QED BY <3>7, <4>1, <4>2, <4>3
    <3> QED BY <1>1, <3>1, <3>2, <3>3, <3>4, <3>5, <3>6, <3>7 DEF Step
  <2>5. CandidatesConsistent'
    <3>1. CASE Commit(p)
      BY <3>1, CommitCandidates
    <3>2. CASE events' = events
      BY <1>0, <3>2 DEF CandidatesConsistent, Entries
    <3> QED BY <2>2, <3>1, <3>2
  <2> QED BY <2>3, <2>4, <2>5 DEF CandidateInv
<1>2. ASSUME ForeignInsert \/ UNCHANGED vars PROVE CandidateInv'
  <2>1. events' = events /\ UNCHANGED memory
    BY <1>2 DEF ForeignInsert, vars, store
  <2>2. ASSUME NEW q \in Processes PROVE Ready(q)
    BY <1>0, <2>1, OtherCandidates DEF memory
  <2>3. CandidatesConsistent'
    BY <1>0, <2>1 DEF CandidatesConsistent, Entries
  <2> QED BY <2>2, <2>3 DEF CandidateInv
<1> QED BY <1>1, <1>2 DEF Next

(***************************************************************************)
(* As long as only commands propose, the candidate projection can be       *)
(* rebuilt from the log at every moment: the validation of a command on    *)
(* its snapshot and that of an insert under the lock                       *)
(* (validateCandidateTransition) together leave no interleaving of the two *)
(* that a rebuild would refuse.                                            *)
(***************************************************************************)
THEOREM CandidatesConsistentHolds ==
  ASSUME OnlyCommandsPropose
  PROVE  Spec => []CandidatesConsistent
<1> DEFINE All == StoreInv /\ SnapshotInv /\ DurableInv /\ CandidateInv
<1>1. Init => All
  BY InitInv, SnapshotInit, DurableInit, CandidateInit
<1>2. All /\ [Next]_vars => All'
  BY NextInv, SnapshotStep, DurableStep, CandidateStep
<1>3. All => CandidatesConsistent
  BY DEF CandidateInv
<1> QED BY <1>1, <1>2, <1>3, PTL DEF Spec
============================================================================
