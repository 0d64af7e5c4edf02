--------------------------- MODULE DeliveryProofs ---------------------------
(***************************************************************************)
(* Proofs about the two components that hold connections and requests: the *)
(* event streams of the API (EventStream) and the telemetry outboxes       *)
(* (TelemetryOutbox).  Those of the durable consumer are in EventConsumer. *)
(***************************************************************************)
EXTENDS EventStream, TelemetryOutbox, FiniteSetTheorems, TLAPS

-----------------------------------------------------------------------------
(***************************************************************************)
(* The slots of the event streams, proved for any number of connections,    *)
(* principals, tenants and events, and for every limit.                     *)
(*                                                                          *)
(* Every step leaves the status of the streams alone, or moves one of them  *)
(* into "open" and counts it, or out of "open" and discounts it, or moves   *)
(* it between the other states.  The limits follow because a slot is taken  *)
(* only while the counters are below them.                                  *)
(***************************************************************************)

States == {"none", "requested", "open", "closed"}

Inv ==
    /\ status \in [Streams -> States]
    /\ perPrincipal \in [Principals -> Int] /\ perTenant \in [Tenants -> Int]
    /\ SlotsExact
    /\ WithinLimits

\* The four ways in which a step treats the status and the counters.
Untouched == UNCHANGED <<status, counters>>
Moved(s) ==
    /\ status[s] # "open"
    /\ \E to \in States \ {"open"} : status' = [status EXCEPT ![s] = to]
    /\ UNCHANGED counters
Taken(s) ==
    /\ status[s] # "open" /\ HasRoom(s)
    /\ status' = [status EXCEPT ![s] = "open"]
    /\ total' = total + 1
    /\ perPrincipal' = [perPrincipal EXCEPT ![OwnerOf[s]] = @ + 1]
    /\ perTenant' = [perTenant EXCEPT ![TenantOf[s]] = @ + 1]
Returned(s) ==
    /\ status[s] = "open"
    /\ status' = [status EXCEPT ![s] = "closed"]
    /\ total' = total - 1
    /\ perPrincipal' = [perPrincipal EXCEPT ![OwnerOf[s]] = @ - 1]
    /\ perTenant' = [perTenant EXCEPT ![TenantOf[s]] = @ - 1]

----------------------------------------------------------------------------
(* Sets of open streams are finite, and one stream changes their size by 1. *)

LEMMA OpenFinite ==
    /\ IsFiniteSet(OpenStreams) /\ Cardinality(OpenStreams) \in Nat
    /\ \A p \in Principals : IsFiniteSet(OpenByOwner(p)) /\ Cardinality(OpenByOwner(p)) \in Nat
    /\ \A t \in Tenants : IsFiniteSet(OpenByTenant(t)) /\ Cardinality(OpenByTenant(t)) \in Nat
  <1>1. \A S \in SUBSET Streams : IsFiniteSet(S) /\ Cardinality(S) \in Nat
    BY StreamAssumption, FS_Subset, FS_CardinalityType
  <1>2. OpenStreams \in SUBSET Streams
    BY DEF OpenStreams
  <1>3. \A p \in Principals : OpenByOwner(p) \in SUBSET Streams
    BY DEF OpenByOwner
  <1>4. \A t \in Tenants : OpenByTenant(t) \in SUBSET Streams
    BY DEF OpenByTenant
  <1> QED
    BY <1>1, <1>2, <1>3, <1>4

LEMMA AddOne ==
    ASSUME NEW S, NEW x, IsFiniteSet(S), x \notin S
    PROVE  Cardinality(S \cup {x}) = Cardinality(S) + 1
  BY FS_AddElement

LEMMA RemoveOne ==
    ASSUME NEW S, NEW x, IsFiniteSet(S), x \in S
    PROVE  Cardinality(S \ {x}) = Cardinality(S) - 1
  BY FS_RemoveElement

----------------------------------------------------------------------------
LEMMA TakenKeeps ==
    ASSUME NEW s \in Streams, Inv, Taken(s)
    PROVE  Inv'
  <1> USE DEF Inv, Taken, States
  <1>1. OwnerOf[s] \in Principals /\ TenantOf[s] \in Tenants
    BY StreamAssumption
  <1>2. status' \in [Streams -> States] /\ perPrincipal' \in [Principals -> Int] /\ perTenant' \in [Tenants -> Int]
    BY <1>1
  <1>3. OpenStreams' = OpenStreams \cup {s} /\ s \notin OpenStreams
    BY DEF OpenStreams
  <1>4. Cardinality(OpenStreams') = Cardinality(OpenStreams) + 1
    BY <1>3, OpenFinite, AddOne
  <1>5. ASSUME NEW p \in Principals
        PROVE  /\ perPrincipal'[p] = Cardinality(OpenByOwner(p)')
               /\ Cardinality(OpenByOwner(p)') <= MaxPerPrincipal
    <2>1. CASE p = OwnerOf[s]
      <3>1. OpenByOwner(p)' = OpenByOwner(p) \cup {s} /\ s \notin OpenByOwner(p)
        BY <2>1 DEF OpenByOwner
      <3>2. Cardinality(OpenByOwner(p)') = Cardinality(OpenByOwner(p)) + 1
        BY <3>1, OpenFinite, AddOne
      <3>3. perPrincipal[p] = Cardinality(OpenByOwner(p)) /\ perPrincipal[p] < MaxPerPrincipal
        BY <2>1 DEF SlotsExact, HasRoom
      <3>4. perPrincipal'[p] = perPrincipal[p] + 1
        BY <2>1
      <3> QED
        BY <3>2, <3>3, <3>4, OpenFinite, StreamAssumption
    <2>2. CASE p # OwnerOf[s]
      <3>1. OpenByOwner(p)' = OpenByOwner(p)
        BY <2>2 DEF OpenByOwner
      <3> QED
        BY <2>2, <3>1 DEF SlotsExact, WithinLimits
    <2> QED
      BY <2>1, <2>2
  <1>6. ASSUME NEW t \in Tenants
        PROVE  /\ perTenant'[t] = Cardinality(OpenByTenant(t)')
               /\ Cardinality(OpenByTenant(t)') <= MaxPerTenant
    <2>1. CASE t = TenantOf[s]
      <3>1. OpenByTenant(t)' = OpenByTenant(t) \cup {s} /\ s \notin OpenByTenant(t)
        BY <2>1 DEF OpenByTenant
      <3>2. Cardinality(OpenByTenant(t)') = Cardinality(OpenByTenant(t)) + 1
        BY <3>1, OpenFinite, AddOne
      <3>3. perTenant[t] = Cardinality(OpenByTenant(t)) /\ perTenant[t] < MaxPerTenant
        BY <2>1 DEF SlotsExact, HasRoom
      <3>4. perTenant'[t] = perTenant[t] + 1
        BY <2>1
      <3> QED
        BY <3>2, <3>3, <3>4, OpenFinite, StreamAssumption
    <2>2. CASE t # TenantOf[s]
      <3>1. OpenByTenant(t)' = OpenByTenant(t)
        BY <2>2 DEF OpenByTenant
      <3> QED
        BY <2>2, <3>1 DEF SlotsExact, WithinLimits
    <2> QED
      BY <2>1, <2>2
  <1>7. total' = Cardinality(OpenStreams') /\ Cardinality(OpenStreams') <= MaxTotal
    BY <1>4, OpenFinite, StreamAssumption DEF SlotsExact, HasRoom
  <1> QED
    BY <1>2, <1>5, <1>6, <1>7 DEF SlotsExact, WithinLimits

LEMMA ReturnedKeeps ==
    ASSUME NEW s \in Streams, Inv, Returned(s)
    PROVE  Inv'
  <1> USE DEF Inv, Returned, States
  <1>1. OwnerOf[s] \in Principals /\ TenantOf[s] \in Tenants
    BY StreamAssumption
  <1>2. status' \in [Streams -> States] /\ perPrincipal' \in [Principals -> Int] /\ perTenant' \in [Tenants -> Int]
    BY <1>1
  <1>3. OpenStreams' = OpenStreams \ {s} /\ s \in OpenStreams
    BY DEF OpenStreams
  <1>4. Cardinality(OpenStreams') = Cardinality(OpenStreams) - 1
    BY <1>3, OpenFinite, RemoveOne
  <1>5. ASSUME NEW p \in Principals
        PROVE  /\ perPrincipal'[p] = Cardinality(OpenByOwner(p)')
               /\ Cardinality(OpenByOwner(p)') <= MaxPerPrincipal
    <2>1. CASE p = OwnerOf[s]
      <3>1. OpenByOwner(p)' = OpenByOwner(p) \ {s} /\ s \in OpenByOwner(p)
        BY <2>1 DEF OpenByOwner
      <3>2. Cardinality(OpenByOwner(p)') = Cardinality(OpenByOwner(p)) - 1
        BY <3>1, OpenFinite, RemoveOne
      <3>3. perPrincipal[p] = Cardinality(OpenByOwner(p)) /\ Cardinality(OpenByOwner(p)) <= MaxPerPrincipal
        BY DEF SlotsExact, WithinLimits
      <3>4. perPrincipal'[p] = perPrincipal[p] - 1
        BY <2>1
      <3> QED
        BY <3>2, <3>3, <3>4, OpenFinite, StreamAssumption
    <2>2. CASE p # OwnerOf[s]
      <3>1. OpenByOwner(p)' = OpenByOwner(p)
        BY <2>2 DEF OpenByOwner
      <3> QED
        BY <2>2, <3>1 DEF SlotsExact, WithinLimits
    <2> QED
      BY <2>1, <2>2
  <1>6. ASSUME NEW t \in Tenants
        PROVE  /\ perTenant'[t] = Cardinality(OpenByTenant(t)')
               /\ Cardinality(OpenByTenant(t)') <= MaxPerTenant
    <2>1. CASE t = TenantOf[s]
      <3>1. OpenByTenant(t)' = OpenByTenant(t) \ {s} /\ s \in OpenByTenant(t)
        BY <2>1 DEF OpenByTenant
      <3>2. Cardinality(OpenByTenant(t)') = Cardinality(OpenByTenant(t)) - 1
        BY <3>1, OpenFinite, RemoveOne
      <3>3. perTenant[t] = Cardinality(OpenByTenant(t)) /\ Cardinality(OpenByTenant(t)) <= MaxPerTenant
        BY DEF SlotsExact, WithinLimits
      <3>4. perTenant'[t] = perTenant[t] - 1
        BY <2>1
      <3> QED
        BY <3>2, <3>3, <3>4, OpenFinite, StreamAssumption
    <2>2. CASE t # TenantOf[s]
      <3>1. OpenByTenant(t)' = OpenByTenant(t)
        BY <2>2 DEF OpenByTenant
      <3> QED
        BY <2>2, <3>1 DEF SlotsExact, WithinLimits
    <2> QED
      BY <2>1, <2>2
  <1>7. total' = Cardinality(OpenStreams') /\ Cardinality(OpenStreams') <= MaxTotal
    BY <1>4, OpenFinite, StreamAssumption DEF SlotsExact, WithinLimits
  <1> QED
    BY <1>2, <1>5, <1>6, <1>7 DEF SlotsExact, WithinLimits

LEMMA MovedKeeps ==
    ASSUME NEW s \in Streams, Inv, Moved(s)
    PROVE  Inv'
  <1> USE DEF Inv, Moved, States
  <1>1. status' \in [Streams -> States]
    OBVIOUS
  <1>2. OpenStreams' = OpenStreams
    BY DEF OpenStreams
  <1>3. \A p \in Principals : OpenByOwner(p)' = OpenByOwner(p)
    BY DEF OpenByOwner
  <1>4. \A t \in Tenants : OpenByTenant(t)' = OpenByTenant(t)
    BY DEF OpenByTenant
  <1> QED
    BY <1>1, <1>2, <1>3, <1>4 DEF SlotsExact, WithinLimits, counters

LEMMA UntouchedKeeps ==
    ASSUME Inv, Untouched
    PROVE  Inv'
  BY DEF Inv, Untouched, counters, SlotsExact, WithinLimits, OpenStreams, OpenByOwner, OpenByTenant

LEMMA CloseReturns ==
    ASSUME NEW s \in Streams, Close(s)
    PROVE  Returned(s) \/ Untouched
  BY DEF Close, Returned, Untouched

\* Every step is one of the four.
LEMMA StepKinds ==
    ASSUME Inv, [Next]_vars
    PROVE  Untouched \/ \E s \in Streams : Moved(s) \/ Taken(s) \/ Returned(s)
  <1>1. CASE UNCHANGED vars
    BY <1>1 DEF vars, Untouched
  <1>2. ASSUME NEW s \in Streams, NEW after \in {0, head}, Request(s, after)
        PROVE  Moved(s)
    BY <1>2 DEF Request, Moved, States
  <1>3. ASSUME NEW s \in Streams, Server(s)
        PROVE  Untouched \/ Moved(s) \/ Taken(s) \/ Returned(s)
    <2>1. CASE Open(s)
      BY <2>1 DEF Open, Taken
    <2>2. CASE Refuse(s)
      BY <2>2 DEF Refuse, Moved, States
    <2>3. CASE ResponseClosed(s)
      BY <2>3, CloseReturns DEF ResponseClosed
    <2>4. CASE Rotate(s)
      BY <2>4, CloseReturns DEF Rotate
    <2>5. ASSUME Fail(s) PROVE Returned(s) \/ Untouched
      BY <2>5, CloseReturns DEF Fail
    <2>6. CASE StartPoll(s)
      BY <2>5, <2>6 DEF StartPoll, Untouched
    <2>7. CASE ReadPage(s)
      BY <2>7 DEF ReadPage, Untouched
    <2>8. CASE PollFails(s)
      BY <2>5, <2>8 DEF PollFails
    <2>9. CASE Authorize(s)
      BY <2>5, <2>9 DEF Authorize, Untouched
    <2>10. CASE Emit(s)
      BY <2>10 DEF Emit, Untouched
    <2>11. CASE SlowConsumer(s)
      BY <2>5, <2>11 DEF SlowConsumer
    <2>12. CASE EndPage(s)
      BY <2>12 DEF EndPage, Untouched
    <2> QED
      BY <1>3, <2>1, <2>2, <2>3, <2>4, <2>6, <2>7, <2>8, <2>9, <2>10, <2>11, <2>12 DEF Server
  <1>4. ASSUME NEW s \in Streams, ClientGone(s) \/ Drained(s)
        PROVE  Untouched
    BY <1>4 DEF ClientGone, Drained, Untouched
  <1>5. CASE Append
    BY <1>5 DEF Append, Untouched
  <1>6. ASSUME NEW p \in Principals, NEW a \in {"none", "plain", "full"}, ChangeAccess(p, a)
        PROVE  Untouched
    BY <1>6 DEF ChangeAccess, Untouched
  <1> QED
    BY <1>1, <1>2, <1>3, <1>4, <1>5, <1>6 DEF Next

LEMMA InitInv == Init => Inv
  <1> SUFFICES ASSUME Init PROVE Inv
    OBVIOUS
  <1>1. OpenStreams = {} /\ (\A p \in Principals : OpenByOwner(p) = {}) /\ (\A t \in Tenants : OpenByTenant(t) = {})
    BY DEF Init, OpenStreams, OpenByOwner, OpenByTenant
  <1>2. Cardinality({}) = 0
    BY FS_EmptySet
  <1>3. /\ status \in [Streams -> States]
        /\ perPrincipal \in [Principals -> Int] /\ perTenant \in [Tenants -> Int]
    BY DEF Init, States
  <1>4. SlotsExact
    BY <1>1, <1>2 DEF Init, SlotsExact
  <1>5. WithinLimits
    BY <1>1, <1>2, StreamAssumption DEF WithinLimits
  <1> QED
    BY <1>3, <1>4, <1>5 DEF Inv

LEMMA Inductive == Inv /\ [Next]_vars => Inv'
  BY StepKinds, TakenKeeps, ReturnedKeeps, MovedKeeps, UntouchedKeeps

\* The counters are the open connections of the process, of each principal and of each
\* tenant in every reachable state, however connections end (streamCounts, close).
THEOREM StreamSlotsExact == Spec => []SlotsExact
  <1>1. Inv => SlotsExact
    BY DEF Inv
  <1> QED
    BY InitInv, Inductive, <1>1, PTL DEF Spec

\* No limit is ever exceeded (startEventStream).
THEOREM StreamWithinLimits == Spec => []WithinLimits
  <1>1. Inv => WithinLimits
    BY DEF Inv
  <1> QED
    BY InitInv, Inductive, <1>1, PTL DEF Spec

-----------------------------------------------------------------------------
(***************************************************************************)
(* What the streams send, proved for any number of events and of changes of *)
(* access.                                                                  *)
(*                                                                          *)
(* An event in "emit" was readable when its poll asked; if it is not any    *)
(* more, access has changed since, and nothing was sent after the change.   *)
(* While a page is being written, what plain access reads of the rows the   *)
(* page stands for was sent or is still in the queue.                       *)
(***************************************************************************)

LateInv(s) ==
    /\ late[s] <= 1
    /\ phase[s] = "emit" /\ ~Reads(access[OwnerOf[s]], First(queue[s])) => late[s] = 0

Covered(s, n, S) == \A e \in start[s] + 1 .. n : e \notin Private => e \in S

PageInv(s) ==
    /\ status[s] \in {"none", "requested"} => phase[s] = "idle"
    /\ status[s] = "requested" => cursor[s] = start[s]
    /\ phase[s] = "page" => held[s] # "none"
    /\ status[s] = "open" /\ client[s] =>
         /\ Covered(s, cursor[s], sent[s])
         /\ phase[s] \in {"entry", "emit", "drain"} => Covered(s, through[s], sent[s] \cup queue[s])

SendTypes ==
    /\ status \in [Streams -> States]
    /\ client \in [Streams -> BOOLEAN]
    /\ phase \in [Streams -> {"idle", "page", "entry", "emit", "drain"}]
    /\ held \in [Streams -> {"none", "plain", "full"}]
    /\ cursor \in [Streams -> Nat] /\ start \in [Streams -> Nat] /\ through \in [Streams -> Nat]
    /\ queue \in [Streams -> SUBSET Nat] /\ sent = [s \in Streams |-> sent[s]]
    /\ late \in [Streams -> Nat]
    /\ head \in Nat
    /\ access \in [Principals -> {"none", "plain", "full"}]

SendInv == SendTypes /\ \A s \in Streams : LateInv(s) /\ PageInv(s)

\* What one connection and its poll loop know.
Local(s) == <<status[s], client[s], phase[s], held[s], cursor[s], start[s], queue[s], through[s], sent[s], late[s]>>
Others(s) == access' = access /\ \A t \in Streams \ {s} : Local(t)' = Local(t)

\* A set of consecutive rows has a last one.
LEMMA LastRow ==
    ASSUME NEW from \in Nat, NEW length \in Nat, NEW size \in Nat,
           NEW rows, rows = {e \in 1 .. length : from < e /\ e <= from + size}, rows # {}
    PROVE  Last(rows) \in rows /\ \A e \in rows : e <= Last(rows)
  <1> DEFINE top == IF length <= from + size THEN length ELSE from + size
  <1>1. top \in rows /\ \A e \in rows : e <= top
    OBVIOUS
  <1> QED
    BY <1>1 DEF Last

LEMMA SentShape ==
    ASSUME SendTypes, NEW s \in Streams, NEW S, sent' = [sent EXCEPT ![s] = S]
    PROVE  sent' = [t \in Streams |-> sent'[t]]
  <1>1. DOMAIN sent = Streams
    BY DEF SendTypes
  <1>2. sent' = [t \in Streams |-> IF t = s THEN S ELSE sent[t]]
    BY <1>1
  <1> QED
    BY <1>2

LEMMA OthersKeep ==
    ASSUME NEW s \in Streams, SendInv, Others(s), NEW t \in Streams \ {s}
    PROVE  LateInv(t)' /\ PageInv(t)'
  <1>1. LateInv(t) /\ PageInv(t)
    BY DEF SendInv
  <1>2. Local(t)' = Local(t) /\ access' = access
    BY DEF Others
  <1> QED
    BY <1>1, <1>2 DEF LateInv, PageInv, Covered, Local

\* Closing needs no care: nothing is promised of a stream that is not open.
LEMMA FailSends ==
    ASSUME NEW s \in Streams, SendInv, Fail(s), phase[s] # "idle" \/ status[s] = "open"
    PROVE  SendTypes' /\ Others(s) /\ LateInv(s)' /\ PageInv(s)'
  <1> USE DEF SendInv, States
  <1>1. status'[s] = "closed" /\ phase'[s] = "idle" /\ UNCHANGED <<client, held, cursor, start, queue, through, sent, late, access>>
    BY DEF Fail, Close, SendTypes, reading, world
  <1>2. Others(s)
    BY <1>1 DEF Fail, Close, SendTypes, Others, Local
  <1>3. SendTypes'
    BY <1>1, StreamAssumption DEF Fail, Close, SendTypes, reading, world, counters
  <1>4. LateInv(s)'
    BY <1>1 DEF LateInv
  <1>5. PageInv(s)'
    BY <1>1 DEF PageInv
  <1> QED
    BY <1>2, <1>3, <1>4, <1>5

LEMMA ConnectionSends ==
    ASSUME NEW s \in Streams, SendInv,
           \/ \E after \in {0, head} : Request(s, after)
           \/ Open(s) \/ Refuse(s) \/ ResponseClosed(s) \/ Rotate(s) \/ ClientGone(s)
    PROVE  SendTypes' /\ Others(s) /\ LateInv(s)' /\ PageInv(s)'
  <1> USE DEF SendInv, States
  <1>1. CASE \E after \in {0, head} : Request(s, after)
    <2>1. PICK after \in {0, head} : Request(s, after)
      BY <1>1
    <2>2. SendTypes'
      <3>1. sent' = [t \in Streams |-> sent'[t]]
        BY <2>1, SentShape DEF Request
      <3> QED
        BY <2>1, <3>1 DEF Request, SendTypes, world
    <2>3. Others(s)
      BY <2>1 DEF Request, SendTypes, Others, Local, world
    <2>4. /\ status'[s] = "requested" /\ phase'[s] = "idle" /\ late'[s] = 0
          /\ cursor'[s] = after /\ start'[s] = after
      BY <2>1 DEF Request, SendTypes
    <2> QED
      BY <2>2, <2>3, <2>4 DEF LateInv, PageInv
  <1>2. CASE Open(s)
    <2>1. /\ status[s] = "requested" /\ status' = [status EXCEPT ![s] = "open"]
          /\ UNCHANGED <<client, phase, held, cursor, start, queue, through, sent, late, head, access, changes>>
      BY <1>2 DEF Open, reading, world, SendTypes
    <2>2. SendTypes'
      BY <1>2, <2>1, StreamAssumption DEF Open, SendTypes
    <2>3. Others(s)
      BY <2>1 DEF SendTypes, Others, Local
    <2>4. status'[s] = "open" /\ phase[s] = "idle" /\ cursor[s] = start[s]
      BY <2>1 DEF PageInv, SendTypes
    <2>5. PageInv(s)'
      BY <2>1, <2>4 DEF PageInv, Covered, SendTypes
    <2>6. LateInv(s)'
      BY <2>1 DEF LateInv
    <2> QED
      BY <2>2, <2>3, <2>5, <2>6
  <1>3. CASE Refuse(s) \/ ResponseClosed(s) \/ Rotate(s)
    <2>1. /\ status' = [status EXCEPT ![s] = "closed"]
          /\ UNCHANGED <<client, phase, held, cursor, start, queue, through, sent, late, head, access, changes>>
      BY <1>3 DEF Refuse, ResponseClosed, Rotate, Close, reading, world, SendTypes
    <2>2. SendTypes'
      BY <1>3, <2>1, StreamAssumption DEF Refuse, ResponseClosed, Rotate, Close, counters, SendTypes
    <2>3. Others(s)
      BY <2>1 DEF SendTypes, Others, Local
    <2>4. LateInv(s)' /\ PageInv(s)'
      BY <2>1 DEF LateInv, PageInv, SendTypes
    <2> QED
      BY <2>2, <2>3, <2>4
  <1>4. CASE ClientGone(s)
    <2>1. SendTypes'
      BY <1>4 DEF ClientGone, SendTypes, counters, reading, world
    <2>2. Others(s)
      BY <1>4 DEF ClientGone, SendTypes, Others, Local, reading, world
    <2>3. LateInv(s)' /\ PageInv(s)'
      BY <1>4 DEF ClientGone, LateInv, PageInv, SendTypes, reading, world
    <2> QED
      BY <2>1, <2>2, <2>3
  <1> QED
    BY <1>1, <1>2, <1>3, <1>4

LEMMA StartPollSends ==
    ASSUME NEW s \in Streams, SendInv, StartPoll(s)
    PROVE  SendTypes' /\ Others(s) /\ LateInv(s)' /\ PageInv(s)'
  <1> USE DEF SendInv, States
  <1>1. CASE Fail(s)
    BY <1>1, FailSends DEF StartPoll
  <1>2. CASE ~Fail(s)
    <2>1. access[OwnerOf[s]] \in {"plain", "full"}
      BY <1>2, StreamAssumption DEF StartPoll, SendTypes
    <2>2. SendTypes'
      BY <1>2, <2>1 DEF StartPoll, SendTypes, counters, world
    <2>3. Others(s)
      BY <1>2 DEF StartPoll, SendTypes, Others, Local, world
    <2>4. /\ status[s] = "open" /\ phase'[s] = "page" /\ held'[s] # "none"
          /\ UNCHANGED <<status, client, cursor, start, queue, through, sent, late, access>>
      BY <1>2, <2>1 DEF StartPoll, SendTypes, world
    <2> QED
      BY <2>2, <2>3, <2>4 DEF LateInv, PageInv, Covered
  <1> QED
    BY <1>1, <1>2

\* The page's queue is what plain access reads, at least, of the rows it stands for.
LEMMA ReadPageSends ==
    ASSUME NEW s \in Streams, SendInv, ReadPage(s)
    PROVE  SendTypes' /\ Others(s) /\ LateInv(s)' /\ PageInv(s)'
  <1> USE DEF SendInv, States
  <1> DEFINE rows == {e \in 1 .. head : cursor[s] < e /\ e <= cursor[s] + PageLimit}
  <1>1. /\ phase[s] = "page"
        /\ queue' = [queue EXCEPT ![s] = {e \in rows : Reads(held[s], e)}]
        /\ through' = [through EXCEPT ![s] = IF rows = {} THEN cursor[s] ELSE Last(rows)]
        /\ phase' = [phase EXCEPT ![s] = "entry"]
        /\ UNCHANGED <<status, counters, client, armed, held, cursor, start, sent, late, world>>
    BY DEF ReadPage
  <1>2. cursor[s] \in Nat /\ head \in Nat /\ PageLimit \in Nat
    BY StreamAssumption DEF SendTypes
  <1>3. rows # {} => Last(rows) \in rows /\ \A e \in rows : e <= Last(rows)
    BY <1>2, LastRow
  <1>4. rows \subseteq Nat
    BY <1>2
  <1>5. SendTypes'
    BY <1>1, <1>2, <1>3, <1>4 DEF SendTypes, counters, world
  <1>6. Others(s)
    BY <1>1 DEF SendTypes, Others, Local, world
  <1>7. queue'[s] = {e \in rows : Reads(held[s], e)} /\ phase'[s] = "entry"
        /\ through'[s] = IF rows = {} THEN cursor[s] ELSE Last(rows)
    BY <1>1 DEF SendTypes
  <1>8. held[s] \in {"plain", "full"}
    BY <1>1 DEF PageInv, SendTypes
  <1>9. ASSUME status[s] = "open", client[s], NEW e \in start[s] + 1 .. through'[s], e \notin Private
        PROVE  e \in sent[s] \cup queue'[s]
    <2>1. start[s] \in Nat /\ through'[s] \in Nat
      BY <1>2, <1>3, <1>4, <1>7 DEF SendTypes
    <2>2. CASE e <= cursor[s]
      BY <2>1, <2>2, <1>2, <1>9 DEF PageInv, Covered
    <2>3. CASE ~(e <= cursor[s])
      <3>1. rows # {} /\ e <= Last(rows) /\ Last(rows) \in rows
        BY <2>1, <2>3, <1>2, <1>3, <1>7
      <3>2. e \in rows
        BY <2>1, <2>3, <3>1, <1>2
      <3>3. Reads(held[s], e)
        BY <1>8, <1>9 DEF Reads
      <3> QED
        BY <3>2, <3>3, <1>7
    <2> QED
      BY <2>2, <2>3
  <1>10. PageInv(s)'
    BY <1>1, <1>7, <1>9 DEF PageInv, Covered, world
  <1>11. LateInv(s)'
    BY <1>1, <1>7 DEF LateInv
  <1> QED
    BY <1>5, <1>6, <1>10, <1>11

\* Only an event that plain access does not read is skipped.
LEMMA AuthorizeSends ==
    ASSUME NEW s \in Streams, SendInv, Authorize(s)
    PROVE  SendTypes' /\ Others(s) /\ LateInv(s)' /\ PageInv(s)'
  <1> USE DEF SendInv, States
  <1>1. CASE Fail(s)
    BY <1>1, FailSends DEF Authorize
  <1>2. CASE Reads(access[OwnerOf[s]], First(queue[s])) /\ phase' = [phase EXCEPT ![s] = "emit"]
             /\ UNCHANGED <<status, counters, client, armed, reading, late, world>>
    <2>1. SendTypes' /\ phase'[s] = "emit"
      BY <1>2 DEF SendTypes, counters, reading, world
    <2>2. Others(s)
      BY <1>2 DEF SendTypes, Others, Local, reading, world
    <2>3. PageInv(s)'
      BY <1>2, <2>1 DEF Authorize, PageInv, Covered, reading, world
    <2>4. LateInv(s)'
      BY <1>2 DEF LateInv, reading, world
    <2> QED
      BY <2>1, <2>2, <2>3, <2>4
  <1>3. CASE /\ First(queue[s]) \in Private /\ queue' = [queue EXCEPT ![s] = @ \ {First(@)}]
             /\ UNCHANGED <<status, counters, client, armed, phase, held, cursor, start, through, sent, late, world>>
    <2>1. SendTypes' /\ queue'[s] = queue[s] \ {First(queue[s])}
      BY <1>3 DEF SendTypes, counters, world
    <2>2. Others(s)
      BY <1>3 DEF SendTypes, Others, Local, world
    <2>3. PageInv(s)'
      BY <1>3, <2>1 DEF PageInv, Covered, world
    <2>4. LateInv(s)'
      BY <1>3 DEF Authorize, LateInv, world
    <2> QED
      BY <2>1, <2>2, <2>3, <2>4
  <1> QED
    BY <1>1, <1>2, <1>3 DEF Authorize

\* The first event that leaves without access is the last.
LEMMA EmitSends ==
    ASSUME NEW s \in Streams, SendInv, Emit(s)
    PROVE  SendTypes' /\ Others(s) /\ LateInv(s)' /\ PageInv(s)'
  <1> USE DEF SendInv, States
  <1> DEFINE e == First(queue[s])
  <1>1. /\ phase[s] = "emit" /\ phase'[s] \in {"entry", "drain"}
        /\ \E next \in {"entry", "drain"} : phase' = [phase EXCEPT ![s] = next]
        /\ queue' = [queue EXCEPT ![s] = queue[s] \ {e}] /\ queue'[s] = queue[s] \ {e}
        /\ UNCHANGED <<status, counters, client, armed, held, cursor, start, through, world>>
    BY DEF Emit, SendTypes
  <1>2. CASE status[s] = "open" /\ client[s]
    <2>1. /\ sent' = [sent EXCEPT ![s] = @ \cup {e}]
          /\ late' = [late EXCEPT ![s] = IF Reads(access[OwnerOf[s]], e) THEN @ ELSE @ + 1]
      BY <1>2 DEF Emit
    <2>2. sent'[s] = sent[s] \cup {e} /\ late'[s] = IF Reads(access[OwnerOf[s]], e) THEN late[s] ELSE late[s] + 1
      BY <2>1 DEF SendTypes
    <2>3. Others(s)
      BY <1>1, <2>1 DEF SendTypes, Others, Local, world
    <2>4. LateInv(s)'
      BY <1>1, <2>2 DEF LateInv, SendTypes
    <2>5. PageInv(s)'
      BY <1>1, <1>2, <2>2 DEF PageInv, Covered
    <2>6. SendTypes'
      <3>1. sent' = [t \in Streams |-> sent'[t]]
        BY <2>1, SentShape
      <3>2. late' \in [Streams -> Nat]
        BY <2>1 DEF SendTypes
      <3>3. phase' \in [Streams -> {"idle", "page", "entry", "emit", "drain"}]
        BY <1>1 DEF SendTypes
      <3>4. queue' \in [Streams -> SUBSET Nat]
        BY <1>1 DEF SendTypes
      <3> QED
        BY <1>1, <3>1, <3>2, <3>3, <3>4 DEF SendTypes, world
    <2> QED
      BY <2>3, <2>4, <2>5, <2>6
  <1>3. CASE ~(status[s] = "open" /\ client[s])
    <2>1. UNCHANGED <<sent, late>>
      BY <1>3 DEF Emit
    <2>2. SendTypes'
      BY <1>1, <2>1 DEF SendTypes, world
    <2>3. Others(s)
      BY <1>1, <2>1 DEF SendTypes, Others, Local, world
    <2>4. LateInv(s)' /\ PageInv(s)'
      BY <1>1, <1>3, <2>1 DEF LateInv, PageInv
    <2> QED
      BY <2>2, <2>3, <2>4
  <1> QED
    BY <1>2, <1>3

\* A page is finished only when its queue is empty, so its rows are all sent.
LEMMA DrainSends ==
    ASSUME NEW s \in Streams, SendInv, Drained(s) \/ EndPage(s)
    PROVE  SendTypes' /\ Others(s) /\ LateInv(s)' /\ PageInv(s)'
  <1> USE DEF SendInv, States
  <1>1. CASE Drained(s)
    <2>1. SendTypes' /\ phase[s] = "drain" /\ phase'[s] = "entry"
      BY <1>1 DEF Drained, SendTypes, reading, world
    <2>2. Others(s)
      BY <1>1 DEF Drained, SendTypes, Others, Local, reading, world
    <2>3. LateInv(s)' /\ PageInv(s)'
      BY <1>1, <2>1 DEF Drained, LateInv, PageInv, Covered, reading, world
    <2> QED
      BY <2>1, <2>2, <2>3
  <1>2. CASE EndPage(s)
    <2>1. SendTypes' /\ phase[s] = "entry" /\ phase'[s] = "idle" /\ cursor'[s] = through[s]
      BY <1>2 DEF EndPage, SendTypes, world
    <2>2. Others(s)
      BY <1>2 DEF EndPage, SendTypes, Others, Local, world
    <2>3. LateInv(s)'
      BY <1>2, <2>1 DEF EndPage, LateInv, world
    <2>4. PageInv(s)'
      BY <1>2, <2>1 DEF EndPage, PageInv, Covered, world
    <2> QED
      BY <2>1, <2>2, <2>3, <2>4
  <1> QED
    BY <1>1, <1>2

\* Every step is one connection's, the log's, or a change of somebody's access.
LEMMA SendStep ==
    ASSUME SendInv, [Next]_vars
    PROVE  SendInv'
  <1> USE DEF SendInv
  <1>1. CASE UNCHANGED vars
    BY <1>1 DEF vars, reading, world, SendTypes, LateInv, PageInv, Covered
  <1>2. ASSUME NEW s \in Streams,
               (\E after \in {0, head} : Request(s, after)) \/ Server(s) \/ ClientGone(s) \/ Drained(s)
        PROVE  SendInv'
    <2>1. SendTypes' /\ Others(s) /\ LateInv(s)' /\ PageInv(s)'
      <3>1. CASE \/ \E after \in {0, head} : Request(s, after)
                 \/ Open(s) \/ Refuse(s) \/ ResponseClosed(s) \/ Rotate(s) \/ ClientGone(s)
        BY <3>1, ConnectionSends
      <3>2. CASE StartPoll(s) \/ ReadPage(s) \/ Authorize(s) \/ Emit(s)
        BY <3>2, StartPollSends, ReadPageSends, AuthorizeSends, EmitSends
      <3>3. CASE PollFails(s) \/ SlowConsumer(s)
        BY <3>3, FailSends DEF PollFails, SlowConsumer
      <3>4. CASE Drained(s) \/ EndPage(s)
        BY <3>4, DrainSends
      <3> QED
        BY <1>2, <3>1, <3>2, <3>3, <3>4 DEF Server
    <2> QED
      BY <2>1, OthersKeep
  <1>3. CASE Append
    BY <1>3 DEF Append, reading, SendTypes, LateInv, PageInv, Covered
  <1>4. ASSUME NEW p \in Principals, NEW a \in {"none", "plain", "full"}, ChangeAccess(p, a)
        PROVE  SendInv'
    <2>1. /\ access' = [access EXCEPT ![p] = a]
          /\ late' = [s \in Streams |-> IF OwnerOf[s] = p THEN 0 ELSE late[s]]
          /\ UNCHANGED <<status, client, phase, held, cursor, start, queue, through, sent, head>>
      BY <1>4 DEF ChangeAccess, reading
    <2>2. SendTypes'
      BY <2>1 DEF SendTypes
    <2>3. ASSUME NEW s \in Streams
          PROVE  LateInv(s)'
      <3>1. CASE OwnerOf[s] = p
        BY <2>1, <3>1 DEF LateInv
      <3>2. CASE OwnerOf[s] # p
        <4>1. late'[s] = late[s] /\ access'[OwnerOf[s]] = access[OwnerOf[s]]
          BY <2>1, <3>2, StreamAssumption DEF SendTypes
        <4> QED
          BY <2>1, <4>1 DEF LateInv
      <3> QED
        BY <3>1, <3>2
    <2>4. \A s \in Streams : PageInv(s)'
      BY <2>1 DEF PageInv, Covered
    <2> QED
      BY <2>2, <2>3, <2>4
  <1> QED
    BY <1>1, <1>2, <1>3, <1>4 DEF Next

LEMMA SendInit == Init => SendInv
  BY StreamAssumption DEF Init, SendInv, SendTypes, LateInv, PageInv, Covered, States

\* A stream that is open has sent every event its caller may always read, up to where
\* it has scanned, and after a change of access at most the one event that was already
\* authorized leaves, for any log, any pages and any changes of access
\* (startEventStream's poll, authorize and write).
THEOREM StreamFaithfulHolds == Spec => []StreamFaithful
  <1>1. SendInv => StreamFaithful
    BY DEF SendInv, LateInv, PageInv, Covered, StreamFaithful, OneLateEvent, NoGap
  <1>2. SendInv /\ [Next]_vars => SendInv'
    BY SendStep
  <1> QED
    BY SendInit, <1>1, <1>2, PTL DEF Spec

-----------------------------------------------------------------------------
(***************************************************************************)
(* Proofs, for any processes, accounts and batches, and both outboxes.     *)
(*                                                                         *)
(* A row is leased only while it waits, so only a waiting row is settled,  *)
(* and a waiting row has failures left: that is why counting is enough.    *)
(* An answer "ok" is known to mean that the batch is recorded for its own  *)
(* account, which is why the row may go.                                   *)
(***************************************************************************)
RowSound(row, n) ==
  /\ row \in [state : Waiting \cup Terminal, attempts : 0..MaxAttempts, lease : Procs \cup {Nobody}, live : BOOLEAN]
  /\ row.state \in Waiting => row.attempts < MaxAttempts
  /\ row.live = TRUE \/ row.lease # Nobody => row.state \in Waiting
  /\ row.attempts <= n
  /\ row.state = "exhausted" => n >= MaxAttempts
BoxInv == /\ DOMAIN box \subseteq Batches /\ causes \in [Batches -> Nat]
          /\ \A b \in DOMAIN box : RowSound(box[b], causes[b])

StandsSound(x) ==
  /\ x \in [pc : {"idle", "identified", "sending", "answered"}, subject : Subjects \cup {Nobody},
            batch : Batches \cup {Nobody}, answer : Answers \cup {Nobody}]
  /\ x.pc \in {"sending", "answered"} => x.batch \in Batches
  /\ x.pc = "answered" => x.answer \in Answers
ProcInv == /\ account \in [Procs -> Subjects \cup {Nobody}] /\ DOMAIN proc = Procs
           /\ \A p \in Procs : StandsSound(proc[p])

Recorded(b) == <<b, SubjectOf[b]>> \in recorded
WireInv == /\ wire \subseteq [from : Procs, batch : Batches, by : Subjects]
           /\ OwnSubject
           /\ \A p \in Procs : proc[p].pc = "answered" /\ proc[p].answer = "ok" => Recorded(proc[p].batch)
AckedInv == \A b \in acked : b \in DOMAIN box \/ Recorded(b) \/ b \in discarded

OutboxInv == BoxInv /\ ProcInv /\ WireInv /\ AckedInv

\* What a failed answer makes of a row that its process has leased.
LEMMA RowsSettle ==
  ASSUME OutboxConstants, NEW row, NEW n \in Nat, NEW answer \in Answers \ {"ok"},
         RowSound(row, n), row.state \in Waiting
  PROVE  RowSound(Settled(row, answer), Counted(n, answer)) /\ RowSound(Retained(row, answer), Counted(n, answer))
<1> USE DEF RowSound, Waiting, Terminal, OutboxConstants
<1>1. /\ row = [state |-> row.state, attempts |-> row.attempts, lease |-> row.lease, live |-> row.live]
      /\ row.attempts \in Nat /\ row.attempts < MaxAttempts /\ row.attempts <= n /\ MaxAttempts \in Nat
  OBVIOUS
<1> DEFINE k == Counted(n, answer)
<1>2. CASE answer \in {"changed", "no-token", "aborted"}
  <2>1. k = n
    BY <1>2 DEF Counted
  <2>2. Retained(row, answer) = [state |-> row.state, attempts |-> row.attempts, lease |-> Nobody, live |-> FALSE]
    BY <1>1, <1>2 DEF Retained, Free
  <2>3. \E s \in Waiting : Settled(row, answer) = [state |-> s, attempts |-> row.attempts, lease |-> Nobody, live |-> FALSE]
    <3>1. row.attempts + 0 = row.attempts /\ ~(row.attempts >= MaxAttempts)
      BY <1>1
    <3>2. Settled(row, answer) = [state |-> IF answer = "aborted" THEN row.state ELSE "retry",
                                  attempts |-> row.attempts, lease |-> Nobody, live |-> FALSE]
      BY <1>2, <3>1 DEF Settled
    <3> QED
      BY <3>2
  <2>4. \A s \in Waiting : RowSound([state |-> s, attempts |-> row.attempts, lease |-> Nobody, live |-> FALSE], n)
    BY <1>1
  <2> QED
    BY <2>1, <2>2, <2>3, <2>4
<1>3. CASE answer \in {"denied", "permanent", "transient"}
  <2> DEFINE next == IF answer = "denied" THEN "denied"
                     ELSE IF answer = "permanent" \/ row.attempts + 1 >= MaxAttempts THEN "exhausted" ELSE "retry"
             made == [state |-> next, attempts |-> row.attempts + 1, lease |-> Nobody, live |-> FALSE]
  <2>1. Settled(row, answer) = made
    BY <1>3 DEF Settled
  <2>2. Retained(row, answer) = made
    BY <1>1, <1>3 DEF Retained, Free
  <2>3. k \in Nat /\ row.attempts + 1 <= k /\ (next = "exhausted" => k >= MaxAttempts)
    BY <1>1, <1>3 DEF Counted
  <2>4. RowSound(made, k)
    BY <1>1, <2>3
  <2> QED
    BY <2>1, <2>2, <2>4
<1> QED
  BY <1>2, <1>3 DEF Answers

LEMMA NewRowSound ==
  ASSUME OutboxConstants, NEW n \in Nat
  PROVE  RowSound(NewRow, n)
BY DEF OutboxConstants, RowSound, NewRow, Waiting, Terminal

-----------------------------------------------------------------------------
LEMMA StoreKeeps ==
  ASSUME OutboxConstants, OutboxInv, NEW b \in Batches, Store(b)
  PROVE  OutboxInv'
<1> USE DEF OutboxInv
<1>1. box' = [x \in DOMAIN box \cup {b} |-> IF x \in DOMAIN box THEN box[x] ELSE NewRow]
  BY DEF Store
<1>2. DOMAIN box' = DOMAIN box \cup {b} /\ (b \notin DOMAIN box => box'[b] = NewRow)
      /\ \A x \in DOMAIN box : box'[x] = box[x]
  BY <1>1
<1>3. UNCHANGED <<proc, account, wire, recorded, discarded, causes>> /\ acked' = acked \cup {b}
  BY DEF Store
<1>4. causes[b] \in Nat
  BY DEF BoxInv
<1>5. BoxInv'
  BY <1>2, <1>3, <1>4, NewRowSound DEF BoxInv
<1>6. ProcInv' /\ WireInv'
  BY <1>3 DEF ProcInv, WireInv, OwnSubject, Recorded
<1>7. AckedInv'
  BY <1>2, <1>3 DEF AckedInv, Recorded
<1> QED
  BY <1>5, <1>6, <1>7

\* Steps of a process that leave the store and the API alone.
LEMMA ProcMoves ==
  ASSUME OutboxConstants, OutboxInv, NEW p \in Procs, NEW x, proc' = [proc EXCEPT ![p] = x], StandsSound(x),
         x.pc = "answered" => x.answer # "ok", UNCHANGED <<store, account, wire, recorded>>
  PROVE  OutboxInv'
<1> USE DEF OutboxInv
<1>1. DOMAIN proc' = Procs /\ proc'[p] = x /\ \A q \in Procs \ {p} : proc'[q] = proc[q]
  BY DEF ProcInv
<1>2. BoxInv' /\ AckedInv'
  BY DEF BoxInv, AckedInv, Recorded, store
<1>3. ProcInv'
  BY <1>1 DEF ProcInv
<1>4. WireInv'
  BY <1>1 DEF WireInv, OwnSubject, Recorded
<1> QED
  BY <1>2, <1>3, <1>4

LEMMA IdleSound == StandsSound(Idle) /\ Idle.pc # "answered"
BY DEF StandsSound, Idle

LEMMA MoveKeeps ==
  ASSUME OutboxConstants, OutboxInv, NEW p \in Procs, Identify(p) \/ Rest(p) \/ NoAnswer(p) \/ close(p) \/ Die(p)
  PROVE  OutboxInv'
<1> USE DEF OutboxInv
<1>1. StandsSound(proc[p]) /\ account[p] \in Subjects \cup {Nobody}
  BY DEF ProcInv
<1>2. CASE Identify(p)
  <2>1. StandsSound([proc[p] EXCEPT !.pc = "identified", !.subject = account[p]])
    BY <1>1 DEF StandsSound
  <2>2. [proc[p] EXCEPT !.pc = "identified", !.subject = account[p]].pc # "answered"
    BY <1>1 DEF StandsSound
  <2> QED
    BY <1>2, <2>1, <2>2, ProcMoves DEF Identify
<1>3. CASE Rest(p) \/ Die(p) \/ (close(p) /\ proc' = [proc EXCEPT ![p] = Idle])
  BY <1>3, IdleSound, ProcMoves DEF Rest, Die, close
<1>4. ASSUME NEW answer \in {"transient", "aborted"}, proc[p].pc = "sending", Reply(p, answer),
             UNCHANGED <<store, account, wire, recorded>>
      PROVE  OutboxInv'
  <2>1. StandsSound([proc[p] EXCEPT !.pc = "answered", !.answer = answer])
    BY <1>1, <1>4 DEF StandsSound, Answers
  <2>2. [proc[p] EXCEPT !.pc = "answered", !.answer = answer].answer # "ok"
    BY <1>1 DEF StandsSound
  <2> QED
    BY <1>4, <2>1, <2>2, ProcMoves DEF Reply
<1> QED
  BY <1>2, <1>3, <1>4 DEF NoAnswer, close

LEMMA ClaimKeeps ==
  ASSUME OutboxConstants, OutboxInv, NEW p \in Procs, NEW b \in Claimable(p), Claim(p, b), proc[p].pc = "identified"
  PROVE  OutboxInv'
<1> USE DEF OutboxInv
<1>1. b \in DOMAIN box /\ b \in Batches /\ box[b].state \in Waiting
  BY DEF Claimable, BoxInv
<1>2. box' = [box EXCEPT ![b] = [box[b] EXCEPT !.lease = p, !.live = TRUE]]
  BY DEF Claim
<1>3. UNCHANGED <<account, recorded, acked, discarded, causes>>
  BY DEF Claim
<1>4. RowSound([box[b] EXCEPT !.lease = p, !.live = TRUE], causes[b])
  BY <1>1 DEF BoxInv, RowSound
<1>5. BoxInv'
  BY <1>1, <1>2, <1>3, <1>4 DEF BoxInv
<1>6. AckedInv'
  BY <1>2, <1>3 DEF AckedInv, Recorded
<1>7. StandsSound(proc[p])
  BY DEF ProcInv
<1>8. CASE account[p] = Nobody
  <2> DEFINE x == [proc[p] EXCEPT !.pc = "answered", !.batch = b, !.answer = "no-token"]
  <2>1. proc' = [proc EXCEPT ![p] = x] /\ wire' = wire
    BY <1>8 DEF Claim
  <2>2. StandsSound(x) /\ x.answer # "ok"
    BY <1>1, <1>7 DEF StandsSound, Answers
  <2> HIDE DEF x
  <2>3. DOMAIN proc' = Procs /\ proc'[p] = x /\ \A q \in Procs \ {p} : proc'[q] = proc[q]
    BY <2>1 DEF ProcInv
  <2>4. ProcInv'
    BY <1>3, <2>2, <2>3 DEF ProcInv
  <2>5. WireInv'
    BY <1>3, <2>1, <2>2, <2>3 DEF WireInv, OwnSubject, Recorded
  <2> QED
    BY <1>5, <1>6, <2>4, <2>5
<1>9. CASE account[p] # Nobody
  <2> DEFINE x == [proc[p] EXCEPT !.pc = "sending", !.batch = b]
             m == [from |-> p, batch |-> b, by |-> account[p]]
  <2>1. proc' = [proc EXCEPT ![p] = x] /\ wire' = wire \cup {m}
    BY <1>9 DEF Claim
  <2>2. StandsSound(x) /\ x.pc # "answered"
    BY <1>1, <1>7 DEF StandsSound
  <2>3. m \in [from : Procs, batch : Batches, by : Subjects]
    BY <1>1, <1>9 DEF ProcInv
  <2> HIDE DEF x, m
  <2>4. DOMAIN proc' = Procs /\ proc'[p] = x /\ \A q \in Procs \ {p} : proc'[q] = proc[q]
    BY <2>1 DEF ProcInv
  <2>5. ProcInv'
    BY <1>3, <2>2, <2>4 DEF ProcInv
  <2>6. WireInv'
    BY <1>3, <2>1, <2>2, <2>3, <2>4 DEF WireInv, OwnSubject, Recorded
  <2> QED
    BY <1>5, <1>6, <2>5, <2>6
<1> QED
  BY <1>8, <1>9

\* A row is settled only by the process that has it leased, and an "ok" is recorded.
LEMMA SettleKeeps ==
  ASSUME OutboxConstants, OutboxInv, NEW p \in Procs, proc[p].pc = "answered",
         SettleWith(p, Settled(RowOf(p), proc[p].answer)) \/ SettleWith(p, Retained(RowOf(p), proc[p].answer))
  PROVE  OutboxInv'
<1> USE DEF OutboxInv
<1> DEFINE b == proc[p].batch
           answer == proc[p].answer
<1>1. PICK row : row \in {Settled(RowOf(p), answer), Retained(RowOf(p), answer)} /\ SettleWith(p, row)
  OBVIOUS
<1>2. /\ proc' = [proc EXCEPT ![p] = Idle]
      /\ UNCHANGED <<account, wire, recorded, acked, discarded>>
      /\ box' = IF ~Holds(p, b) THEN box ELSE IF answer = "ok" THEN Remove(b) ELSE [box EXCEPT ![b] = row]
      /\ causes' = IF ~Holds(p, b) THEN causes
                   ELSE [causes EXCEPT ![b] = IF answer = "ok" THEN 0 ELSE Counted(causes[b], answer)]
  BY <1>1 DEF SettleWith, Delivered
<1>3. b \in Batches /\ answer \in Answers
  BY DEF ProcInv, StandsSound
<1>4. DOMAIN proc' = Procs /\ proc'[p] = Idle /\ \A q \in Procs \ {p} : proc'[q] = proc[q]
  BY <1>2 DEF ProcInv
<1>5. ProcInv'
  BY <1>2, <1>4, IdleSound DEF ProcInv
<1>6. WireInv'
  BY <1>2, <1>4, IdleSound DEF WireInv, OwnSubject, Recorded
<1>7. CASE ~Holds(p, b)
  BY <1>2, <1>5, <1>6, <1>7 DEF BoxInv, AckedInv, Recorded
<1>8. CASE Holds(p, b) /\ answer = "ok"
  <2>1. box' = Remove(b) /\ causes' = [causes EXCEPT ![b] = 0]
    BY <1>2, <1>8
  <2>2. DOMAIN box' = DOMAIN box \ {b} /\ \A x \in DOMAIN box \ {b} : box'[x] = box[x]
    BY <2>1 DEF Remove
  <2>3. causes' \in [Batches -> Nat] /\ \A x \in Batches \ {b} : causes'[x] = causes[x]
    BY <2>1 DEF BoxInv
  <2>4. BoxInv'
    BY <2>2, <2>3 DEF BoxInv
  <2>5. Recorded(b)
    BY <1>8 DEF WireInv
  <2>6. AckedInv'
    BY <1>2, <2>2, <2>5 DEF AckedInv, Recorded
  <2> QED
    BY <1>5, <1>6, <2>4, <2>6
<1>9. CASE Holds(p, b) /\ answer # "ok"
  <2>1. box' = [box EXCEPT ![b] = row] /\ causes' = [causes EXCEPT ![b] = Counted(causes[b], answer)]
    BY <1>2, <1>9
  <2>2. b \in DOMAIN box /\ box[b].lease = p /\ RowOf(p) = box[b]
    BY <1>9 DEF Holds, RowOf
  <2>3. RowSound(box[b], causes[b]) /\ causes[b] \in Nat
    BY <2>2, <1>3 DEF BoxInv
  <2>4. box[b].state \in Waiting
    BY <2>2, <2>3 DEF RowSound, OutboxConstants
  <2>5. RowSound(row, Counted(causes[b], answer))
    BY <1>1, <1>3, <1>9, <2>2, <2>3, <2>4, RowsSettle
  <2>6. Counted(causes[b], answer) \in Nat
    BY <2>3 DEF Counted, OutboxConstants
  <2>7. causes' \in [Batches -> Nat] /\ causes'[b] = Counted(causes[b], answer)
        /\ \A x \in Batches \ {b} : causes'[x] = causes[x]
    BY <1>3, <2>1, <2>6 DEF BoxInv
  <2>8. DOMAIN box' = DOMAIN box /\ box'[b] = row /\ \A x \in DOMAIN box \ {b} : box'[x] = box[x]
    BY <2>1, <2>2
  <2>9. BoxInv'
    BY <2>5, <2>7, <2>8 DEF BoxInv
  <2>10. AckedInv'
    BY <1>2, <2>8 DEF AckedInv, Recorded
  <2> QED
    BY <1>5, <1>6, <2>9, <2>10
<1> QED
  BY <1>7, <1>8, <1>9

\* The API answers "ok" only for a batch of the token's own account.
LEMMA ServeKeeps ==
  ASSUME OutboxConstants, OutboxInv, NEW m \in wire, Serve(m)
  PROVE  OutboxInv'
<1> USE DEF OutboxInv
<1>1. m.from \in Procs /\ m.batch \in Batches
  BY DEF WireInv
<1>2. PICK answer \in Answers :
        /\ answer = "ok" => <<m.batch, m.by>> \in recorded \/ SubjectOf[m.batch] = m.by
        /\ wire' = wire \ {m}
        /\ recorded' = IF answer = "ok" THEN recorded \cup {<<m.batch, m.by>>} ELSE recorded
        /\ \/ proc[m.from].pc = "sending" /\ proc[m.from].batch = m.batch /\ Reply(m.from, answer)
           \/ UNCHANGED proc
        /\ UNCHANGED <<store, account>>
  BY DEF Serve, SubjectUnchanged, Answers
<1>3. answer = "ok" => SubjectOf[m.batch] = m.by
  BY <1>2 DEF WireInv, OwnSubject
<1>4. recorded \subseteq recorded' /\ OwnSubject'
  BY <1>2, <1>3 DEF WireInv, OwnSubject
<1>5. BoxInv' /\ AckedInv'
  BY <1>2, <1>4 DEF BoxInv, AckedInv, Recorded, store
<1>6. CASE UNCHANGED proc
  BY <1>2, <1>4, <1>5, <1>6 DEF ProcInv, WireInv, Recorded
<1>7. CASE proc[m.from].pc = "sending" /\ proc[m.from].batch = m.batch /\ Reply(m.from, answer)
  <2> DEFINE x == [proc[m.from] EXCEPT !.pc = "answered", !.answer = answer]
  <2>1. StandsSound(proc[m.from])
    BY <1>1 DEF ProcInv
  <2>2. StandsSound(x) /\ x.answer = answer /\ x.batch = m.batch
    BY <1>7, <2>1 DEF StandsSound
  <2>3. proc' = [proc EXCEPT ![m.from] = x]
    BY <1>7 DEF Reply
  <2> HIDE DEF x
  <2>4. DOMAIN proc' = Procs /\ proc'[m.from] = x /\ \A q \in Procs \ {m.from} : proc'[q] = proc[q]
    BY <1>1, <2>3 DEF ProcInv
  <2>5. ProcInv'
    BY <1>2, <2>2, <2>4 DEF ProcInv
  <2>6. answer = "ok" => <<m.batch, SubjectOf[m.batch]>> \in recorded'
    BY <1>2, <1>3
  <2>7. ASSUME NEW q \in Procs, proc'[q].pc = "answered", proc'[q].answer = "ok"
        PROVE  <<proc'[q].batch, SubjectOf[proc'[q].batch]>> \in recorded'
    <3>1. CASE q = m.from
      BY <2>2, <2>4, <2>6, <2>7, <3>1
    <3>2. CASE q # m.from
      BY <1>4, <2>4, <2>7, <3>2 DEF WireInv, Recorded
    <3> QED
      BY <3>1, <3>2
  <2>8. WireInv'
    BY <1>2, <1>4, <2>7 DEF WireInv, Recorded
  <2> QED
    BY <1>5, <2>5, <2>8
<1> QED
  BY <1>2, <1>6, <1>7

LEMMA RepairKeeps ==
  ASSUME OutboxConstants, OutboxInv, NEW own \in SUBSET DOMAIN box, Retry(own) \/ Discard(own)
  PROVE  OutboxInv'
<1> USE DEF OutboxInv
<1>1. UNCHANGED <<proc, account, wire, recorded, acked>> /\ causes' = [b \in Batches |-> IF b \in own THEN 0 ELSE causes[b]]
  BY DEF Retry, Discard
<1>2. causes' \in [Batches -> Nat]
  BY <1>1 DEF BoxInv
<1>3. ProcInv' /\ WireInv'
  BY <1>1 DEF ProcInv, WireInv, OwnSubject, Recorded
<1>4. CASE Retry(own)
  <2>1. box' = [b \in DOMAIN box |-> IF b \in own THEN NewRow ELSE box[b]] /\ discarded' = discarded
    BY <1>4 DEF Retry
  <2>2. BoxInv'
    BY <1>1, <1>2, <2>1, NewRowSound DEF BoxInv
  <2>3. AckedInv'
    BY <1>1, <2>1 DEF AckedInv, Recorded
  <2> QED
    BY <1>3, <2>2, <2>3
<1>5. CASE Discard(own)
  <2>1. box' = [b \in DOMAIN box \ own |-> box[b]] /\ discarded' = discarded \cup own
    BY <1>5 DEF Discard
  <2>2. BoxInv'
    BY <1>1, <1>2, <2>1 DEF BoxInv
  <2>3. AckedInv'
    BY <1>1, <2>1 DEF AckedInv, Recorded
  <2> QED
    BY <1>3, <2>2, <2>3
<1> QED
  BY <1>4, <1>5

LEMMA TimeKeeps ==
  ASSUME OutboxConstants, OutboxInv,
         (\E b \in Batches : Expire(b)) \/ (\E p \in Procs, s \in Subjects \cup {Nobody} : SwitchAccount(p, s)) \/ UNCHANGED outboxVars
  PROVE  OutboxInv'
<1> USE DEF OutboxInv
<1>1. CASE UNCHANGED outboxVars
  BY <1>1 DEF outboxVars, BoxInv, ProcInv, WireInv, OwnSubject, AckedInv, Recorded
<1>2. CASE \E b \in Batches : Expire(b)
  <2>1. PICK b \in Batches : Expire(b)
    BY <1>2
  <2>2. b \in DOMAIN box /\ box' = [box EXCEPT ![b].live = FALSE]
        /\ UNCHANGED <<proc, account, wire, recorded, acked, discarded, causes>>
    BY <2>1 DEF Expire
  <2>3. RowSound([box[b] EXCEPT !.live = FALSE], causes[b])
    BY <2>1, <2>2 DEF BoxInv, RowSound, Expire
  <2>4. BoxInv'
    BY <2>2, <2>3 DEF BoxInv
  <2> QED
    BY <2>2, <2>4 DEF ProcInv, WireInv, OwnSubject, AckedInv, Recorded
<1>3. CASE \E p \in Procs, s \in Subjects \cup {Nobody} : SwitchAccount(p, s)
  <2>1. PICK p \in Procs, s \in Subjects \cup {Nobody} : SwitchAccount(p, s)
    BY <1>3
  <2>2. account' = [account EXCEPT ![p] = s] /\ UNCHANGED <<box, acked, discarded, causes, proc, wire, recorded>>
    BY <2>1 DEF SwitchAccount, store
  <2> QED
    BY <2>2 DEF BoxInv, ProcInv, WireInv, OwnSubject, AckedInv, Recorded
<1> QED
  BY <1>1, <1>2, <1>3

LEMMA OutboxStep ==
  ASSUME OutboxConstants, OutboxInv, [OutboxNext]_outboxVars
  PROVE  OutboxInv'
<1>1. CASE \E b \in Batches : persist(b) \/ enqueue(b)
  BY <1>1, StoreKeeps DEF persist, enqueue
<1>2. ASSUME NEW p \in Procs, Identify(p) \/ NoAnswer(p) \/ close(p) \/ Die(p) \/ Node(p) \/ Tab(p)
      PROVE  OutboxInv'
  <2>1. CASE drain(p) \/ drainRow(p)
    BY <2>1, ClaimKeeps, MoveKeeps DEF drain, drainRow
  <2>2. CASE settle(p) \/ settleRow(p)
    BY <2>2, SettleKeeps DEF settle, settleRow
  <2>3. CASE retryFailed(p) \/ discardFailed(p) \/ repair(p)
    <3>1. OwnTerminal(p) \in SUBSET DOMAIN box /\ {b \in OwnTerminal(p) : ~box[b].live} \in SUBSET DOMAIN box
      BY DEF OwnTerminal
    <3> QED
      BY <2>3, <3>1, RepairKeeps DEF retryFailed, discardFailed, repair
  <2>4. CASE Identify(p) \/ NoAnswer(p) \/ close(p) \/ Die(p)
    BY <2>4, MoveKeeps
  <2> QED
    BY <1>2, <2>1, <2>2, <2>3, <2>4 DEF Node, Tab
<1>3. CASE \E m \in wire : Serve(m)
  BY <1>3, ServeKeeps
<1>4. CASE (\E b \in Batches : Expire(b)) \/ (\E p \in Procs, s \in Subjects \cup {Nobody} : SwitchAccount(p, s)) \/ UNCHANGED outboxVars
  BY <1>4, TimeKeeps
<1> QED
  BY <1>1, <1>2, <1>3, <1>4 DEF OutboxNext

LEMMA OutboxStarts ==
  ASSUME OutboxConstants, OutboxInit
  PROVE  OutboxInv
<1>1. BoxInv /\ AckedInv
  BY DEF OutboxInit, BoxInv, AckedInv
<1>2. ProcInv
  BY IdleSound DEF OutboxInit, ProcInv
<1>3. WireInv
  BY IdleSound DEF OutboxInit, WireInv, OwnSubject
<1> QED
  BY <1>1, <1>2, <1>3 DEF OutboxInv

-----------------------------------------------------------------------------
StaysTerminal(b) ==
  \/ b \in DOMAIN box' /\ box'[b] = box[b]
  \/ \E p \in Procs : account[p] = SubjectOf[b] /\ causes'[b] = 0 /\ UNCHANGED proc

\* Only a waiting row is leased, so only an operator changes a terminal one.
LEMMA TerminalStep ==
  ASSUME OutboxConstants, OutboxInv, [OutboxNext]_outboxVars, NEW b \in DOMAIN box, box[b].state \in Terminal
  PROVE  StaysTerminal(b)
<1>1. b \in Batches /\ box[b].state \notin Waiting /\ RowSound(box[b], causes[b])
  BY DEF OutboxInv, BoxInv, Waiting, Terminal
<1>2. box[b].live # TRUE /\ \A p \in Procs : ~Holds(p, b)
  BY <1>1 DEF RowSound, Holds, OutboxConstants
<1>3. CASE \E x \in Batches : persist(x) \/ enqueue(x)
  BY <1>3 DEF persist, enqueue, Store, StaysTerminal
<1>4. ASSUME NEW p \in Procs, drain(p) \/ drainRow(p)
      PROVE  StaysTerminal(b)
  <2>1. CASE Rest(p)
    BY <2>1 DEF Rest, store, StaysTerminal
  <2>2. CASE \E x \in Claimable(p) : Claim(p, x)
    <3>1. PICK x \in Claimable(p) : Claim(p, x)
      BY <2>2
    <3>2. x # b /\ box' = [box EXCEPT ![x] = [box[x] EXCEPT !.lease = p, !.live = TRUE]]
      BY <1>1, <3>1 DEF Claimable, Claim
    <3> QED
      BY <3>2 DEF StaysTerminal
  <2> QED
    BY <1>4, <2>1, <2>2 DEF drain, drainRow
<1>5. ASSUME NEW p \in Procs, settle(p) \/ settleRow(p)
      PROVE  StaysTerminal(b)
  <2>1. PICK row : SettleWith(p, row)
    BY <1>5 DEF settle, settleRow
  <2>2. box' = box \/ (Holds(p, proc[p].batch) /\ box' \in {Remove(proc[p].batch), [box EXCEPT ![proc[p].batch] = row]})
    BY <2>1 DEF SettleWith
  <2>3. Holds(p, proc[p].batch) => proc[p].batch # b
    BY <1>2
  <2> QED
    BY <2>2, <2>3 DEF StaysTerminal, Remove
<1>6. ASSUME NEW p \in Procs, retryFailed(p) \/ discardFailed(p) \/ repair(p)
      PROVE  StaysTerminal(b)
  <2>1. PICK own \in SUBSET OwnTerminal(p) : Retry(own) \/ Discard(own)
    BY <1>6 DEF retryFailed, discardFailed, repair
  <2>2. UNCHANGED proc /\ causes' = [x \in Batches |-> IF x \in own THEN 0 ELSE causes[x]]
    BY <2>1 DEF Retry, Discard
  <2>3. CASE b \in own
    BY <1>1, <2>2, <2>3 DEF OwnTerminal, StaysTerminal
  <2>4. CASE b \notin own
    BY <2>1, <2>4 DEF Retry, Discard, StaysTerminal
  <2> QED
    BY <2>3, <2>4
<1>7. CASE \E p \in Procs : Identify(p) \/ NoAnswer(p) \/ close(p) \/ Die(p)
  BY <1>7 DEF Identify, NoAnswer, close, Die, store, StaysTerminal
<1>8. CASE (\E m \in wire : Serve(m)) \/ (\E p \in Procs, s \in Subjects \cup {Nobody} : SwitchAccount(p, s)) \/ UNCHANGED outboxVars
  BY <1>8 DEF Serve, SwitchAccount, outboxVars, store, StaysTerminal
<1>9. CASE \E x \in Batches : Expire(x)
  <2>1. PICK x \in Batches : Expire(x)
    BY <1>9
  <2>2. x # b
    BY <1>2, <2>1 DEF Expire
  <2> QED
    BY <2>1, <2>2 DEF Expire, StaysTerminal
<1> QED
  BY <1>3, <1>4, <1>5, <1>6, <1>7, <1>8, <1>9 DEF OutboxNext, Node, Tab

\* A batch whose enqueue was acknowledged stays stored until the API has recorded it
\* for the account it belongs to or an operator discards it; nothing is recorded for
\* another account; a batch is given up for counted failures only; and a late answer of
\* a process that lost its lease never revives a batch that was denied or given up, in
\* both outboxes, however many processes share the rows (settling compares the lease:
\* "WHERE id=? AND lease=?" in outbox.ts, owner and leaseUntil in telemetry-outbox.ts).
THEOREM OutboxKeptHolds == ASSUME OutboxConstants PROVE OutboxSpec => OutboxKept
<1>1. OutboxInv => AckedKept /\ OwnSubject /\ GivenUpForCause
  BY DEF OutboxInv, BoxInv, WireInv, AckedInv, RowSound, Recorded, AckedKept, GivenUpForCause
<1>2. OutboxInit => OutboxInv
  BY OutboxStarts
<1>3. OutboxInv /\ [OutboxNext]_outboxVars => OutboxInv'
  BY OutboxStep
<1>4. OutboxInv /\ [OutboxNext]_outboxVars =>
        [\A b \in DOMAIN box : box[b].state \in Terminal =>
           \/ b \in DOMAIN box' /\ box'[b] = box[b]
           \/ \E p \in Procs : account[p] = SubjectOf[b] /\ causes'[b] = 0 /\ UNCHANGED proc]_outboxVars
  BY TerminalStep DEF StaysTerminal
<1>5. OutboxSpec => []OutboxInv
  BY <1>2, <1>3, PTL DEF OutboxSpec
<1>6. OutboxSpec => [](AckedKept /\ OwnSubject /\ GivenUpForCause)
  BY <1>1, <1>5, PTL
<1>7. OutboxSpec => TerminalStays
  BY <1>4, <1>5, PTL DEF OutboxSpec, TerminalStays
<1> QED
  BY <1>6, <1>7 DEF OutboxKept

\* Rows, processes and requests keep their types, and attempts their bound.
THEOREM OutboxTypes == ASSUME OutboxConstants PROVE OutboxSpec => []OutboxTypeOK
<1>1. OutboxInv => OutboxTypeOK
  BY DEF OutboxInv, BoxInv, ProcInv, RowSound, StandsSound, OutboxTypeOK
<1>2. OutboxInit => OutboxInv
  BY OutboxStarts
<1>3. OutboxInv /\ [OutboxNext]_outboxVars => OutboxInv'
  BY OutboxStep
<1> QED
  BY <1>1, <1>2, <1>3, PTL DEF OutboxSpec
=============================================================================
