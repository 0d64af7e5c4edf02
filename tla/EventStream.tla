---------------------------- MODULE EventStream ----------------------------
(***************************************************************************)
(* The server side of event streams (apps/api/src/server.ts, the            *)
(* event-stream route and startEventStream): the slots that connections     *)
(* take and return, and the poll loop that reads a page, asks again for     *)
(* every event whether the caller may see it, and waits for slow readers.   *)
(* What a durable consumer does with the events is in EventConsumer.        *)
(*                                                                          *)
(* A connection that ended may be opened again; its poll loop is then a new *)
(* one.  All tenants are given logs of the same length.                     *)
(***************************************************************************)
EXTENDS Integers, FiniteSets

CONSTANTS Streams, Principals, Tenants,
          OwnerOf, TenantOf,    \* of each stream
          MaxTotal, MaxPerPrincipal, MaxPerTenant,
          PageLimit,            \* rows scanned per poll
          Private,              \* sequences that only full access reads
          MaxSeq,               \* bound on the log
          MaxChanges            \* bound on changes of access

ASSUME StreamAssumption ==
    /\ OwnerOf \in [Streams -> Principals] /\ TenantOf \in [Streams -> Tenants]
    /\ IsFiniteSet(Streams)
    /\ MaxTotal \in Nat /\ MaxPerPrincipal \in Nat /\ MaxPerTenant \in Nat
    /\ PageLimit \in Nat \ {0} /\ MaxSeq \in Nat /\ MaxChanges \in Nat
    /\ Private \subseteq Nat

VARIABLES status,      \* "none", "requested", "open" or "closed"
          total, perPrincipal, perTenant,   \* streamCounts
          client,      \* the caller's end of the connection is there
          armed,       \* the close listeners are attached and have not fired
          phase,       \* of the poll: "idle", "page", "entry", "emit" or "drain"
          held,        \* the access the poll was authorized with
          cursor, start,
          queue,       \* entries of the page still to be written
          through,     \* scannedThrough of the page
          sent,        \* history: sequences written
          late,        \* history: events written without access since it was last cut
          head,        \* length of the logs
          access,      \* of each principal now: "none", "plain" or "full"
          changes

counters == <<total, perPrincipal, perTenant>>
reading == <<held, cursor, start, queue, through, sent>>
world == <<head, access, changes>>
vars == <<status, counters, client, armed, phase, reading, late, world>>

TypeOK ==
    /\ status \in [Streams -> {"none", "requested", "open", "closed"}]
    /\ total \in Int /\ perPrincipal \in [Principals -> Int] /\ perTenant \in [Tenants -> Int]
    /\ client \in [Streams -> BOOLEAN] /\ armed \in [Streams -> BOOLEAN]
    /\ phase \in [Streams -> {"idle", "page", "entry", "emit", "drain"}]
    /\ held \in [Streams -> {"none", "plain", "full"}]
    /\ cursor \in [Streams -> Nat] /\ start \in [Streams -> Nat] /\ through \in [Streams -> Nat]
    /\ queue \in [Streams -> SUBSET Nat] /\ sent \in [Streams -> SUBSET Nat]
    /\ late \in [Streams -> Nat]
    /\ head \in Nat /\ changes \in Nat
    /\ access \in [Principals -> {"none", "plain", "full"}]

Init ==
    /\ status = [s \in Streams |-> "none"]
    /\ total = 0
    /\ perPrincipal = [p \in Principals |-> 0]
    /\ perTenant = [t \in Tenants |-> 0]
    /\ client = [s \in Streams |-> FALSE]
    /\ armed = [s \in Streams |-> FALSE]
    /\ phase = [s \in Streams |-> "idle"]
    /\ held = [s \in Streams |-> "none"]
    /\ cursor = [s \in Streams |-> 0] /\ start = [s \in Streams |-> 0]
    /\ through = [s \in Streams |-> 0]
    /\ queue = [s \in Streams |-> {}] /\ sent = [s \in Streams |-> {}]
    /\ late = [s \in Streams |-> 0]
    /\ head = 0
    /\ access = [p \in Principals |-> "full"]
    /\ changes = 0

Reads(a, e) == a = "full" \/ (a = "plain" /\ e \notin Private)
Last(S) == CHOOSE e \in S : \A f \in S : f <= e
First(S) == CHOOSE e \in S : \A f \in S : e <= f

----------------------------------------------------------------------------
(* Connections.                                                            *)

\* The route has authorized the request and read the head: the stream starts there
\* or at a position the caller names.
Request(s, after) ==
    /\ status[s] \in {"none", "closed"} /\ phase[s] = "idle" /\ ~armed[s]
    /\ access[OwnerOf[s]] # "none"
    /\ after \in {0, head}
    /\ status' = [status EXCEPT ![s] = "requested"]
    /\ client' = [client EXCEPT ![s] = TRUE]
    /\ cursor' = [cursor EXCEPT ![s] = after] /\ start' = [start EXCEPT ![s] = after]
    /\ sent' = [sent EXCEPT ![s] = {}] /\ late' = [late EXCEPT ![s] = 0]
    /\ UNCHANGED <<counters, armed, phase, held, queue, through, world>>

HasRoom(s) ==
    /\ total < MaxTotal
    /\ perPrincipal[OwnerOf[s]] < MaxPerPrincipal
    /\ perTenant[TenantOf[s]] < MaxPerTenant

\* A caller that left meanwhile has no listener to fire.
Open(s) ==
    /\ status[s] = "requested" /\ HasRoom(s)
    /\ status' = [status EXCEPT ![s] = "open"]
    /\ total' = total + 1
    /\ perPrincipal' = [perPrincipal EXCEPT ![OwnerOf[s]] = @ + 1]
    /\ perTenant' = [perTenant EXCEPT ![TenantOf[s]] = @ + 1]
    /\ armed' = [armed EXCEPT ![s] = client[s]]
    /\ UNCHANGED <<client, phase, reading, late, world>>

Refuse(s) ==
    /\ status[s] = "requested" /\ ~HasRoom(s)
    /\ status' = [status EXCEPT ![s] = "closed"]
    /\ UNCHANGED <<counters, client, armed, phase, reading, late, world>>

\* Mutant: close without its flag.
CloseAgain(s) ==
    /\ status' = [status EXCEPT ![s] = "closed"]
    /\ total' = total - 1
    /\ perPrincipal' = [perPrincipal EXCEPT ![OwnerOf[s]] = @ - 1]
    /\ perTenant' = [perTenant EXCEPT ![TenantOf[s]] = @ - 1]

\* close: the slot is returned once.
Close(s) ==
    \/ /\ status[s] = "open"
       /\ status' = [status EXCEPT ![s] = "closed"]
       /\ total' = total - 1
       /\ perPrincipal' = [perPrincipal EXCEPT ![OwnerOf[s]] = @ - 1]
       /\ perTenant' = [perTenant EXCEPT ![TenantOf[s]] = @ - 1]
    \/ /\ status[s] = "closed"
       /\ UNCHANGED <<status, counters>>

\* The caller's end goes away, before or after the listeners are attached.
ClientGone(s) ==
    /\ client[s] /\ status[s] \in {"requested", "open"}
    /\ client' = [client EXCEPT ![s] = FALSE]
    /\ UNCHANGED <<status, counters, armed, phase, reading, late, world>>

\* The listener of the connection's close, after the caller left or the server ended it.
ResponseClosed(s) ==
    /\ armed[s] /\ (~client[s] \/ status[s] = "closed")
    /\ armed' = [armed EXCEPT ![s] = FALSE]
    /\ Close(s)
    /\ UNCHANGED <<client, phase, reading, late, world>>

\* The lifetime timer.
Rotate(s) ==
    /\ status[s] = "open"
    /\ Close(s)
    /\ UNCHANGED <<client, armed, phase, reading, late, world>>

----------------------------------------------------------------------------
(* The poll loop.  authorize reads the access; a refusal ends the stream.   *)

Fail(s) ==
    /\ Close(s)
    /\ phase' = [phase EXCEPT ![s] = "idle"]
    /\ UNCHANGED <<client, armed, reading, late, world>>

StartPoll(s) ==
    /\ status[s] = "open" /\ phase[s] = "idle"
    /\ \/ /\ access[OwnerOf[s]] # "none"
          /\ phase' = [phase EXCEPT ![s] = "page"]
          /\ held' = [held EXCEPT ![s] = access[OwnerOf[s]]]
          /\ UNCHANGED <<status, counters, client, armed, cursor, start, queue, through, sent, late, world>>
       \/ access[OwnerOf[s]] = "none" /\ Fail(s)

\* The page holds what is readable in the next rows.
ReadPage(s) ==
    LET rows == {e \in 1 .. head : cursor[s] < e /\ e <= cursor[s] + PageLimit} IN
    /\ phase[s] = "page"
    /\ queue' = [queue EXCEPT ![s] = {e \in rows : Reads(held[s], e)}]
    /\ through' = [through EXCEPT ![s] = IF rows = {} THEN cursor[s] ELSE Last(rows)]
    /\ phase' = [phase EXCEPT ![s] = "entry"]
    /\ UNCHANGED <<status, counters, client, armed, held, cursor, start, sent, late, world>>

\* The store or the authentication fails.
PollFails(s) == phase[s] \in {"page", "entry"} /\ Fail(s)

\* Before every event: an event that may not be seen any more is skipped.
Authorize(s) ==
    /\ phase[s] = "entry" /\ queue[s] # {} /\ status[s] = "open"
    /\ \/ /\ Reads(access[OwnerOf[s]], First(queue[s]))
          /\ phase' = [phase EXCEPT ![s] = "emit"]
          /\ UNCHANGED <<status, counters, client, armed, reading, late, world>>
       \/ /\ access[OwnerOf[s]] = "plain" /\ First(queue[s]) \in Private
          /\ queue' = [queue EXCEPT ![s] = @ \ {First(@)}]
          /\ UNCHANGED <<status, counters, client, armed, phase, held, cursor, start, through, sent, late, world>>
       \/ access[OwnerOf[s]] = "none" /\ Fail(s)

\* write: the frame leaves, or is dropped when the connection is gone; a full socket
\* makes the loop wait.
Emit(s) ==
    LET e == First(queue[s]) IN
    /\ phase[s] = "emit"
    /\ queue' = [queue EXCEPT ![s] = @ \ {e}]
    /\ \/ /\ status[s] = "open" /\ client[s]
          /\ sent' = [sent EXCEPT ![s] = @ \cup {e}]
          /\ late' = [late EXCEPT ![s] = IF Reads(access[OwnerOf[s]], e) THEN @ ELSE @ + 1]
          /\ \E next \in {"entry", "drain"} : phase' = [phase EXCEPT ![s] = next]
       \/ /\ status[s] # "open" \/ ~client[s]
          /\ phase' = [phase EXCEPT ![s] = "entry"]
          /\ UNCHANGED <<sent, late>>
    /\ UNCHANGED <<status, counters, client, armed, held, cursor, start, through, world>>

Drained(s) ==
    /\ phase[s] = "drain" /\ client[s]
    /\ phase' = [phase EXCEPT ![s] = "entry"]
    /\ UNCHANGED <<status, counters, client, armed, reading, late, world>>

\* The drain deadline, or the connection's end while waiting.
SlowConsumer(s) == phase[s] = "drain" /\ Fail(s)

\* Mutant: the poll continues after the head instead of after what it scanned.
EndPageAtHead(s) ==
    /\ phase[s] = "entry" /\ (queue[s] = {} \/ status[s] # "open")
    /\ cursor' = [cursor EXCEPT ![s] = head]
    /\ queue' = [queue EXCEPT ![s] = {}]
    /\ phase' = [phase EXCEPT ![s] = "idle"]
    /\ UNCHANGED <<status, counters, client, armed, held, start, through, sent, late, world>>

EndPage(s) ==
    /\ phase[s] = "entry" /\ (queue[s] = {} \/ status[s] # "open")
    /\ cursor' = [cursor EXCEPT ![s] = through[s]]
    /\ queue' = [queue EXCEPT ![s] = {}]
    /\ phase' = [phase EXCEPT ![s] = "idle"]
    /\ UNCHANGED <<status, counters, client, armed, held, start, through, sent, late, world>>

----------------------------------------------------------------------------
Append ==
    /\ head < MaxSeq
    /\ head' = head + 1
    /\ UNCHANGED <<status, counters, client, armed, phase, reading, late, access, changes>>

\* Access is cut or given; what is late is counted from the cut on.
ChangeAccess(p, a) ==
    /\ changes < MaxChanges /\ a # access[p]
    /\ changes' = changes + 1
    /\ access' = [access EXCEPT ![p] = a]
    /\ late' = [s \in Streams |-> IF OwnerOf[s] = p THEN 0 ELSE late[s]]
    /\ UNCHANGED <<status, counters, client, armed, phase, reading, head>>

Server(s) ==
    \/ Open(s) \/ Refuse(s) \/ ResponseClosed(s) \/ Rotate(s)
    \/ StartPoll(s) \/ ReadPage(s) \/ PollFails(s) \/ Authorize(s) \/ Emit(s) \/ SlowConsumer(s) \/ EndPage(s)

Next ==
    \/ \E s \in Streams :
          \/ \E after \in {0, head} : Request(s, after)
          \/ Server(s) \/ ClientGone(s) \/ Drained(s)
    \/ Append
    \/ \E p \in Principals, a \in {"none", "plain", "full"} : ChangeAccess(p, a)

Spec == Init /\ [][Next]_vars

\* The event loop runs what is ready, and the lifetime timer is always set.
FairSpec == Spec /\ \A s \in Streams : WF_vars(Open(s) \/ Refuse(s)) /\ WF_vars(Rotate(s))

----------------------------------------------------------------------------
OpenStreams == {s \in Streams : status[s] = "open"}
OpenByOwner(p) == {s \in Streams : status[s] = "open" /\ OwnerOf[s] = p}
OpenByTenant(t) == {s \in Streams : status[s] = "open" /\ TenantOf[s] = t}

\* The counters of the limits are the open connections, whatever way each of them ended
\* (caller, refusal, slow reader, lifetime), so that no slot leaks or is returned twice
\* (streamCounts).
SlotsExact ==
    /\ total = Cardinality(OpenStreams)
    /\ \A p \in Principals : perPrincipal[p] = Cardinality(OpenByOwner(p))
    /\ \A t \in Tenants : perTenant[t] = Cardinality(OpenByTenant(t))

\* No more connections are open than the process, a principal or a tenant may have.
WithinLimits ==
    /\ Cardinality(OpenStreams) <= MaxTotal
    /\ \A p \in Principals : Cardinality(OpenByOwner(p)) <= MaxPerPrincipal
    /\ \A t \in Tenants : Cardinality(OpenByTenant(t)) <= MaxPerTenant

\* After access is cut, the event that was already authorized may still leave and no
\* other ("Reauthorize after every asynchronous drain before the next event leaves").
OneLateEvent == \A s \in Streams : late[s] <= 1

\* What a live stream has scanned it has delivered: every event that plain access reads,
\* of every page, in the order of the log.
NoGap ==
    \A s \in Streams : status[s] = "open" /\ client[s] =>
        \A e \in start[s] + 1 .. cursor[s] : e \notin Private => e \in sent[s]

\* A stream sends every wanted event, and at most one after its access was cut.
StreamFaithful == OneLateEvent /\ NoGap

\* A caller that left does not keep its slot, even when it left before the listeners
\* for that were attached.
SlotsReturned == \A s \in Streams : (status[s] = "open" /\ ~client[s]) ~> status[s] # "open"
=============================================================================
