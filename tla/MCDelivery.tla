----------------------------- MODULE MCDelivery -----------------------------
(***************************************************************************)
(* What reads the event log and what sends to it, for TLC: the event stream *)
(* of the API, the consumer of it, the system projection that follows the   *)
(* log, and the telemetry outboxes that send the other way. An initial      *)
(* state picks a scene: one component with the bounds of that scene. The    *)
(* others then stay as they are, so the state spaces of the scenes add up.  *)
(***************************************************************************)
EXTENDS EventStream, EventConsumer, TelemetryOutbox, TLC

CONSTANTS Scenes

VARIABLES
  scene,
  worldLog, cells, mark, cache, req, advisory

proVars == <<worldLog, cells, mark, cache, req, advisory>>
mcVars == <<scene, vars, consumerVars, outboxVars, proVars>>

-----------------------------------------------------------------------------
(* Streams of two principals in two tenants. *)
Owners == [s \in Streams |-> IF s \in {"s1", "s2"} THEN "p1" ELSE "p2"]
Homes == [s \in Streams |-> IF s \in {"s1", "s4"} THEN "t1" ELSE "t2"]

(* The accounts of the batches, and the same outbox in a browser. *)
Offered == [b \in Batches |-> "alice"]
Tabs == INSTANCE TelemetryOutbox WITH Browser <- TRUE

(* Readers of two processes over changes that do not commute, and one      *)
(* reader over every verb and over merges in both directions.              *)
Verb == INSTANCE SystemProjection WITH
  Lowest <- -1, Highest <- 1, Processes <- {"p1"}, Requests <- {"r1"}, ProcessOf <- [r1 |-> "p1"],
  Bodies <- {}, Times <- {1}, Ids <- {1, 2, 3}, MaxEvents <- 3, PageSize <- 2, lock <- advisory, log <- worldLog
Clamps == {<<Verb!Adjust("n", "regard", 0, 1)>>, <<Verb!Adjust("n", "regard", 1, -2)>>}
Props(c, x) == [p \in {c} |-> x]
Bodied == {
  <<Verb!Create("n", Props("regard", Verb!Num(1)))>>,
  <<Verb!Create("n", Props("name", Verb!Ref("a"))), Verb!Link("edge", "n", "m")>>,
  <<Verb!Destroy("n", Props("regard", Verb!Num(1))), Verb!Merge("n", "m")>>,
  <<Verb!Set("n", "name", Verb!Null, Verb!Ref("b")), Verb!Adjust("n", "regard", 1, 1),
    Verb!Unlink("edge", "n", "m")>>,
  <<Verb!Mark("n", "seen", FALSE), Verb!Transfer("n", "m", Verb!Null, Verb!Ref("n")),
    Verb!Reveal("n", "m", FALSE)>>,
  <<Verb!Unmark("n", "seen", TRUE), Verb!Conceal("n", "m", FALSE)>> }
Merges == {<<Verb!Merge("n", "m")>>, <<Verb!Merge("m", "k")>>, <<Verb!Merge("k", "m")>>}
Processes2 == INSTANCE SystemProjection WITH
  Lowest <- -1, Highest <- 1, Processes <- {"p1", "p2"}, Requests <- {"r1", "r2"},
  ProcessOf <- [r1 |-> "p1", r2 |-> "p2"], Bodies <- Clamps, Times <- {1, 2}, Ids <- {1, 2},
  MaxEvents <- 2, PageSize <- 1, lock <- advisory, log <- worldLog
Verbs == INSTANCE SystemProjection WITH
  Lowest <- -1, Highest <- 1, Processes <- {"p1"}, Requests <- {"r1"}, ProcessOf <- [r1 |-> "p1"],
  Bodies <- Bodied, Times <- {1}, Ids <- {1, 2, 3}, MaxEvents <- 2, PageSize <- 2, lock <- advisory, log <- worldLog
Redirects == INSTANCE SystemProjection WITH
  Lowest <- -1, Highest <- 1, Processes <- {"p1"}, Requests <- {"r1"}, ProcessOf <- [r1 |-> "p1"],
  Bodies <- Merges, Times <- {1}, Ids <- {1, 2, 3}, MaxEvents <- 3, PageSize <- 2, lock <- advisory, log <- worldLog

ASSUME ConsumerAssumption /\ OutboxConstants /\ Tabs!OutboxConstants

-----------------------------------------------------------------------------
MCInit ==
  /\ scene \in Scenes
  /\ Init /\ ConsumerInit /\ OutboxInit
  /\ scene = "consumer" \/ offset = Unset
  /\ scene \in {"node", "tabs"} \/ account = [p \in Procs |-> "alice"]
  /\ IF scene = "processes" THEN Processes2!Init ELSE Verbs!Init

InStream(A) == A /\ UNCHANGED <<scene, consumerVars, outboxVars, proVars>>
InConsumer(A) == A /\ UNCHANGED <<scene, vars, outboxVars, proVars>>
InOutbox(A) == A /\ UNCHANGED <<scene, vars, consumerVars, proVars>>
InProjection(A) == A /\ UNCHANGED <<scene, vars, consumerVars, outboxVars>>

MCNext ==
  \/ scene = "stream" /\ InStream(Next)
  \/ scene = "consumer" /\ InConsumer(ConsumerNext)
  \/ scene = "node" /\ InOutbox(OutboxNext)
  \/ scene = "tabs" /\ InOutbox(Tabs!OutboxNext)
  \/ scene = "processes" /\ InProjection(Processes2!Next)
  \/ scene = "verbs" /\ InProjection(Verbs!Next)
  \/ scene = "redirects" /\ InProjection(Redirects!Next)

(* The fairness of EventStream, EventConsumer and TelemetryOutbox. A behaviour
   stays in its scene, so one formula stands for a condition of each. *)
Stream(A) == scene = "stream" /\ InStream(A)
Consumer(A) == scene = "consumer" /\ InConsumer(A)
Outbox(A, B) == (scene = "node" /\ InOutbox(A)) \/ (scene = "tabs" /\ InOutbox(B))
MCFairness ==
  /\ WF_mcVars(\/ Stream(Open("s1") \/ Refuse("s1")) \/ Consumer(Client)
               \/ Outbox(drain("p1") \/ settle("p1"), Tabs!drainRow("p1") \/ Tabs!settleRow("p1")))
  /\ WF_mcVars(\/ Stream(Rotate("s1")) \/ Consumer(TimerFires)
               \/ Outbox(NoAnswer("p1"), Tabs!NoAnswer("p1")))
  /\ WF_mcVars(Consumer(Poll) \/ Outbox(Identify("p1"), Tabs!Identify("p1")))
  /\ WF_mcVars(Consumer(Start) \/ Outbox(Expire("b1"), Tabs!Expire("b1")))
  /\ WF_mcVars(\/ Consumer(\E m \in commits : ApplyCommit(m))
               \/ Outbox(Expire("b2"), Tabs!Expire("b2")))
  /\ \A b \in {"b1", "b2"} :
       SF_mcVars(proc["p1"].pc = "identified" /\
         Outbox(b \in Claimable("p1") /\ Claim("p1", b),
                b \in Tabs!Claimable("p1") /\ Tabs!Claim("p1", b)))

MCSpec == MCInit /\ [][MCNext]_mcVars
MCFairSpec == MCSpec /\ MCFairness

-----------------------------------------------------------------------------
(* Incremental projection is replay: the saved cells at their checkpoint, and every
   process's cache, are the fold of the reader's events up to there, whatever arrived
   late, however pages cut groups of equal time, and whichever process wrote before. *)
ProjectionExact ==
  /\ scene = "processes" => Processes2!ProjectionExact
  /\ scene = "verbs" => Verbs!ProjectionExact

(* A request answers with at least the events that were stored when it came. *)
AnswersFresh == scene = "processes" => Processes2!AnswersFresh

(* No saved world has a chain of redirects that comes back to its start. *)
NoRedirectCycle == scene = "redirects" => Redirects!NoRedirectCycle

(* The system projection is replay, answers are fresh, redirects end (system-projection.ts). *)
WorldExact == ProjectionExact /\ AnswersFresh /\ NoRedirectCycle

(* Slots come back, the consumer acknowledges every event it wants, and every stored batch
   is delivered, denied or given up unless nobody is signed in as its account. *)
DeliveryProgress ==
  /\ SlotsReturned
  /\ scene = "consumer" => EventuallyAcknowledged
  /\ scene \in {"node", "tabs"} => OutboxDrained
=============================================================================
