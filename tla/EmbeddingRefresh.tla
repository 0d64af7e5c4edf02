-------------------------- MODULE EmbeddingRefresh --------------------------
(***************************************************************************)
(* The vector index of memories (packages/fold-postgres/src/embeddings.ts). *)
(* A ranking asks for documents; what the index lacks is queued in the      *)
(* process, embedded in batches by a provider and written to the index.     *)
(* Plans, a pump, rankings, repairs and close interleave at their awaits;   *)
(* provider calls share a few slots, which a call that was given up keeps   *)
(* until it settles.                                                        *)
(*                                                                          *)
(* A document is one text of a memory: a revision has another text when,    *)
(* say, an entity is renamed.  The queue is a set: the code works through   *)
(* it in the order of insertion, the model in any order.                    *)
(***************************************************************************)
EXTENDS Integers, FiniteSets, FiniteSetsExt, FiniteSetTheorems, TLAPS

CONSTANTS
  Documents,        \* [tenant, memory, revision, text, bytes]
  Requests,         \* the sets of documents rankings ask for, each of one tenant
  Calls,            \* slots for calls of the provider
  MaxJobs, MaxBytes, MaxDocument,   \* 4096 jobs, 8 MiB, 256 KiB
  MaxPlans, BatchSize, MaxAttempts, \* 8, 64, 3
  Nothing

Tenants == {d.tenant : d \in Documents}
MemoryIds == {d.memory : d \in Documents}
TenantOf(r) == CHOOSE t \in Tenants : \A d \in r : d.tenant = t

RefreshAssumption ==
  /\ IsFiniteSet(Documents)
  /\ \A d \in Documents : d.revision \in Nat /\ d.bytes \in Nat
  /\ Requests \subseteq SUBSET Documents
  /\ \A r \in Requests : r # {} /\ \A d, e \in r : d.tenant = e.tenant /\ (d.memory = e.memory => d = e)
  /\ {MaxJobs, MaxBytes, MaxDocument, MaxPlans} \subseteq Nat
  /\ {BatchSize, MaxAttempts} \subseteq Nat \ {0}
  /\ Nothing \notin Calls

VARIABLES
  jobs,        \* refreshJobs: the queued documents
  attempts,    \* of each queued document, 0 of others
  waiting,     \* queued documents whose nextAttemptAt is still to come
  running,     \* queued documents of the pump's batch
  bytes,       \* refreshBytes
  plans,       \* refreshPlans of each tenant: Nothing, or [documents, rows]; rows is Nothing until read
  timer,       \* refreshTimer is set
  pump,        \* refreshPump: idle, at the loop's head, waiting for a call or writing
  call,        \* the pump's call
  work,        \* providerWork: calls that did not settle
  asking,      \* of these, calls a ranking waits for
  index,       \* the row of each memory: [revision, text], revision -1 without a row
  phase,       \* "open", "closing" or "closed"
  queued, discarded   \* history: documents that were ever queued, and discarded by an operator

queueVars == <<jobs, attempts, waiting, running, bytes>>
pumpVars == <<pump, call>>
callVars == <<work, asking>>
history == <<queued, discarded>>
vars == <<queueVars, plans, timer, pumpVars, callVars, index, phase, history>>

NoRow == [revision |-> -1, text |-> Nothing]
Init ==
  /\ jobs = {} /\ attempts = [d \in Documents |-> 0] /\ waiting = {} /\ running = {} /\ bytes = 0
  /\ plans = [t \in Tenants |-> Nothing] /\ timer = FALSE /\ pump = "idle" /\ call = Nothing
  /\ work = {} /\ asking = {} /\ index = [m \in MemoryIds |-> NoRow] /\ phase = "open"
  /\ queued = {} /\ discarded = {}

-----------------------------------------------------------------------------
SumBytes(S) == MapThenSumSet(LAMBDA d : d.bytes, S)
Pending == {d \in jobs \ running : attempts[d] < MaxAttempts}
Room == Calls \ work # {}

(* Mutant: a pump that ends does not look for jobs that came meanwhile. *)
NoReschedule == UNCHANGED timer

(* scheduleRefresh, at the end of a step. *)
ScheduleRefresh ==
  timer' = (timer \/ (phase' = "open" /\ pump' = "idle" /\ Room' /\ Pending' # {}))

(* Documents leave the queue. *)
Dequeue(S) ==
  /\ jobs' = jobs \ S /\ bytes' = bytes - SumBytes(S) /\ waiting' = waiting \ S
  /\ running' = running \ S
  /\ attempts' = [d \in Documents |-> IF d \in S THEN 0 ELSE attempts[d]]

-----------------------------------------------------------------------------
(* enqueueDocuments: a plan reads the rows of the documents, then queues those
   that the index lacks, each that still fits, in the order of the request. *)
EnqueueDocuments(r) ==
  /\ phase = "open" /\ plans[TenantOf(r)] = Nothing
  /\ Cardinality({t \in Tenants : plans[t] # Nothing}) < MaxPlans
  /\ plans' = [plans EXCEPT ![TenantOf(r)] = [documents |-> r, rows |-> Nothing]]
  /\ UNCHANGED <<queueVars, timer, pumpVars, callVars, index, phase, history>>

Planned(t) == plans[t] # Nothing
Read(t) == Planned(t) /\ plans[t].rows # Nothing

PlanReads(t) ==
  /\ Planned(t) /\ ~Read(t)
  /\ plans' = [plans EXCEPT ![t].rows = index]
  /\ UNCHANGED <<queueVars, timer, pumpVars, callVars, index, phase, history>>

(* The plan's query fails, or is refused by a closed ranker. *)
PlanFails(t) ==
  /\ Planned(t) /\ ~Read(t)
  /\ plans' = [plans EXCEPT ![t] = Nothing]
  /\ UNCHANGED <<queueVars, timer, pumpVars, callVars, index, phase, history>>

Holds(row, d) == row.revision = d.revision /\ row.text = d.text
Lacking(t) ==
  {d \in plans[t].documents :
     ~Holds(plans[t].rows[d.memory], d) /\ d \notin jobs /\ d.bytes <= MaxDocument}
Fits(S) == Cardinality(jobs \cup S) <= MaxJobs /\ bytes + SumBytes(S) <= MaxBytes

PlanQueues(t) ==
  /\ Read(t) /\ phase = "open"
  /\ plans' = [plans EXCEPT ![t] = Nothing]
  /\ \E S \in SUBSET Lacking(t) :
       /\ Fits(S) /\ \A d \in Lacking(t) \ S : ~Fits(S \cup {d})
       /\ jobs' = jobs \cup S /\ bytes' = bytes + SumBytes(S) /\ queued' = queued \cup S
  /\ UNCHANGED <<attempts, waiting, running, pumpVars, callVars, index, phase, discarded>>
  /\ ScheduleRefresh

PlanClosed(t) ==
  /\ Read(t) /\ phase # "open"
  /\ plans' = [plans EXCEPT ![t] = Nothing]
  /\ UNCHANGED <<queueVars, timer, pumpVars, callVars, index, phase, history>>

-----------------------------------------------------------------------------
(* runRefresh: the pump starts with a timer, or for an explicit refresh. *)
TimerFires ==
  /\ timer /\ timer' = FALSE
  /\ pump' = IF pump = "idle" THEN "head" ELSE pump
  /\ UNCHANGED <<queueVars, plans, call, callVars, index, phase, history>>

Refresh ==
  /\ pump = "idle" /\ phase = "open" /\ pump' = "head"
  /\ UNCHANGED <<queueVars, plans, timer, call, callVars, index, phase, history>>

Due(t) == {d \in Pending \ waiting : d.tenant = t}
SomeDue == \E t \in Tenants : Due(t) # {}

(* A batch is taken and its call begins, before anything else can run. *)
Full(batch, due) == batch # {} /\ (batch = due \/ Cardinality(batch) = BatchSize)
StartBatch ==
  /\ pump = "head" /\ phase = "open"
  /\ \E c \in Calls \ work : work' = work \cup {c} /\ call' = c
  /\ \E t \in Tenants : \E batch \in SUBSET Due(t) :
       /\ Full(batch, Due(t)) /\ Cardinality(batch) <= BatchSize
       /\ running' = batch
  /\ pump' = "call"
  /\ UNCHANGED <<jobs, attempts, waiting, bytes, plans, timer, asking, index, phase, history>>

PumpEnds ==
  /\ pump = "head" /\ (phase # "open" \/ ~Room \/ ~SomeDue)
  /\ pump' = "idle"
  /\ UNCHANGED <<queueVars, plans, call, callVars, index, phase, history>>
  /\ ScheduleRefresh

(* The call settles with vectors, in time. *)
Embedded ==
  /\ pump = "call" /\ work' = work \ {call} /\ call' = Nothing
  /\ pump' = IF phase = "open" THEN "write" ELSE "idle"
  /\ UNCHANGED <<queueVars, plans, timer, asking, index, phase, history>>

(* What is left of the batch goes back to the queue, for later. *)
Requeue ==
  /\ running' = {} /\ waiting' = waiting \cup running
  /\ attempts' = [d \in Documents |-> IF d \in running THEN attempts[d] + 1 ELSE attempts[d]]
  /\ UNCHANGED <<jobs, bytes>>

(* The provider refuses, or returns too few vectors. *)
EmbeddingFails ==
  /\ pump = "call" /\ work' = work \ {call} /\ call' = Nothing /\ pump' = "head" /\ Requeue
  /\ UNCHANGED <<plans, timer, asking, index, phase, history>>

(* Its deadline passes, or the ranker is closed; the call goes on. *)
EmbeddingTimesOut ==
  /\ pump = "call" /\ call' = Nothing /\ pump' = "head" /\ Requeue
  /\ UNCHANGED <<plans, timer, callVars, index, phase, history>>

Written(row, d) ==
  IF row.revision <= d.revision THEN [revision |-> d.revision, text |-> d.text] ELSE row

(* One document of the batch after the other is written and leaves the queue. *)
WriteRow(d) ==
  /\ pump = "write" /\ d \in running
  /\ index' = [index EXCEPT ![d.memory] = Written(@, d)]
  /\ Dequeue({d})
  /\ pump' = IF running = {d} THEN "head" ELSE "write"
  /\ UNCHANGED <<plans, timer, call, callVars, phase, history>>

WriteFails ==
  /\ pump = "write" /\ pump' = "head" /\ Requeue
  /\ UNCHANGED <<plans, timer, call, callVars, index, phase, history>>

WriteClosed ==
  /\ pump = "write" /\ phase # "open" /\ pump' = "idle"
  /\ UNCHANGED <<queueVars, plans, timer, call, callVars, index, phase, history>>

(* nextAttemptAt is reached. *)
Elapse(d) ==
  /\ d \in waiting /\ waiting' = waiting \ {d}
  /\ UNCHANGED <<jobs, attempts, running, bytes, plans, timer, pumpVars, callVars, index, phase, history>>

-----------------------------------------------------------------------------
(* rankWithMetadata embeds its query; without a free slot it ranks by words. *)
Rank ==
  /\ phase = "open"
  /\ \E c \in Calls \ work : work' = work \cup {c} /\ asking' = asking \cup {c}
  /\ UNCHANGED <<queueVars, plans, timer, pumpVars, index, phase, history>>

RankGivesUp(c) ==
  /\ c \in asking /\ asking' = asking \ {c}
  /\ UNCHANGED <<queueVars, plans, timer, pumpVars, work, index, phase, history>>

(* A call settles that the pump does not wait for. *)
Settle(c) ==
  /\ c \in work \ {call}
  /\ work' = work \ {c} /\ asking' = asking \ {c}
  /\ UNCHANGED <<queueVars, plans, pumpVars, index, phase, history>>
  /\ ScheduleRefresh

Exhausted == {d \in jobs : attempts[d] >= MaxAttempts}

RepairRetry ==
  /\ Exhausted # {}
  /\ attempts' = [d \in Documents |-> IF d \in Exhausted THEN 0 ELSE attempts[d]]
  /\ waiting' = waiting \ Exhausted
  /\ UNCHANGED <<jobs, running, bytes, plans, pumpVars, callVars, index, phase, history>>
  /\ ScheduleRefresh

RepairDiscard ==
  /\ Exhausted # {} /\ Dequeue(Exhausted) /\ discarded' = discarded \cup Exhausted
  /\ UNCHANGED <<plans, pumpVars, callVars, index, phase, queued>>
  /\ ScheduleRefresh

(* close: calls are given up, then the pump and the plans are awaited. *)
Close ==
  /\ phase = "open" /\ phase' = "closing" /\ timer' = FALSE /\ asking' = {}
  /\ UNCHANGED <<queueVars, plans, pumpVars, work, index, history>>

Closed ==
  /\ phase = "closing" /\ pump = "idle" /\ \A t \in Tenants : plans[t] = Nothing
  /\ phase' = "closed" /\ Dequeue(jobs)
  /\ UNCHANGED <<plans, timer, pumpVars, callVars, index, history>>

-----------------------------------------------------------------------------
Pump == StartBatch \/ PumpEnds \/ Embedded \/ EmbeddingFails \/ EmbeddingTimesOut
          \/ (\E d \in Documents : WriteRow(d)) \/ WriteFails \/ WriteClosed
Plan(t) == PlanReads(t) \/ PlanFails(t) \/ PlanQueues(t) \/ PlanClosed(t)
Calling(c) == RankGivesUp(c) \/ Settle(c)
Operator == Refresh \/ RepairRetry \/ RepairDiscard

Next ==
  \/ \E r \in Requests : EnqueueDocuments(r)
  \/ \E t \in Tenants : Plan(t)
  \/ \E d \in Documents : Elapse(d)
  \/ \E c \in Calls : Calling(c)
  \/ TimerFires \/ Pump \/ Rank \/ Operator \/ Close \/ Closed

Spec == Init /\ [][Next]_vars

-----------------------------------------------------------------------------
(* While jobs wait for an attempt, something will look for them: a timer, the
   pump, or the end of a call when no slot is free.  No document is left marked
   as running when no pump works on it, where no later attempt would take it. *)
NoJobForgotten ==
  phase = "open" =>
    /\ Pending # {} => timer \/ pump # "idle" \/ ~Room
    /\ running # {} => pump \in {"call", "write"}

(* A document leaves the queue only when the index holds it or a later revision,
   or because an operator discarded it or the ranker closed. *)
QueuedKept ==
  phase # "closed" =>
    \A d \in queued \ discarded : d \in jobs \/ index[d.memory].revision >= d.revision

(* The accounted bytes are those of the queue, within its bounds, whatever fails,
   is repaired or closed in the middle of a batch. *)
QueueAccounted ==
  /\ bytes = SumBytes(jobs) /\ bytes <= MaxBytes
  /\ Cardinality(jobs) <= MaxJobs
  /\ phase = "closed" => jobs = {}

(* An old revision that is embedded late, by this pump or after a repair, never
   replaces a newer one. *)
IndexForward == \A m \in MemoryIds : index[m].revision <= index'[m].revision

(* The queue forgets no job, and the index keeps what is newest. *)
RefreshKept == [](NoJobForgotten /\ QueuedKept) /\ [][IndexForward]_vars

(* Every queued document is indexed, or exhausts its attempts. *)
QueueDrains ==
  \A d \in Documents : d \in jobs ~> d \notin jobs \/ attempts[d] >= MaxAttempts

-----------------------------------------------------------------------------
(***************************************************************************)

Texts == {d.text : d \in Documents} \cup {Nothing}
Row == [revision : Int, text : Texts]
Plans == [documents : SUBSET Documents, rows : [MemoryIds -> Row] \cup {Nothing}]

(* What the fields hold. *)
TypeOK ==
  /\ jobs \subseteq Documents /\ waiting \subseteq jobs /\ running \subseteq jobs
  /\ attempts \in [Documents -> Nat]
  /\ timer \in BOOLEAN /\ pump \in {"idle", "head", "call", "write"}
  /\ phase \in {"open", "closing", "closed"}
  /\ index \in [MemoryIds -> Row]
  /\ plans \in [Tenants -> Plans \cup {Nothing}]
  /\ queued \subseteq Documents

(* The pump holds exactly one call while it waits for one, no ranking waits for
   that call, and documents are marked only in its batch, until a close. *)
PumpInv ==
  /\ work \subseteq Calls /\ asking \subseteq work /\ call \notin asking
  /\ IF pump = "call" THEN call \in work ELSE call = Nothing
  /\ pump \in {"idle", "head"} /\ phase = "open" => running = {}

WakeUp == phase = "open" /\ Pending # {} => timer \/ pump # "idle" \/ ~Room
SizeBound == Cardinality(jobs) <= MaxJobs

RefreshInv == TypeOK /\ PumpInv /\ WakeUp /\ QueuedKept /\ SizeBound

-----------------------------------------------------------------------------
LEMMA InitRefreshInv ==
  ASSUME RefreshAssumption, Init
  PROVE  RefreshInv
<1>1. TypeOK
    <2>1. Nothing \in Texts
        BY DEF Texts
    <2>2. NoRow \in Row
        BY <2>1 DEF NoRow, Row
    <2>3. QED
        BY <2>2 DEF Init, TypeOK
<1>2. PumpInv
    BY DEF Init, PumpInv
<1>3. WakeUp /\ QueuedKept
    BY DEF Init, WakeUp, QueuedKept, Pending
<1>4. SizeBound
    BY FS_EmptySet DEF Init, SizeBound, RefreshAssumption
<1>5. QED
    BY <1>1, <1>2, <1>3, <1>4 DEF RefreshInv

(* A queue that loses documents stays within its bound. *)
LEMMA ShrinksWithin ==
  ASSUME RefreshAssumption, RefreshInv, jobs' \subseteq jobs
  PROVE  SizeBound'
<1>1. IsFiniteSet(jobs)
    BY FS_Subset DEF RefreshAssumption, RefreshInv, TypeOK
<1>2. IsFiniteSet(jobs') /\ Cardinality(jobs') <= Cardinality(jobs)
    BY <1>1, FS_Subset
<1>3. Cardinality(jobs) \in Nat /\ Cardinality(jobs') \in Nat
    BY <1>1, <1>2, FS_CardinalityType
<1>4. QED
    BY <1>2, <1>3 DEF RefreshAssumption, RefreshInv, SizeBound

LEMMA NextTypeOK ==
  ASSUME RefreshAssumption, RefreshInv, Next
  PROVE  TypeOK'
<1> USE DEF RefreshInv, TypeOK, history
<1>1. ASSUME NEW r \in Requests, EnqueueDocuments(r) PROVE TypeOK'
    <2>1. [documents |-> r, rows |-> Nothing] \in Plans
        BY DEF RefreshAssumption, Plans
    <2>2. QED
        BY <1>1, <2>1 DEF EnqueueDocuments, queueVars, pumpVars
<1>2. ASSUME NEW t \in Tenants, Plan(t) PROVE TypeOK'
    <2>1. CASE PlanReads(t)
        <3>1. [plans[t] EXCEPT !.rows = index] \in Plans
            BY <2>1 DEF PlanReads, Planned, Plans
        <3>2. QED
            BY <2>1, <3>1 DEF PlanReads, queueVars, pumpVars
    <2>2. CASE PlanFails(t) \/ PlanClosed(t)
        BY <2>2 DEF PlanFails, PlanClosed, queueVars, pumpVars
    <2>3. CASE PlanQueues(t)
        <3>1. PICK S \in SUBSET Lacking(t) : jobs' = jobs \cup S /\ queued' = queued \cup S
            BY <2>3 DEF PlanQueues
        <3>2. plans[t] \in Plans
            BY <2>3 DEF PlanQueues, Read, Planned
        <3>3. S \subseteq Documents
            BY <3>2 DEF Lacking, Plans
        <3>4. QED
            BY <2>3, <3>1, <3>3 DEF PlanQueues, ScheduleRefresh, pumpVars
    <2>4. QED
        BY <1>2, <2>1, <2>2, <2>3 DEF Plan
<1>3. ASSUME NEW d \in Documents, Elapse(d) PROVE TypeOK'
    BY <1>3 DEF Elapse, pumpVars
<1>4. ASSUME NEW c \in Calls, Calling(c) PROVE TypeOK'
    BY <1>4 DEF Calling, RankGivesUp, Settle, ScheduleRefresh, queueVars, pumpVars
<1>5. CASE TimerFires \/ Refresh \/ Rank \/ Close
    BY <1>5 DEF TimerFires, Refresh, Rank, Close, queueVars, pumpVars
<1>6. CASE RepairRetry
    BY <1>6 DEF RepairRetry, Exhausted, ScheduleRefresh, pumpVars
<1>7. CASE RepairDiscard
    BY <1>7 DEF RepairDiscard, Exhausted, Dequeue, ScheduleRefresh, pumpVars
<1>8. CASE Closed
    BY <1>8 DEF Closed, Dequeue, pumpVars
<1>9. CASE Pump
    <2>1. CASE StartBatch
        BY <2>1 DEF StartBatch, Due, Pending
    <2>2. CASE PumpEnds \/ Embedded \/ WriteClosed
        BY <2>2 DEF PumpEnds, Embedded, WriteClosed, ScheduleRefresh, queueVars
    <2>3. CASE EmbeddingFails \/ EmbeddingTimesOut \/ WriteFails
        <3>1. Requeue /\ pump' = "head"
            BY <2>3 DEF EmbeddingFails, EmbeddingTimesOut, WriteFails
        <3>2. attempts' \in [Documents -> Nat] /\ waiting' \subseteq jobs' /\ running' \subseteq jobs'
            BY <3>1 DEF Requeue
        <3>3. QED
            BY <2>3, <3>1, <3>2 DEF Requeue, EmbeddingFails, EmbeddingTimesOut, WriteFails
    <2>4. ASSUME NEW d \in Documents, WriteRow(d) PROVE TypeOK'
        <3>1. d.memory \in MemoryIds /\ d.text \in Texts /\ d.revision \in Int
            BY DEF MemoryIds, Texts, RefreshAssumption
        <3>2. Written(index[d.memory], d) \in Row
            BY <3>1 DEF Written, Row
        <3>3. QED
            BY <2>4, <3>2 DEF WriteRow, Dequeue
    <2>5. QED
        BY <1>9, <2>1, <2>2, <2>3, <2>4 DEF Pump
<1>10. QED
    BY <1>1, <1>2, <1>3, <1>4, <1>5, <1>6, <1>7, <1>8, <1>9 DEF Next, Operator

LEMMA NextPumpInv ==
  ASSUME RefreshAssumption, RefreshInv, Next
  PROVE  PumpInv'
<1> USE DEF RefreshInv, PumpInv
<1> Nothing \notin Calls
    BY DEF RefreshAssumption
<1>1. ASSUME NEW r \in Requests, EnqueueDocuments(r) PROVE PumpInv'
    BY <1>1 DEF EnqueueDocuments, queueVars, pumpVars, callVars
<1>2. ASSUME NEW t \in Tenants, Plan(t) PROVE PumpInv'
    BY <1>2 DEF Plan, PlanReads, PlanFails, PlanQueues, PlanClosed, queueVars, pumpVars, callVars
<1>3. ASSUME NEW d \in Documents, Elapse(d) PROVE PumpInv'
    BY <1>3 DEF Elapse, pumpVars, callVars
<1>4. ASSUME NEW c \in Calls, Calling(c) PROVE PumpInv'
    BY <1>4 DEF Calling, RankGivesUp, Settle, queueVars, pumpVars
<1>5. CASE TimerFires \/ Refresh
    BY <1>5 DEF TimerFires, Refresh, TypeOK, queueVars, callVars
<1>6. CASE Rank \/ Close
    BY <1>6 DEF Rank, Close, queueVars, pumpVars, TypeOK
<1>7. CASE RepairRetry \/ RepairDiscard \/ Closed
    BY <1>7 DEF RepairRetry, RepairDiscard, Closed, Dequeue, pumpVars, callVars
<1>8. CASE StartBatch
    BY <1>8 DEF StartBatch
<1>9. CASE PumpEnds \/ Embedded \/ WriteClosed
    BY <1>9 DEF PumpEnds, Embedded, WriteClosed, queueVars, callVars, TypeOK
<1>10. CASE EmbeddingFails \/ EmbeddingTimesOut \/ WriteFails
    BY <1>10 DEF EmbeddingFails, EmbeddingTimesOut, WriteFails, Requeue, callVars
<1>11. ASSUME NEW d \in Documents, WriteRow(d) PROVE PumpInv'
    BY <1>11 DEF WriteRow, Dequeue, callVars
<1>12. QED
    BY <1>1, <1>2, <1>3, <1>4, <1>5, <1>6, <1>7, <1>8, <1>9, <1>10, <1>11
    DEF Next, Operator, Pump

(* Whenever jobs become pending, a slot becomes free or the pump ends, the step
   itself schedules; no other step can disturb a timer. *)
LEMMA NextWakeUp ==
  ASSUME RefreshAssumption, RefreshInv, Next
  PROVE  WakeUp'
<1> USE DEF RefreshInv, WakeUp
<1>1. ScheduleRefresh => WakeUp'
    BY DEF ScheduleRefresh
<1>2. CASE UNCHANGED <<jobs, running, attempts, timer, pump, work, phase>>
    BY <1>2 DEF Pending, Room
<1>3. ASSUME NEW t \in Tenants, Plan(t) PROVE WakeUp'
    BY <1>1, <1>2, <1>3
    DEF Plan, PlanReads, PlanFails, PlanQueues, PlanClosed, queueVars, pumpVars, callVars
<1>4. ASSUME NEW c \in Calls, Calling(c) PROVE WakeUp'
    BY <1>1, <1>2, <1>4 DEF Calling, RankGivesUp, Settle, queueVars, pumpVars
<1>5. CASE Rank
    BY <1>5 DEF Rank, Room, Pending, queueVars, pumpVars
<1>6. CASE TimerFires \/ Refresh
    BY <1>6 DEF TimerFires, Refresh
<1>7. CASE RepairRetry \/ RepairDiscard
    BY <1>1, <1>7 DEF RepairRetry, RepairDiscard
<1>8. CASE Close \/ Closed
    BY <1>8 DEF Close, Closed
<1>9. CASE Pump
    <2>1. pump' # "idle" \/ phase' # "open" \/ ScheduleRefresh
        BY <1>9 DEF Pump, StartBatch, PumpEnds, Embedded, EmbeddingFails, EmbeddingTimesOut,
                    WriteRow, WriteFails, WriteClosed
    <2>2. QED
        BY <1>1, <2>1
<1>10. ASSUME NEW r \in Requests, EnqueueDocuments(r) PROVE WakeUp'
    BY <1>2, <1>10 DEF EnqueueDocuments, queueVars, pumpVars, callVars
<1>11. ASSUME NEW d \in Documents, Elapse(d) PROVE WakeUp'
    BY <1>2, <1>11 DEF Elapse, pumpVars, callVars
<1>12. QED
    BY <1>3, <1>4, <1>5, <1>6, <1>7, <1>8, <1>9, <1>10, <1>11 DEF Next, Operator

(* A write never takes a revision back. *)
LEMMA WrittenForward ==
  ASSUME RefreshAssumption, NEW row \in Row, NEW d \in Documents
  PROVE  /\ row.revision <= Written(row, d).revision
         /\ d.revision <= Written(row, d).revision
         /\ Written(row, d).revision \in Int
<1>1. row.revision \in Int /\ d.revision \in Int
    BY DEF Row, RefreshAssumption
<1>2. QED
    BY <1>1 DEF Written

LEMMA NextIndexForward ==
  ASSUME RefreshAssumption, RefreshInv, Next
  PROVE  IndexForward
<1> index \in [MemoryIds -> Row]
    BY DEF RefreshInv, TypeOK
<1>1. CASE index' = index
    BY <1>1 DEF IndexForward, Row
<1>2. ASSUME NEW d \in Documents, WriteRow(d) PROVE IndexForward
    <2>1. d.memory \in MemoryIds
        BY DEF MemoryIds
    <2>2. index' = [index EXCEPT ![d.memory] = Written(index[d.memory], d)]
        BY <1>2 DEF WriteRow
    <2>3. index[d.memory].revision <= Written(index[d.memory], d).revision
        BY <2>1, WrittenForward
    <2>4. QED
        BY <2>1, <2>2, <2>3 DEF IndexForward, Row
<1>3. index' = index \/ \E d \in Documents : WriteRow(d)
    BY DEF Next, Operator, Plan, Calling, Pump, EnqueueDocuments, PlanReads, PlanFails, PlanQueues,
           PlanClosed, Elapse, RankGivesUp, Settle, TimerFires, Refresh, Rank, Close, Closed,
           RepairRetry, RepairDiscard, StartBatch, PumpEnds, Embedded, EmbeddingFails,
           EmbeddingTimesOut, WriteFails, WriteClosed
<1>4. QED
    BY <1>1, <1>2, <1>3

(* A document that is queued, or that the index has caught up with, stays so. *)
LEMMA NextQueuedKept ==
  ASSUME RefreshAssumption, RefreshInv, Next
  PROVE  QueuedKept'
<1> IndexForward
    BY NextIndexForward
<1> index \in [MemoryIds -> Row] /\ index' \in [MemoryIds -> Row] /\ queued \subseteq Documents
    BY NextTypeOK DEF RefreshInv, TypeOK
<1> QueuedKept
    BY DEF RefreshInv
<1>1. CASE jobs \subseteq jobs' /\ UNCHANGED <<history, phase>>
    <2>1. SUFFICES ASSUME phase # "closed", NEW d \in queued \ discarded, d \notin jobs
                   PROVE  index'[d.memory].revision >= d.revision
        BY <1>1 DEF QueuedKept, history
    <2>2. d.memory \in MemoryIds /\ d.revision \in Int
        BY DEF MemoryIds, RefreshAssumption
    <2>3. index[d.memory].revision >= d.revision
        BY <2>1 DEF QueuedKept
    <2>4. index[d.memory].revision <= index'[d.memory].revision
        BY <2>2 DEF IndexForward
    <2>5. index[d.memory].revision \in Int /\ index'[d.memory].revision \in Int
        BY <2>2 DEF Row
    <2>6. QED
        BY <2>2, <2>3, <2>4, <2>5
<1>2. ASSUME NEW d \in Documents, WriteRow(d) PROVE QueuedKept'
    <2>1. SUFFICES ASSUME phase # "closed", NEW e \in queued \ discarded, e \notin jobs'
                   PROVE  index'[e.memory].revision >= e.revision
        BY <1>2 DEF QueuedKept, WriteRow, history
    <2>2. e.memory \in MemoryIds /\ d.memory \in MemoryIds /\ e.revision \in Int
        BY DEF MemoryIds, RefreshAssumption
    <2>3. index'[e.memory].revision \in Int /\ index[e.memory].revision \in Int
        BY <2>2 DEF Row
    <2>4. CASE e = d
        <3>1. index'[d.memory] = Written(index[d.memory], d)
            BY <1>2, <2>2 DEF WriteRow
        <3>2. QED
            BY <2>2, <2>3, <2>4, <3>1, WrittenForward
    <2>5. CASE e # d
        <3>1. e \notin jobs
            BY <1>2, <2>1, <2>5 DEF WriteRow, Dequeue
        <3>2. index[e.memory].revision >= e.revision
            BY <2>1, <3>1 DEF QueuedKept
        <3>3. index[e.memory].revision <= index'[e.memory].revision
            BY <2>2 DEF IndexForward
        <3>4. QED
            BY <2>2, <2>3, <3>2, <3>3
    <2>6. QED
        BY <2>4, <2>5
<1>3. ASSUME NEW t \in Tenants, PlanQueues(t) PROVE QueuedKept'
    BY <1>3 DEF PlanQueues, QueuedKept
<1>4. CASE RepairDiscard
    BY <1>4 DEF RepairDiscard, Dequeue, QueuedKept
<1>5. CASE Close \/ Closed
    BY <1>5 DEF Close, Closed, QueuedKept, queueVars, history
<1>6. CASE Requeue /\ UNCHANGED <<phase, history>>
    BY <1>1, <1>6 DEF Requeue
<1>7. \/ jobs = jobs' /\ UNCHANGED <<history, phase>>
      \/ \E d \in Documents : WriteRow(d)
      \/ \E t \in Tenants : PlanQueues(t)
      \/ RepairDiscard \/ Close \/ Closed
      \/ Requeue /\ UNCHANGED <<phase, history>>
    BY DEF Next, Operator, Plan, Calling, Pump, EnqueueDocuments, PlanReads, PlanFails,
           PlanClosed, Elapse, RankGivesUp, Settle, TimerFires, Refresh, Rank,
           RepairRetry, StartBatch, PumpEnds, Embedded, EmbeddingFails,
           EmbeddingTimesOut, WriteFails, WriteClosed, queueVars
<1>8. QED
    BY <1>1, <1>2, <1>3, <1>4, <1>5, <1>6, <1>7

LEMMA NextSizeBound ==
  ASSUME RefreshAssumption, RefreshInv, Next
  PROVE  SizeBound'
<1>1. jobs' \subseteq jobs \/ \E t \in Tenants : PlanQueues(t)
    BY DEF Next, Operator, Plan, Calling, Pump, EnqueueDocuments, PlanReads, PlanFails,
           PlanClosed, Elapse, RankGivesUp, Settle, TimerFires, Refresh, Rank, Close, Closed,
           RepairRetry, RepairDiscard, StartBatch, PumpEnds, Embedded, EmbeddingFails,
           EmbeddingTimesOut, WriteRow, WriteFails, WriteClosed, Requeue, Dequeue, queueVars
<1>2. ASSUME NEW t \in Tenants, PlanQueues(t) PROVE SizeBound'
    BY <1>2 DEF PlanQueues, Fits, SizeBound
<1>3. QED
    BY <1>1, <1>2, ShrinksWithin

-----------------------------------------------------------------------------
LEMMA StutterRefreshInv ==
  ASSUME RefreshInv, UNCHANGED vars
  PROVE  RefreshInv' /\ IndexForward
<1> USE DEF vars, queueVars, pumpVars, callVars, history
<1>1. TypeOK' /\ PumpInv' /\ SizeBound'
    BY DEF RefreshInv, TypeOK, PumpInv, SizeBound
<1>2. WakeUp' /\ QueuedKept'
    BY DEF RefreshInv, WakeUp, Pending, Room, QueuedKept
<1>3. IndexForward
    BY DEF RefreshInv, TypeOK, IndexForward, Row
<1>4. QED
    BY <1>1, <1>2, <1>3 DEF RefreshInv

(* The invariant is inductive. *)
THEOREM RefreshInvHolds == RefreshAssumption => (Spec => []RefreshInv)
<1> SUFFICES ASSUME RefreshAssumption PROVE Spec => []RefreshInv
    OBVIOUS
<1>1. Init => RefreshInv
    BY InitRefreshInv
<1>2. RefreshInv /\ [Next]_vars => RefreshInv'
    BY NextTypeOK, NextPumpInv, NextWakeUp, NextQueuedKept, NextSizeBound, StutterRefreshInv
    DEF RefreshInv
<1>3. QED
    BY <1>1, <1>2, PTL DEF Spec

(* While jobs wait for an attempt something will look for them, and no document
   is left marked in a batch that nothing works on (scheduleRefresh, runRefresh). *)
THEOREM NoJobForgottenHolds == RefreshAssumption => (Spec => []NoJobForgotten)
<1> SUFFICES ASSUME RefreshAssumption PROVE Spec => []NoJobForgotten
    OBVIOUS
<1>1. RefreshInv => NoJobForgotten
    BY DEF RefreshInv, TypeOK, PumpInv, WakeUp, NoJobForgotten
<1>2. QED
    BY <1>1, RefreshInvHolds, PTL

(* A queued document is lost to nothing but a discard or a close. *)
THEOREM QueuedKeptHolds == RefreshAssumption => (Spec => []QueuedKept)
<1> SUFFICES ASSUME RefreshAssumption PROVE Spec => []QueuedKept
    OBVIOUS
<1>1. RefreshInv => QueuedKept
    BY DEF RefreshInv
<1>2. QED
    BY <1>1, RefreshInvHolds, PTL

(* No write takes the row of a memory back to an older revision. *)
THEOREM IndexForwardHolds == RefreshAssumption => (Spec => [][IndexForward]_vars)
<1> SUFFICES ASSUME RefreshAssumption PROVE Spec => [][IndexForward]_vars
    OBVIOUS
<1>1. RefreshInv /\ [Next]_vars => [IndexForward]_vars
    BY NextIndexForward
<1>2. QED
    BY <1>1, RefreshInvHolds, PTL DEF Spec

(* For any documents, requests and limits: the queue of the vector index forgets no
   job, and no row goes back to an older revision (embeddings.ts). *)
THEOREM RefreshKeptHolds == RefreshAssumption => (Spec => RefreshKept)
  BY NoJobForgottenHolds, QueuedKeptHolds, IndexForwardHolds, PTL DEF RefreshKept
=============================================================================
