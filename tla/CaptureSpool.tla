---------------------------- MODULE CaptureSpool ----------------------------
(***************************************************************************)
(* The capture daemon's durable spool and its processor. A pass lists the  *)
(* pending jobs in the order of their stamps and sends up to batchSize of  *)
(* them: an accepted job is removed, a refused one is quarantined, a local *)
(* transcript error defers that job, any other error ends the pass. Older  *)
(* snapshots of a task's tree are folded into the latest one. An operator  *)
(* may requeue, reissue, recover or resolve quarantined jobs meanwhile.    *)
(***************************************************************************)
EXTENDS Naturals, Sequences, FiniteSets, FiniteSetsExt

CONSTANTS
  J,             \* jobs 1..J, numbered by their stamps
  Kind,          \* "event", "tree" or "transcript"
  Nodes,         \* the decision nodes of a tree job
  Snapshot,      \* what a transcript's snapshot file is named after: its content
  BatchSize,     \* batchSize
  MaxOutages, MaxDeaths, MaxRepairs,   \* bounds: backend outages, deaths, operator commands
  SourcesVanish  \* native transcripts may be moved away by their harness

Jobs == 1..J
ASSUME SpoolAssumption ==
  /\ J \in Nat \ {0} /\ BatchSize \in Nat \ {0}
  /\ {MaxOutages, MaxDeaths, MaxRepairs} \subseteq Nat /\ SourcesVanish \in BOOLEAN
  /\ Kind \in [Jobs -> {"event", "tree", "transcript"}]
  /\ DOMAIN Nodes = Jobs /\ DOMAIN Snapshot = Jobs

Of(k) == {j \in Jobs : Kind[j] = k}

VARIABLES
  queued,      \* jobs the engine enqueued so far
  pending, failed, resolved,   \* the spool's directories
  reissued,    \* failed events whose reissue is pending or was sent
  sent,        \* jobs the backend accepted
  tree,        \* the tree in a tree job's file
  remote,      \* the nodes of the task's tree in the backend
  owned,       \* transcript jobs that name a snapshot file
  snaps,       \* snapshot files
  natives,     \* transcript jobs whose native file is still in place
  refusing,    \* jobs the backend answers with a permanent 4xx
  expired,     \* transcript jobs past their deadline
  list,        \* the rest of the pass: jobs by stamp
  current,     \* the job being worked on, 0 for none, and how far it is
  stage,
  attempted,   \* jobs tried in this pass
  deferred, waited,   \* retryAt; of these, jobs that another pass went by
  outages, deaths, repairs,
  requeued     \* jobs an operator returned to the queue

spoolVars == <<queued, pending, failed, resolved, reissued, sent, tree, remote, owned, snaps>>
worldVars == <<natives, refusing, expired>>
passVars == <<list, current, stage, attempted, deferred, waited>>
bounds == <<outages, deaths, repairs, requeued>>
spoolAll == <<spoolVars, worldVars, passVars, bounds>>

SpoolInit ==
  /\ queued = {} /\ pending = {} /\ failed = {} /\ resolved = {} /\ reissued = {} /\ sent = {}
  /\ tree = Nodes /\ remote = {} /\ owned = {} /\ snaps = {}
  /\ natives = Of("transcript") /\ refusing \in SUBSET Of("event") /\ expired = {}
  /\ list = <<>> /\ current = 0 /\ stage = "idle" /\ attempted = 0 /\ deferred = {} /\ waited = {}
  /\ outages = 0 /\ deaths = 0 /\ repairs = 0 /\ requeued = {}

ByStamp(S) ==
  {l \in [1..Cardinality(S) -> S] :
     /\ \A j \in S : \E i \in 1..Cardinality(S) : l[i] = j
     /\ \A i, k \in 1..Cardinality(S) : i < k => l[i] < l[k]}
Idle == /\ list' = <<>> /\ current' = 0 /\ stage' = "idle" /\ attempted' = 0
Skip == /\ list' = Tail(list) /\ current' = 0 /\ stage' = "pass" /\ UNCHANGED attempted

(* TranscriptSnapshotStore.store: a redacted copy named after its content, so that jobs
   with the same content share one file. *)
StoreSnapshot(j) == owned' = owned \cup {j} /\ snaps' = snaps \cup {Snapshot[j]}

-----------------------------------------------------------------------------
(* The engine enqueues jobs in stamp order; enqueueTranscript stores a snapshot
   unless the native file is missing. *)
Enqueue(j) ==
  /\ j \notin queued /\ \A i \in 1..(j - 1) : i \in queued
  /\ queued' = queued \cup {j} /\ pending' = pending \cup {j}
  /\ IF j \in natives
       THEN StoreSnapshot(j)
       ELSE UNCHANGED <<owned, snaps>>
  /\ UNCHANGED <<failed, resolved, reissued, sent, tree, remote, worldVars, passVars, bounds>>

(* processPending: entries. *)
StartPass ==
  /\ stage = "idle" /\ pending \ deferred # {}
  /\ list' \in ByStamp(pending) /\ stage' = "pass" /\ attempted' = 0 /\ current' = 0
  /\ waited' = deferred /\ UNCHANGED <<spoolVars, worldVars, deferred, bounds>>

EndPass ==
  /\ stage = "pass" /\ (list = <<>> \/ attempted >= BatchSize)
  /\ Idle /\ UNCHANGED <<spoolVars, worldVars, deferred, waited, bounds>>

LatestTree(j) == Max({i \in {list[n] : n \in DOMAIN list} : Kind[i] = "tree"})
More == stage = "pass" /\ list # <<>> /\ attempted < BatchSize

(* A job that waits for its retry, or whose file is gone, is passed over. *)
PassOver ==
  /\ More /\ (Head(list) \in deferred \/ Head(list) \notin pending)
  /\ Skip /\ UNCHANGED <<spoolVars, worldVars, deferred, waited, bounds>>

Ready == More /\ Head(list) \in pending \ deferred

(* The tree is folded into the latest one's file, then its own file is removed. *)
Coalesce ==
  /\ Ready /\ Kind[Head(list)] = "tree" /\ LatestTree(Head(list)) # Head(list)
  /\ tree' = [tree EXCEPT ![LatestTree(Head(list))] = @ \cup tree[Head(list)]]
  /\ current' = Head(list) /\ stage' = "merged" /\ UNCHANGED <<list, attempted>>
  /\ UNCHANGED <<queued, pending, failed, resolved, reissued, sent, remote, owned, snaps,
                 worldVars, deferred, waited, bounds>>

Coalesced ==
  /\ stage = "merged" /\ pending' = pending \ {current}
  /\ Skip
  /\ UNCHANGED <<queued, failed, resolved, reissued, sent, tree, remote, owned, snaps,
                 worldVars, deferred, waited, bounds>>

(* An attempt; a transcript without a snapshot gets one first. *)
Attempt ==
  /\ Ready /\ (Kind[Head(list)] = "tree" => LatestTree(Head(list)) = Head(list))
  /\ current' = Head(list) /\ stage' = "deliver" /\ attempted' = attempted + 1
  /\ IF Head(list) \in natives /\ Head(list) \notin owned
       THEN StoreSnapshot(Head(list))
       ELSE UNCHANGED <<owned, snaps>>
  /\ UNCHANGED <<queued, pending, failed, resolved, reissued, sent, tree, remote, worldVars,
                 list, deferred, waited, bounds>>

Readable(j) == Kind[j] # "transcript" \/ (j \in owned /\ Snapshot[j] \in snaps)

(* The backend accepts the job; a tree is merged with the one it has. *)
Accepted ==
  /\ stage = "deliver" /\ Readable(current) /\ current \notin refusing
  /\ sent' = sent \cup {current}
  /\ remote' = IF Kind[current] = "tree" THEN remote \cup tree[current] ELSE remote
  /\ stage' = "accepted"
  /\ UNCHANGED <<queued, pending, failed, resolved, reissued, tree, owned, snaps, worldVars,
                 list, current, attempted, deferred, waited, bounds>>

(* snapshots.complete before spool.complete. *)
DropSnapshot ==
  /\ stage = "accepted" /\ Kind[current] = "transcript"
  /\ snaps' = snaps \ {Snapshot[current]} /\ stage' = "dropped"
  /\ UNCHANGED <<queued, pending, failed, resolved, reissued, sent, tree, remote, owned,
                 worldVars, list, current, attempted, deferred, waited, bounds>>

CompleteJob ==
  /\ current # 0 /\ stage = (IF Kind[current] = "transcript" THEN "dropped" ELSE "accepted")
  /\ pending' = pending \ {current} /\ Skip
  /\ UNCHANGED <<queued, failed, resolved, reissued, sent, tree, remote, owned, snaps,
                 worldVars, deferred, waited, bounds>>

(* A permanent error, or an error past a transcript's deadline: reject. *)
Quarantine ==
  /\ stage = "deliver"
  /\ \/ current \in refusing
     \/ current \in expired /\ (~Readable(current) \/ outages < MaxOutages)
  /\ pending' = pending \ {current} /\ failed' = failed \cup {current} /\ Skip
  /\ UNCHANGED <<queued, resolved, reissued, sent, tree, remote, owned, snaps, worldVars,
                 deferred, waited, bounds>>

(* The transcript is missing: this job waits, the others go on. *)
Defer ==
  /\ stage = "deliver" /\ ~Readable(current) /\ current \notin expired
  /\ deferred' = deferred \cup {current} /\ Skip
  /\ UNCHANGED <<spoolVars, worldVars, waited, bounds>>

(* The delay, 5 s, is longer than the timer's interval, 500 ms: another pass
   comes first, if it has something to do. *)
RetryDue(j) ==
  /\ stage = "idle" /\ j \in deferred /\ (j \in waited \/ pending \subseteq deferred)
  /\ deferred' = deferred \ {j} /\ waited' = waited \ {j}
  /\ UNCHANGED <<spoolVars, worldVars, list, current, stage, attempted, bounds>>

(* Mutant: the pass goes on after an error. *)
OutageSkips ==
  /\ stage = "deliver" /\ current \notin expired /\ outages < MaxOutages /\ outages' = outages + 1
  /\ Skip /\ UNCHANGED <<spoolVars, worldVars, deferred, waited, deaths, repairs, requeued>>

(* Any other error: the pass ends, so that the order is kept. *)
Outage ==
  /\ stage = "deliver" /\ current \notin expired /\ outages < MaxOutages /\ outages' = outages + 1
  /\ Idle /\ UNCHANGED <<spoolVars, worldVars, deferred, waited, deaths, repairs, requeued>>

ProcessorDies ==
  /\ stage # "idle" /\ deaths < MaxDeaths /\ deaths' = deaths + 1
  /\ Idle /\ deferred' = {} /\ waited' = {} /\ UNCHANGED <<spoolVars, worldVars, outages, repairs, requeued>>

-----------------------------------------------------------------------------
Repair(S) ==
  /\ repairs < MaxRepairs /\ repairs' = repairs + 1 /\ requeued' = requeued \cup S
  /\ UNCHANGED <<passVars, outages, deaths>>

(* The reason of the refusals is corrected. *)
Fix ==
  /\ refusing # {} /\ failed # {} /\ refusing' = {} /\ Repair({})
  /\ UNCHANGED <<spoolVars, natives, expired>>

(* retryFailed: the job's file is renamed back. *)
RetryFailed(j) ==
  /\ j \in failed \ pending /\ failed' = failed \ {j} /\ pending' = pending \cup {j} /\ Repair({j})
  /\ UNCHANGED <<queued, resolved, reissued, sent, tree, remote, owned, snaps, worldVars>>

(* rebase: the reissue under a new id is written, then the failed job is removed;
   the command may die in between. *)
Reissue(j) ==
  /\ j \in failed /\ Kind[j] = "event" /\ Repair({})
  /\ reissued' = reissued \cup {j} /\ failed' \in {failed, failed \ {j}}
  /\ UNCHANGED <<queued, pending, resolved, sent, tree, remote, owned, snaps, worldVars>>

(* recoverFailedTranscripts: requeued with a new deadline and a snapshot. *)
RecoverTranscript(j) ==
  /\ j \in failed \ pending /\ Kind[j] = "transcript" /\ (Readable(j) \/ j \in natives) /\ Repair({})
  /\ pending' = pending \cup {j} /\ failed' = failed \ {j} /\ expired' = expired \ {j}
  /\ StoreSnapshot(j)
  /\ UNCHANGED <<queued, resolved, reissued, sent, tree, remote, natives, refusing>>

ResolveFailed(j) ==
  /\ j \in failed \ resolved /\ failed' = failed \ {j} /\ resolved' = resolved \cup {j} /\ Repair({})
  /\ UNCHANGED <<queued, pending, reissued, sent, tree, remote, owned, snaps, worldVars>>

(* The world: a harness moves a transcript away, a deadline passes. *)
Vanish(j) ==
  /\ SourcesVanish /\ j \in natives /\ natives' = natives \ {j}
  /\ UNCHANGED <<spoolVars, refusing, expired, passVars, bounds>>
Deadline(j) ==
  /\ Kind[j] = "transcript" /\ j \in pending \ expired /\ expired' = expired \cup {j}
  /\ UNCHANGED <<spoolVars, natives, refusing, passVars, bounds>>

-----------------------------------------------------------------------------
Processor ==
  \/ StartPass \/ EndPass \/ PassOver \/ Coalesce \/ Coalesced \/ Attempt \/ Accepted
  \/ DropSnapshot \/ CompleteJob \/ Quarantine \/ Defer

SpoolNext ==
  \/ Processor \/ Outage \/ ProcessorDies \/ Fix
  \/ \E j \in Jobs : \/ Enqueue(j) \/ RetryDue(j) \/ RetryFailed(j) \/ Reissue(j)
                     \/ RecoverTranscript(j) \/ ResolveFailed(j) \/ Vanish(j) \/ Deadline(j)

SpoolSpec == SpoolInit /\ [][SpoolNext]_spoolAll

(* The processor's timer fires, and the time of a retry comes. *)
FairSpool == SpoolSpec /\ WF_spoolAll(Processor) /\ \A j \in Jobs : WF_spoolAll(RetryDue(j))

-----------------------------------------------------------------------------
(* No job is lost: it is pending, quarantined, resolved or accepted, or was
   reissued; and the nodes of a tree job that was folded into another are in a
   file of the spool or in the backend (replacePending, complete, reject,
   retryFailed). *)
JobsAccounted ==
  /\ queued \ Of("tree") \subseteq pending \cup failed \cup resolved \cup sent \cup reissued
  /\ \A j \in queued \cap Of("tree") :
       Nodes[j] \subseteq remote \cup UNION {tree[i] : i \in (pending \cup failed \cup resolved) \cap Of("tree")}

(* "Transient failures retain ordering": when the backend accepts an event, no
   earlier event is pending, except one that the operator requeued. *)
EventsInOrder ==
  [][\A j \in Of("event") : j \in sent' \ sent =>
       \A i \in Of("event") : i < j /\ i \in pending => i \in requeued]_spoolAll

(* A snapshot that a queued transcript job names stays until the job was accepted
   (enqueueTranscript, TranscriptSnapshotStore.complete, recoverFailedTranscripts). *)
OwnedSnapshotKept ==
  \A j \in (pending \cap owned) \ sent : Snapshot[j] \in snaps

(* No job nor a node of a tree is lost, events are accepted in order, and a snapshot
   stays for the job that needs it, unless another job of the same content shares it
   (delivery.ts, storage.ts). *)
SpoolKept == [](JobsAccounted /\ OwnedSnapshotKept) /\ EventsInOrder

(* A transcript that stays missing does not keep the other jobs in the spool. *)
OthersDelivered ==
  \A j \in Of("event") \cup Of("tree") : j \in queued ~> j \notin pending

=============================================================================
