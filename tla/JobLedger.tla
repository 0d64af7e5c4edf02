------------------------------ MODULE JobLedger ------------------------------
(***************************************************************************)
(* The memory worker's ledger of jobs: one encrypted file per job, in the  *)
(* directory active/ or in that of its outcome. A change of state writes a *)
(* temporary file, renames it, syncs the directory and, for an outcome,    *)
(* unlinks the active file. Operations go through one queue per process.   *)
(* A process may die or fail a file operation at any step, and the host    *)
(* may go down and undo what was not synced.                               *)
(***************************************************************************)
EXTENDS Naturals, Sequences, FiniteSets

CONSTANTS
  Jobs,        \* job identities (digests of namespace, kind and source)
  Lanes,       \* drain and drainModels: each works on one job at a time
  MaxActive,   \* maxActiveJobs
  MaxQueue,    \* bound: operations waiting in the queue
  MaxFaults    \* bound: crashes and failed file operations

ASSUME LedgerAssumption ==
  /\ IsFiniteSet(Jobs)
  /\ MaxActive \in Nat /\ MaxQueue \in Nat /\ MaxFaults \in Nat
  /\ "none" \notin Jobs

Terminal == {"completed", "excluded", "exhausted"}
ActiveStates == {"pending", "waiting", "retry", "blocked"}
None == "none"

VARIABLES
  active,      \* state recorded in active/<job>.enc, None when there is no file
  done,        \* jobs with a file in the directory of each outcome
  activeDur,   \* active/ as it certainly is after a power loss
  doneDur,     \* the outcome directories as they certainly are after a power loss
  up,          \* the process holds the ledger's lease
  queue,       \* serialize: operations waiting, the first one under way
  phase,       \* progress of the file the first operation is writing
  todo,        \* retryBlocked: jobs still to rewrite
  lane,        \* the job each lane works on, None between jobs
  waiting,     \* lanes that wait for an operation of theirs
  acked,       \* history: jobs whose enqueue returned to its caller
  lost,        \* history: the host has gone down
  faults

vars == <<active, done, activeDur, doneDur, up, queue, phase, todo, lane,
          waiting, acked, lost, faults>>
files == <<active, done, activeDur, doneDur>>

EnqueueOp == [op : {"enqueue"}, job : Jobs]
PutOp == [op : {"put"}, job : Jobs, state : Terminal \cup ActiveStates,
          lane : Lanes, last : BOOLEAN]
RetryOp == [op : {"retry"}]

TypeOK ==
  /\ active \in [Jobs -> ActiveStates \cup {None}]
  /\ activeDur \in [Jobs -> ActiveStates \cup {None}]
  /\ done \in [Terminal -> SUBSET Jobs] /\ doneDur \in [Terminal -> SUBSET Jobs]
  /\ up \in BOOLEAN /\ lost \in BOOLEAN /\ faults \in Nat
  /\ queue \in Seq(EnqueueOp \cup PutOp \cup RetryOp)
  /\ phase \in {"idle", "temp", "renamed", "synced", "unlinked"}
  /\ todo \subseteq Jobs /\ acked \subseteq Jobs
  /\ lane \in [Lanes -> Jobs \cup {None}] /\ waiting \subseteq Lanes

Init ==
  /\ active = [j \in Jobs |-> None] /\ activeDur = active
  /\ done = [t \in Terminal |-> {}] /\ doneDur = done
  /\ up = FALSE /\ queue = <<>> /\ phase = "idle" /\ todo = {}
  /\ lane = [l \in Lanes |-> None] /\ waiting = {} /\ acked = {} /\ lost = FALSE /\ faults = 0

-----------------------------------------------------------------------------
(* get: an outcome is preferred to the active file a crash left behind. *)
Settled(j) == \E t \in Terminal : j \in done[t]
Known(j) == Settled(j) \/ active[j] # None
IsActive(j) == ~Settled(j) /\ active[j] # None

(* The file names in active/, leftovers of settled jobs included. *)
ActiveFiles == {j \in Jobs : active[j] # None}

(* active(): what may be drained, in one of the states given. *)
Listed(states) == {j \in Jobs : IsActive(j) /\ active[j] \in states}

op == Head(queue)

(* What the operation under way writes. *)
writeJob == IF op.op = "retry" THEN CHOOSE j \in todo : TRUE ELSE op.job
writeState == IF op.op = "put" THEN op.state ELSE "pending"

-----------------------------------------------------------------------------
(* open: the lease excludes other processes (see JournalRegistry). *)
Open ==
  /\ ~up /\ up' = TRUE
  /\ UNCHANGED <<files, queue, phase, todo, lane, waiting, acked, lost, faults>>

(* enqueue is called: by the consumer, by reconciliation, or by a job.
   The number of calls at one time is bounded, not the number of calls. *)
CallEnqueue(j) ==
  /\ up /\ Len(queue) < MaxQueue
  /\ \A i \in DOMAIN queue : queue[i].op = "enqueue" => queue[i].job # j
  /\ queue' = Append(queue, [op |-> "enqueue", job |-> j])
  /\ UNCHANGED <<files, up, phase, todo, lane, waiting, acked, lost, faults>>

(* drain, drainModels: a lane starts a job it listed; jobs belong to the lane
   of their kind, so no two lanes hold one job. *)
Take(l, j) ==
  /\ up /\ lane[l] = None
  /\ j \in Listed({"pending", "waiting", "retry"})
  /\ \A k \in Lanes : lane[k] # j
  /\ lane' = [lane EXCEPT ![l] = j]
  /\ UNCHANGED <<files, up, queue, phase, todo, waiting, acked, lost, faults>>

LanePut(l, s, last) ==
  /\ up /\ lane[l] # None /\ l \notin waiting /\ Len(queue) < MaxQueue
  /\ queue' = Append(queue, [op |-> "put", job |-> lane[l], state |-> s,
                             lane |-> l, last |-> last])
  /\ waiting' = waiting \cup {l}
  /\ UNCHANGED <<files, up, phase, todo, lane, acked, lost, faults>>

(* A lane saves progress of its job (a stamp, a model's answer) in the state the
   job has, and waits for the operation. *)
Checkpoint(l) == lane[l] # None /\ active[lane[l]] # None /\ LanePut(l, active[lane[l]], FALSE)

(* A lane completes its job, or failJob puts what became of it. *)
Dispose(l, s) == s # "pending" /\ LanePut(l, s, TRUE)

(* retryBlocked: a command of its own, run while no lane works. *)
CallRetry ==
  /\ up /\ queue = <<>> /\ \A l \in Lanes : lane[l] = None
  /\ Listed({"blocked", "waiting", "retry"}) # {}
  /\ queue' = <<[op |-> "retry"]>>
  /\ UNCHANGED <<files, up, phase, todo, lane, waiting, acked, lost, faults>>

-----------------------------------------------------------------------------
(* The first operation ends; a lane that disposed of its job leaves it. *)
EndOp ==
  /\ queue' = Tail(queue) /\ phase' = "idle" /\ todo' = {}
  /\ waiting' = IF op.op = "put" THEN waiting \ {op.lane} ELSE waiting
  /\ lane' = IF op.op = "put" /\ op.last
             THEN [lane EXCEPT ![op.lane] = None] ELSE lane

Running == up /\ queue # <<>>

(* enqueue finds the job, or the ledger full, and writes nothing. *)
EnqueueKnown ==
  /\ Running /\ phase = "idle" /\ op.op = "enqueue" /\ Known(op.job)
  /\ acked' = acked \cup {op.job}
  /\ EndOp /\ UNCHANGED <<files, up, lost, faults>>

EnqueueRefused ==
  /\ Running /\ phase = "idle" /\ op.op = "enqueue" /\ ~Known(op.job)
  /\ Cardinality(ActiveFiles) >= MaxActive
  /\ EndOp /\ UNCHANGED <<files, up, acked, lost, faults>>

(* The ledger is counted in the turn of the operation that writes. *)
HasRoom == Cardinality(ActiveFiles) < MaxActive

EnqueueWrites ==
  /\ Running /\ phase = "idle" /\ op.op = "enqueue" /\ ~Known(op.job)
  /\ HasRoom
  /\ phase' = "temp"
  /\ UNCHANGED <<files, up, queue, todo, lane, waiting, acked, lost, faults>>

(* putInternal: a settled job is left as it is. *)
PutSettled ==
  /\ Running /\ phase = "idle" /\ op.op = "put" /\ Settled(op.job)
  /\ EndOp /\ UNCHANGED <<files, up, acked, lost, faults>>

PutWrites ==
  /\ Running /\ phase = "idle" /\ op.op = "put" /\ ~Settled(op.job)
  /\ phase' = "temp"
  /\ UNCHANGED <<files, up, queue, todo, lane, waiting, acked, lost, faults>>

RetryWrites ==
  /\ Running /\ phase = "idle" /\ op.op = "retry"
  /\ todo' = Listed({"blocked", "waiting", "retry"})
  /\ IF todo' = {} THEN queue' = Tail(queue) /\ UNCHANGED phase
     ELSE phase' = "temp" /\ UNCHANGED queue
  /\ UNCHANGED <<files, up, lane, waiting, acked, lost, faults>>

-----------------------------------------------------------------------------
(* Mutant: an outcome's active file is unlinked before the outcome is renamed. *)
RenameLate ==
  /\ Running /\ phase = "temp" /\ phase' = "renamed"
  /\ active' = [active EXCEPT ![writeJob] =
                  IF writeState \in Terminal THEN None ELSE writeState]
  /\ UNCHANGED <<done, activeDur, doneDur, up, queue, todo, lane, waiting, acked, lost, faults>>

(* The temporary file is renamed over the job's path. *)
Rename ==
  /\ Running /\ phase = "temp" /\ phase' = "renamed"
  /\ IF writeState \in Terminal
     THEN done' = [done EXCEPT ![writeState] = @ \cup {writeJob}] /\ UNCHANGED active
     ELSE active' = [active EXCEPT ![writeJob] = writeState] /\ UNCHANGED done
  /\ UNCHANGED <<activeDur, doneDur, up, queue, todo, lane, waiting, acked, lost, faults>>

(* Mutant: the directory of an outcome is not synced before the unlink. *)
SyncSkipped ==
  /\ Running /\ phase = "renamed"
  /\ IF writeState \in Terminal
     THEN phase' = "synced" /\ UNCHANGED <<activeDur, queue, todo, lane, waiting>>
     ELSE activeDur' = active /\ EndOp
  /\ UNCHANGED <<active, done, doneDur, up, acked, lost, faults>>

(* The directory is synced; for an outcome the active file remains to be removed. *)
Sync ==
  /\ Running /\ phase = "renamed"
  /\ IF writeState \in Terminal
     THEN /\ doneDur' = [doneDur EXCEPT ![writeState] = done[writeState]]
          /\ phase' = "synced" /\ UNCHANGED <<activeDur, queue, todo, lane, waiting, acked>>
     ELSE /\ activeDur' = active /\ UNCHANGED doneDur
          /\ acked' = IF op.op = "enqueue" THEN acked \cup {op.job} ELSE acked
          /\ IF op.op = "retry" /\ todo \ {writeJob} # {}
             THEN /\ todo' = todo \ {writeJob} /\ phase' = "temp"
                  /\ UNCHANGED <<queue, lane, waiting>>
             ELSE EndOp
  /\ UNCHANGED <<active, done, up, lost, faults>>

UnlinkActive ==
  /\ Running /\ phase = "synced" /\ phase' = "unlinked"
  /\ active' = [active EXCEPT ![writeJob] = None]
  /\ UNCHANGED <<done, activeDur, doneDur, up, queue, todo, lane, waiting, acked, lost, faults>>

SyncActive ==
  /\ Running /\ phase = "unlinked"
  /\ activeDur' = active
  /\ EndOp /\ UNCHANGED <<active, done, doneDur, up, acked, lost, faults>>

(* A file operation fails: the caller gets the error, later ones go on. A lane
   turns to failJob, unless it was that put which failed. *)
OperationFails ==
  /\ Running /\ phase # "idle" /\ faults < MaxFaults
  /\ faults' = faults + 1
  /\ queue' = Tail(queue) /\ phase' = "idle" /\ todo' = {}
  /\ waiting' = IF op.op = "put" THEN waiting \ {op.lane} ELSE waiting
  /\ \/ UNCHANGED lane
     \/ op.op = "put" /\ op.last /\ lane' = [lane EXCEPT ![op.lane] = None]
  /\ UNCHANGED <<files, up, acked, lost>>

-----------------------------------------------------------------------------
Stopped ==
  /\ up' = FALSE /\ queue' = <<>> /\ phase' = "idle" /\ todo' = {}
  /\ lane' = [l \in Lanes |-> None] /\ waiting' = {}

(* The process dies, or closes the ledger with an empty queue. *)
Crash ==
  /\ up /\ faults < MaxFaults /\ faults' = faults + 1
  /\ Stopped /\ UNCHANGED <<files, acked, lost>>

Close ==
  /\ up /\ queue = <<>> /\ \A l \in Lanes : lane[l] = None
  /\ Stopped /\ UNCHANGED <<files, acked, lost, faults>>

(* The host goes down: each file is as it was seen last, or as it was synced. *)
HostDown ==
  /\ faults < MaxFaults /\ faults' = faults + 1
  /\ \E kept \in SUBSET Jobs, dirs \in SUBSET Terminal :
       /\ active' = [j \in Jobs |-> IF j \in kept THEN active[j] ELSE activeDur[j]]
       /\ done' = [t \in Terminal |-> IF t \in dirs THEN done[t] ELSE doneDur[t]]
  /\ activeDur' = active' /\ doneDur' = done'
  /\ lost' = TRUE /\ Stopped /\ UNCHANGED acked

Next ==
  \/ Open \/ Close \/ Crash \/ HostDown \/ CallRetry
  \/ \E j \in Jobs : CallEnqueue(j) \/ \E l \in Lanes : Take(l, j)
  \/ \E l \in Lanes : Checkpoint(l) \/ \E s \in Terminal \cup ActiveStates : Dispose(l, s)
  \/ EnqueueKnown \/ EnqueueRefused \/ EnqueueWrites
  \/ PutSettled \/ PutWrites \/ RetryWrites
  \/ Rename \/ Sync \/ UnlinkActive \/ SyncActive \/ OperationFails

Spec == Init /\ [][Next]_vars

-----------------------------------------------------------------------------
(* The ledger never holds more active files than maxActiveJobs: counting and
   writing are one turn of the queue, and a leftover file still counts. (A host
   that goes down may bring back files whose removal was not synced.) *)
ActiveBounded == lost \/ Cardinality(ActiveFiles) <= MaxActive

(* An enqueue that returned is a job the ledger knows as long as the host stays
   up: scheduleEvent acknowledges its event to the transport on the strength of it. *)
AckedKept == lost \/ \A j \in acked : Known(j)

(* What the consumer and the operator rely on while the host stays up. *)
LedgerHolds == ActiveBounded /\ AckedKept

(* get: the directories are read in this order. *)
StatusOf(a, d) ==
  [j \in Jobs |-> IF j \in d["completed"] THEN "completed"
                  ELSE IF j \in d["excluded"] THEN "excluded"
                  ELSE IF j \in d["exhausted"] THEN "exhausted"
                  ELSE IF a[j] # None THEN "active" ELSE "none"]

Seen == INSTANCE JobTable WITH status <- StatusOf(active, done)
Durable == INSTANCE JobTable WITH status <- StatusOf(activeDur, doneDur)

(* As long as the host stays up, the files read as get reads them move as a table
   in which outcomes are final: crashes between rename and unlink, failed file
   operations and late puts of stale copies included. *)
OutcomesFinal == [][lost' \/ Seen!Next]_(StatusOf(active, done))

(* What is synced is such a table whatever happens, so an outcome that a reader
   saw after a restart of the host is never taken back. *)
DurableOutcomesFinal == Durable!Spec
===============================================================================
