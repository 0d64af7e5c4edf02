---------------------------- MODULE MemoryWorker ----------------------------
(***************************************************************************)
(* The memory worker above its ledger (JobTable, which JobLedger           *)
(* implements): the consumer's callback admits the jobs of an event before *)
(* it returns, reconciliation admits jobs for archived runs, and two lanes *)
(* take active jobs, admit what follows from them and settle them. Every   *)
(* admission is refused while the ledger is full. The process may die,     *)
(* close, or be restarted by its service manager.                          *)
(***************************************************************************)
EXTENDS Naturals, FiniteSets

CONSTANTS
  WorkerJobs, Kind, \* job identities and their kinds
  Follows,          \* the jobs a job admits: turns of a run, candidates, halves of a window
  Events, JobsOf,   \* events in delivery order are 1..Events; the jobs each one asks for
  Archive,          \* extract-run jobs reconciliation asks for
  MaxAdmitted,      \* maxActiveJobs
  MaxAttempts,      \* maxModelAttempts
  MaxFailures,      \* bound: jobs that fail or must wait
  MaxWorkerFaults   \* bound: crashes, shutdowns and operator retries

ASSUME WorkerAssumption ==
  /\ IsFiniteSet(WorkerJobs)
  /\ Events \in Nat /\ MaxAdmitted \in Nat /\ MaxAttempts \in Nat \ {0}
  /\ MaxFailures \in Nat /\ MaxWorkerFaults \in Nat
  /\ Kind \in [WorkerJobs -> {"extract-run", "extract-turn", "verify-trajectory", "propose",
                              "cognition-plan", "synthesis", "episode"}]
  /\ Follows \in [WorkerJobs -> SUBSET WorkerJobs]
  /\ JobsOf \in [1..Events -> SUBSET WorkerJobs]
  /\ Archive \subseteq WorkerJobs
  /\ "none" \notin WorkerJobs

SettledStates == {"completed", "excluded", "exhausted"}
OpenStates == {"pending", "waiting", "retry", "blocked"}
WorkerLanes == {"drain", "models"}
NoJob == "none"

VARIABLES
  status,      \* the ledger: the state of each job, "none" before it is admitted
  attempts,    \* attempts recorded with the job
  workerUp,    \* the process runs and holds the ledger
  closing,     \* close was called
  workLane,    \* the job each lane works on
  left,        \* of its follow-up jobs, those not admitted yet
  scheduledTo, \* the last event whose callback returned
  ackedTo,     \* the consumer's acknowledged offset
  failures, workerFaults

workerVars == <<status, attempts, workerUp, closing, workLane, left, scheduledTo, ackedTo,
                failures, workerFaults>>

WorkerInit ==
  /\ status = [j \in WorkerJobs |-> "none"] /\ attempts = [j \in WorkerJobs |-> 0]
  /\ workerUp = FALSE /\ closing = FALSE
  /\ workLane = [l \in WorkerLanes |-> NoJob] /\ left = [l \in WorkerLanes |-> {}]
  /\ scheduledTo = 0 /\ ackedTo = 0 /\ failures = 0 /\ workerFaults = 0

-----------------------------------------------------------------------------
InTable(j) == status[j] # "none"
Active == {j \in WorkerJobs : status[j] \in OpenStates}
Full == Cardinality(Active) >= MaxAdmitted

WithAdmitted(j) == [status EXCEPT ![j] = "pending"]

LaneOf(j) ==
  IF Kind[j] \in {"cognition-plan", "synthesis", "episode"} THEN "models" ELSE "drain"

(* failJob counts an attempt when it retries, and gives model work up after
   maxModelAttempts: a synthesis for good, an episode until an operator retries. *)
Disposed(j, s) ==
  LET tried == attempts[j] + 1 IN
  IF s # "retry" \/ tried < MaxAttempts THEN s
  ELSE CASE Kind[j] = "synthesis" -> "exhausted"
         [] Kind[j] = "episode"   -> "blocked"
         [] OTHER                 -> "retry"

(* Attempts are capped: above maxModelAttempts they only lengthen the delay. *)
Tried(j, s) ==
  IF s = "retry" /\ attempts[j] < MaxAttempts THEN [attempts EXCEPT ![j] = @ + 1] ELSE attempts

LeaveJob(l) == workLane' = [workLane EXCEPT ![l] = NoJob] /\ left' = [left EXCEPT ![l] = {}]

-----------------------------------------------------------------------------
Start ==
  /\ ~workerUp /\ workerUp' = TRUE /\ closing' = FALSE /\ scheduledTo' = ackedTo
  /\ UNCHANGED <<status, attempts, workLane, left, ackedTo, failures, workerFaults>>

(* scheduleEvent admits a job of the next event; while the ledger is full the
   callback pauses and starts over, and what was admitted is known by then. *)
ScheduleJob(j) ==
  /\ workerUp /\ ~closing /\ scheduledTo < Events
  /\ j \in JobsOf[scheduledTo + 1] /\ ~InTable(j) /\ ~Full
  /\ status' = WithAdmitted(j)
  /\ UNCHANGED <<attempts, workerUp, closing, workLane, left, scheduledTo, ackedTo,
                 failures, workerFaults>>

(* Mutant: the callback returns when the first of an event's jobs is admitted. *)
EventScheduledEarly ==
  /\ workerUp /\ scheduledTo < Events
  /\ \E j \in JobsOf[scheduledTo + 1] : InTable(j)
  /\ scheduledTo' = scheduledTo + 1
  /\ UNCHANGED <<attempts, status, workerUp, closing, workLane, left, ackedTo, failures,
                 workerFaults>>

(* The callback returns. *)
EventScheduled ==
  /\ workerUp /\ scheduledTo < Events
  /\ \A j \in JobsOf[scheduledTo + 1] : InTable(j)
  /\ scheduledTo' = scheduledTo + 1
  /\ UNCHANGED <<status, attempts, workerUp, closing, workLane, left, ackedTo, failures,
                 workerFaults>>

AcknowledgeWork ==
  /\ workerUp /\ ackedTo < scheduledTo /\ ackedTo' = scheduledTo
  /\ UNCHANGED <<status, attempts, workerUp, closing, workLane, left, scheduledTo,
                 failures, workerFaults>>

(* reconcile, queueTranscriptBackfill; a full ledger ends the pass. *)
Reconcile(j) ==
  /\ workerUp /\ ~closing /\ j \in Archive /\ ~InTable(j) /\ ~Full
  /\ status' = WithAdmitted(j)
  /\ UNCHANGED <<attempts, workerUp, closing, workLane, left, scheduledTo, ackedTo,
                 failures, workerFaults>>

(* drain, drainModels: blocked jobs are passed over, delays end by themselves. *)
StartJob(l, j) ==
  /\ workerUp /\ ~closing /\ workLane[l] = NoJob /\ LaneOf(j) = l
  /\ status[j] \in OpenStates \ {"blocked"}
  /\ workLane' = [workLane EXCEPT ![l] = j] /\ left' = [left EXCEPT ![l] = Follows[j]]
  /\ UNCHANGED <<status, attempts, workerUp, closing, scheduledTo, ackedTo, failures,
                 workerFaults>>

(* A job admits one that follows from it, or finds it known. *)
AdmitNext(l, d) ==
  /\ workLane[l] # NoJob /\ d \in left[l] /\ (InTable(d) \/ ~Full)
  /\ status' = IF InTable(d) THEN status ELSE WithAdmitted(d)
  /\ left' = [left EXCEPT ![l] = @ \ {d}]
  /\ UNCHANGED <<attempts, workerUp, closing, workLane, scheduledTo, ackedTo, failures,
                 workerFaults>>

(* The ledger is full: the error is one like any other to failJob. *)
AdmitRefused(l, d) ==
  /\ workLane[l] # NoJob /\ d \in left[l] /\ ~InTable(d) /\ Full
  /\ LET s == IF closing THEN "waiting" ELSE "retry" IN
     /\ status' = [status EXCEPT ![workLane[l]] = Disposed(workLane[l], s)]
     /\ attempts' = Tried(workLane[l], s)
  /\ LeaveJob(l)
  /\ UNCHANGED <<workerUp, closing, scheduledTo, ackedTo, failures, workerFaults>>

Complete(l) ==
  /\ workLane[l] # NoJob /\ left[l] = {}
  /\ status' = [status EXCEPT ![workLane[l]] = "completed"]
  /\ LeaveJob(l)
  /\ UNCHANGED <<attempts, workerUp, closing, scheduledTo, ackedTo, failures, workerFaults>>

(* The job cannot go on: evidence or a provider is missing (waiting), refused for
   good (excluded), an inconsistent window (blocked), or an error (retry). *)
FailJob(l, s) ==
  /\ workLane[l] # NoJob /\ failures < MaxFailures /\ failures' = failures + 1
  /\ s = "blocked" => Kind[workLane[l]] = "episode"
  /\ LET t == IF closing /\ s = "retry" THEN "waiting" ELSE s IN
     /\ status' = [status EXCEPT ![workLane[l]] = Disposed(workLane[l], t)]
     /\ attempts' = Tried(workLane[l], t)
  /\ LeaveJob(l)
  /\ UNCHANGED <<workerUp, closing, scheduledTo, ackedTo, workerFaults>>

-----------------------------------------------------------------------------
(* close: lanes end after the job at hand, then the ledger is released. *)
BeginClose ==
  /\ workerUp /\ ~closing /\ closing' = TRUE
  /\ workerFaults < MaxWorkerFaults /\ workerFaults' = workerFaults + 1
  /\ UNCHANGED <<status, attempts, workerUp, workLane, left, scheduledTo, ackedTo,
                 failures>>

FinishClose ==
  /\ workerUp /\ closing /\ \A l \in WorkerLanes : workLane[l] = NoJob
  /\ workerUp' = FALSE
  /\ UNCHANGED <<status, attempts, closing, workLane, left, scheduledTo, ackedTo,
                 failures, workerFaults>>

WorkerCrash ==
  /\ workerUp /\ workerUp' = FALSE
  /\ workerFaults < MaxWorkerFaults /\ workerFaults' = workerFaults + 1
  /\ workLane' = [l \in WorkerLanes |-> NoJob] /\ left' = [l \in WorkerLanes |-> {}]
  /\ UNCHANGED <<status, attempts, closing, scheduledTo, ackedTo, failures>>

(* retry-jobs, which needs the ledger for itself. *)
RetryBlocked ==
  /\ ~workerUp /\ workerFaults < MaxWorkerFaults /\ workerFaults' = workerFaults + 1
  /\ status' = [j \in WorkerJobs |-> IF j \in Active THEN "pending" ELSE status[j]]
  /\ attempts' = [j \in WorkerJobs |->
                    IF j \in Active /\ status[j] # "pending" THEN 0 ELSE attempts[j]]
  /\ UNCHANGED <<workerUp, closing, workLane, left, scheduledTo, ackedTo, failures>>

Intake == (\E j \in WorkerJobs : ScheduleJob(j)) \/ EventScheduled
Reconciling == \E j \in WorkerJobs : Reconcile(j)
Work(l) ==
  \/ \E j \in WorkerJobs : AdmitNext(l, j) \/ AdmitRefused(l, j)
  \/ Complete(l)
TakeUp(l) == \E j \in WorkerJobs : StartJob(l, j)

WorkerNext ==
  \/ Start \/ Intake \/ AcknowledgeWork \/ Reconciling
  \/ \E l \in WorkerLanes : TakeUp(l) \/ Work(l)
                      \/ \E s \in {"waiting", "excluded", "blocked", "retry"} : FailJob(l, s)
  \/ BeginClose \/ FinishClose \/ WorkerCrash \/ RetryBlocked

(* The service is kept alive, the event loop and its timers run, and a lane comes
   to every job it lists: jobs are sorted by the end of their delay. *)
WorkerFairness ==
  /\ WF_workerVars(Start) /\ WF_workerVars(Intake) /\ WF_workerVars(AcknowledgeWork)
  /\ WF_workerVars(Reconciling) /\ WF_workerVars(FinishClose)
  /\ \A l \in WorkerLanes : /\ WF_workerVars(Work(l))
                            /\ \A j \in WorkerJobs : SF_workerVars(StartJob(l, j))

WorkerSpec == WorkerInit /\ [][WorkerNext]_workerVars
WorkerFairSpec == WorkerSpec /\ WorkerFairness

-----------------------------------------------------------------------------
(* Types, and a slow provider never holds up the lane of the extraction. *)
WorkerTypeOK ==
  /\ status \in [WorkerJobs -> OpenStates \cup SettledStates \cup {"none"}]
  /\ attempts \in [WorkerJobs -> Nat]
  /\ workerUp \in BOOLEAN /\ closing \in BOOLEAN
  /\ workLane \in [WorkerLanes -> WorkerJobs \cup {NoJob}]
  /\ left \in [WorkerLanes -> SUBSET WorkerJobs]
  /\ scheduledTo \in 0..Events /\ ackedTo \in 0..Events
  /\ failures \in 0..MaxFailures /\ workerFaults \in 0..MaxWorkerFaults
  /\ \A l \in WorkerLanes : workLane[l] # NoJob => LaneOf(workLane[l]) = l

(* Everything an acknowledged event asked for is in the ledger: the transport
   forgets the event, so nothing else could bring the work back. *)
AckedWork == \A n \in 1..ackedTo : \A j \in JobsOf[n] : InTable(j)

(* A completed job has admitted all that follows from it, although it may have
   been refused, interrupted and started over any number of times. *)
CompletedComplete ==
  \A j \in WorkerJobs : status[j] = "completed" => \A d \in Follows[j] : InTable(d)

(* The work an acknowledged event asked for is in the ledger; what was completed has left
   nothing behind. Intake (worker.ts) acknowledges after admission and completion comes
   last. *)
WorkAdmitted == AckedWork /\ CompletedComplete

(* Work that was admitted is settled, or blocked for the operator. *)
JobsSettle ==
  \A j \in WorkerJobs : InTable(j) ~> (status[j] \in SettledStates \cup {"blocked"})

(* Intake pauses on a full ledger "while durable jobs drain". *)
FullLedgerDrains == Full ~> ~Full
=============================================================================
