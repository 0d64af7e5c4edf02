---------------------------- MODULE WorkerProofs ----------------------------
(***************************************************************************)
(* Proofs about the memory worker: its ledger of jobs (JobLedger), its     *)
(* window scheduler (WindowScheduler) and its lanes (MemoryWorker).        *)
(***************************************************************************)
EXTENDS JobLedger, WindowScheduler, MemoryWorker, FiniteSetTheorems, TLAPS

-----------------------------------------------------------------------------
(***************************************************************************)
(* The job ledger for any set of jobs, any number of lanes, waiting        *)
(* operations and faults: what it knows is never forgotten while the host  *)
(* stays up, and what is synced never takes an outcome back.               *)
(*                                                                         *)
(* Neither is inductive.  What carries them: what the operation under way  *)
(* has done at each phase (Progress), an outcome is in one directory only  *)
(* (OneOutcome), the synced directories lag behind (Lags), and an active   *)
(* file whose removal was not synced is that of a job with a synced        *)
(* outcome (RemovedSettled).                                               *)
(***************************************************************************)

Ops == EnqueueOp \cup PutOp \cup RetryOp

LedgerTypes ==
  /\ active \in [Jobs -> ActiveStates \cup {None}]
  /\ activeDur \in [Jobs -> ActiveStates \cup {None}]
  /\ done \in [Terminal -> SUBSET Jobs]
  /\ doneDur \in [Terminal -> SUBSET Jobs]
  /\ queue \in Seq(Ops)
  /\ phase \in {"idle", "temp", "renamed", "synced", "unlinked"}
  /\ todo \subseteq Jobs
  /\ acked \subseteq Jobs
  /\ lane \in [Lanes -> Jobs \cup {None}]
  /\ waiting \subseteq Lanes

Writing == phase # "idle"
WritesOutcome == op.op = "put" /\ op.state \in Terminal

\* What the operation under way found and has done.
Progress ==
  /\ Writing => queue # <<>>
  /\ Writing /\ op.op = "put" /\ phase = "temp" => ~Settled(op.job)
  /\ phase \in {"renamed", "synced", "unlinked"} /\ WritesOutcome => op.job \in done[op.state]
  /\ phase \in {"synced", "unlinked"} => WritesOutcome /\ op.job \in doneDur[op.state]
  /\ phase = "renamed" /\ op.op = "enqueue" => active[op.job] # None

\* A job has one outcome.
OneOutcome == \A j \in Jobs, s, t \in Terminal : j \in done[s] /\ j \in done[t] => s = t

\* The directories of outcomes are at least what was synced.
Lags == \A t \in Terminal : doneDur[t] \subseteq done[t]

\* Only the active file of a job with a synced outcome is missing and may return.
RemovedSettled ==
  \A j \in Jobs : activeDur[j] # None /\ active[j] = None => \E t \in Terminal : j \in doneDur[t]

LedgerInv == LedgerTypes /\ Progress /\ OneOutcome /\ Lags /\ RemovedSettled

\* An operation that waits or is under way is a record of its kind.
LEMMA OpFacts ==
  ASSUME LedgerTypes, queue # <<>>
  PROVE  /\ op \in Ops
         /\ op.op \in {"enqueue", "put", "retry"}
         /\ op.op \in {"enqueue", "put"} => op.job \in Jobs
         /\ op.op = "put" => op.state \in Terminal \cup ActiveStates
         /\ op.op = "put" => op.lane \in Lanes
<1>1. op \in Ops
  BY DEF LedgerTypes, op
<1> QED
  BY <1>1 DEF Ops, EnqueueOp, PutOp, RetryOp

\* What is waiting behind the operation under way does not matter to it.
LEMMA AppendFacts ==
  ASSUME LedgerTypes, NEW e \in Ops, queue' = Append(queue, e)
  PROVE  /\ queue' \in Seq(Ops) /\ queue' # <<>>
         /\ queue # <<>> => op' = op
  BY DEF LedgerTypes, op

LEMMA TailFacts ==
  ASSUME LedgerTypes, queue # <<>>
  PROVE  Tail(queue) \in Seq(Ops)
  BY DEF LedgerTypes

\* The states of a job are not the absence of its file.
LEMMA StatesApart ==
  /\ None \notin ActiveStates /\ None \notin Terminal
  /\ "pending" \in ActiveStates /\ "pending" \notin Terminal
  /\ ActiveStates \cap Terminal = {}
  BY DEF None, ActiveStates, Terminal

\* The ledger starts without jobs.
LEMMA LedgerInitInv == Init => LedgerInv
  BY DEF Init, LedgerInv, LedgerTypes, Progress, Writing, OneOutcome, Lags, RemovedSettled,
     Terminal, ActiveStates, None, WritesOutcome

-----------------------------------------------------------------------------
(* The steps.                                                              *)

\* A call joins the queue; lanes and acknowledgements are not part of the invariant.
LEMMA CallInv ==
  ASSUME LedgerInv, NEW e \in Ops, queue' = Append(queue, e),
         UNCHANGED <<files, phase, todo, acked>>,
         lane' \in [Lanes -> Jobs \cup {None}], waiting' \subseteq Lanes
  PROVE  LedgerInv'
<1> USE DEF LedgerInv, files
<1>1. LedgerTypes'
  BY AppendFacts DEF LedgerTypes
<1>2. Progress'
  BY AppendFacts DEF Progress, Writing, WritesOutcome, Settled
<1>3. OneOutcome' /\ Lags' /\ RemovedSettled'
  BY DEF OneOutcome, Lags, RemovedSettled
<1> QED
  BY <1>1, <1>2, <1>3

\* The first operation ends, or all do: nothing is under way.
LEMMA RestInv ==
  ASSUME LedgerInv, UNCHANGED files, phase' = "idle", todo' = {}, queue' \in Seq(Ops),
         acked' \subseteq Jobs, lane' \in [Lanes -> Jobs \cup {None}], waiting' \subseteq Lanes
  PROVE  LedgerInv'
<1> USE DEF LedgerInv, files
<1>1. LedgerTypes'
  BY DEF LedgerTypes
<1>2. Progress'
  BY DEF Progress, Writing
<1>3. OneOutcome' /\ Lags' /\ RemovedSettled'
  BY DEF OneOutcome, Lags, RemovedSettled
<1> QED
  BY <1>1, <1>2, <1>3

\* What EndOp leaves.
LEMMA EndOpFacts ==
  ASSUME LedgerTypes, queue # <<>>, EndOp
  PROVE  /\ queue' \in Seq(Ops) /\ phase' = "idle" /\ todo' = {}
         /\ lane' \in [Lanes -> Jobs \cup {None}] /\ waiting' \subseteq Lanes
<1>1. queue' \in Seq(Ops) /\ phase' = "idle" /\ todo' = {}
  BY TailFacts DEF EndOp
<1>2. waiting' \subseteq Lanes
  BY DEF EndOp, LedgerTypes
<1>3. lane' = lane \/ lane' = [lane EXCEPT ![op.lane] = None]
  BY DEF EndOp
<1>4. lane' \in [Lanes -> Jobs \cup {None}]
  BY <1>3 DEF LedgerTypes
<1> QED
  BY <1>1, <1>2, <1>4

\* A process that is gone has nothing under way.
LEMMA StoppedFacts ==
  ASSUME Stopped
  PROVE  /\ queue' \in Seq(Ops) /\ phase' = "idle" /\ todo' = {}
         /\ lane' \in [Lanes -> Jobs \cup {None}] /\ waiting' \subseteq Lanes
  BY DEF Stopped

\* A lane's put is an operation, for the job the lane has.
LEMMA LanePutInv ==
  ASSUME LedgerInv, NEW l \in Lanes, NEW s \in Terminal \cup ActiveStates, NEW last \in BOOLEAN,
         LanePut(l, s, last)
  PROVE  LedgerInv'
<1>1. lane[l] \in Jobs
  BY DEF LanePut, LedgerInv, LedgerTypes
<1> DEFINE e == [op |-> "put", job |-> lane[l], state |-> s, lane |-> l, last |-> last]
<1>2. e \in PutOp
  BY <1>1 DEF PutOp
<1>3. e \in Ops
  BY <1>2 DEF Ops
<1>4. queue' = Append(queue, e) /\ UNCHANGED <<files, phase, todo, acked, lane>>
  BY DEF LanePut, files
<1>5. waiting' \subseteq Lanes /\ lane' \in [Lanes -> Jobs \cup {None}]
  BY <1>4 DEF LanePut, LedgerInv, LedgerTypes
<1> HIDE DEF e
<1> QED
  BY <1>3, <1>4, <1>5, CallInv

\* Calls and lanes.
LEMMA CallsInv ==
  ASSUME LedgerInv,
         \/ Open \/ CallRetry
         \/ \E j \in Jobs : CallEnqueue(j) \/ \E l \in Lanes : Take(l, j)
         \/ \E l \in Lanes : Checkpoint(l) \/ \E s \in Terminal \cup ActiveStates : Dispose(l, s)
  PROVE  LedgerInv'
<1>1. CASE Open
  BY <1>1 DEF Open, files, LedgerInv, LedgerTypes, Progress, Writing, WritesOutcome, op, Settled,
     OneOutcome, Lags, RemovedSettled
<1>2. CASE CallRetry
  <2>1. [op |-> "retry"] \in Ops
    BY DEF Ops, RetryOp
  <2>2. queue' = Append(queue, [op |-> "retry"])
    BY <1>2 DEF CallRetry
  <2>3. UNCHANGED <<files, phase, todo, lane, waiting, acked>>
    BY <1>2 DEF CallRetry, files
  <2> QED
    BY <2>1, <2>2, <2>3, CallInv DEF LedgerInv, LedgerTypes
<1>3. CASE \E j \in Jobs : CallEnqueue(j)
  <2>1. PICK j \in Jobs : CallEnqueue(j)
    BY <1>3
  <2>2. [op |-> "enqueue", job |-> j] \in Ops
    BY DEF Ops, EnqueueOp
  <2>3. queue' = Append(queue, [op |-> "enqueue", job |-> j])
        /\ UNCHANGED <<files, phase, todo, lane, waiting, acked>>
    BY <2>1 DEF CallEnqueue, files
  <2> QED
    BY <2>2, <2>3, CallInv DEF LedgerInv, LedgerTypes
<1>4. CASE \E j \in Jobs, l \in Lanes : Take(l, j)
  <2>1. PICK j \in Jobs, l \in Lanes : Take(l, j)
    BY <1>4
  <2>2. UNCHANGED <<files, queue, phase, todo, waiting, acked>>
    BY <2>1 DEF Take, files
  <2>3. lane' \in [Lanes -> Jobs \cup {None}]
    BY <2>1 DEF Take, LedgerInv, LedgerTypes
  <2> QED
    BY <2>2, <2>3 DEF files, LedgerInv, LedgerTypes, Progress, Writing, WritesOutcome, op, Settled,
       OneOutcome, Lags, RemovedSettled
<1>5. CASE \E l \in Lanes : Checkpoint(l)
  <2>1. PICK l \in Lanes : Checkpoint(l)
    BY <1>5
  <2>2. lane[l] \in Jobs /\ active[lane[l]] \in ActiveStates
    BY <2>1 DEF Checkpoint, LanePut, LedgerInv, LedgerTypes
  <2> QED
    BY <2>1, <2>2, LanePutInv DEF Checkpoint
<1>6. CASE \E l \in Lanes, s \in Terminal \cup ActiveStates : Dispose(l, s)
  BY <1>6, LanePutInv DEF Dispose
<1> QED
  BY <1>1, <1>2, <1>3, <1>4, <1>5, <1>6

\* Operations that write nothing, and the ends of the process.
LEMMA EndsInv ==
  ASSUME LedgerInv,
         EnqueueKnown \/ EnqueueRefused \/ PutSettled \/ SyncActive \/ OperationFails \/ Crash \/ Close
  PROVE  LedgerInv'
<1> USE DEF LedgerInv
<1>1. CASE EnqueueKnown
  <2>1. acked' \subseteq Jobs
    BY <1>1, OpFacts DEF EnqueueKnown, Running, LedgerTypes
  <2> QED
    BY <1>1, <2>1, EndOpFacts, RestInv DEF EnqueueKnown, Running
<1>2. CASE EnqueueRefused \/ PutSettled
  BY <1>2, EndOpFacts, RestInv DEF EnqueueRefused, PutSettled, Running, LedgerTypes
<1>3. CASE SyncActive
  <2>1. queue # <<>> /\ UNCHANGED <<active, done, doneDur, acked>> /\ activeDur' = active /\ EndOp
    BY <1>3 DEF SyncActive, Running
  <2>2. LedgerTypes'
    BY <2>1, EndOpFacts DEF LedgerTypes
  <2> QED
    BY <2>1, <2>2, EndOpFacts DEF Progress, Writing, OneOutcome, Lags, RemovedSettled
<1>4. CASE OperationFails
  <2>1. lane' = lane \/ lane' = [lane EXCEPT ![op.lane] = None]
    BY <1>4 DEF OperationFails
  <2>2. lane' \in [Lanes -> Jobs \cup {None}]
    BY <2>1 DEF LedgerTypes
  <2>3. queue' \in Seq(Ops) /\ phase' = "idle" /\ todo' = {}
    BY <1>4, TailFacts DEF OperationFails, Running
  <2>4. waiting' \subseteq Lanes
    BY <1>4 DEF OperationFails, LedgerTypes
  <2> QED
    BY <1>4, <2>2, <2>3, <2>4, RestInv DEF OperationFails, LedgerTypes
<1>5. CASE Crash \/ Close
  BY <1>5, StoppedFacts, RestInv DEF Crash, Close, LedgerTypes
<1> QED
  BY <1>1, <1>2, <1>3, <1>4, <1>5

\* An operation that finds something to write goes on to its file.
LEMMA WritesInv ==
  ASSUME LedgerInv, EnqueueWrites \/ PutWrites \/ RetryWrites
  PROVE  LedgerInv'
<1> USE DEF LedgerInv, files
<1>1. CASE EnqueueWrites
  BY <1>1 DEF EnqueueWrites, Running, LedgerTypes, Progress, Writing, WritesOutcome, op, Settled,
     OneOutcome, Lags, RemovedSettled
<1>2. CASE PutWrites
  BY <1>2 DEF PutWrites, Running, LedgerTypes, Progress, Writing, WritesOutcome, op, Settled,
     OneOutcome, Lags, RemovedSettled
<1>3. CASE RetryWrites
  <2>1. todo' \subseteq Jobs
    BY <1>3 DEF RetryWrites, Listed
  <2>2. CASE todo' = {}
    <3>1. queue' \in Seq(Ops) /\ phase' = "idle"
      BY <1>3, <2>2, TailFacts DEF RetryWrites, Running
    <3> QED
      BY <1>3, <2>2, <3>1, RestInv DEF RetryWrites, LedgerTypes
  <2>3. CASE todo' # {}
    <3>1. phase' = "temp" /\ UNCHANGED <<files, queue, lane, waiting, acked>> /\ queue # <<>>
          /\ op.op = "retry"
      BY <1>3, <2>3 DEF RetryWrites, Running
    <3> QED
      BY <2>1, <3>1 DEF LedgerTypes, Progress, Writing, WritesOutcome, op, Settled, OneOutcome, Lags,
         RemovedSettled
  <2> QED
    BY <2>2, <2>3
<1> QED
  BY <1>1, <1>2, <1>3

\* Renaming an outcome settles a job that was not settled.
LEMMA RenameInv ==
  ASSUME LedgerInv, Rename
  PROVE  LedgerInv'
<1> USE DEF LedgerInv
<1>0. /\ queue # <<>> /\ phase = "temp" /\ phase' = "renamed"
      /\ UNCHANGED <<activeDur, doneDur, queue, todo, lane, waiting, acked>>
      /\ op' = op
  BY DEF Rename, Running, op
<1>1. CASE WritesOutcome
  <2>1. writeState = op.state /\ writeJob = op.job
    BY <1>1 DEF WritesOutcome, writeState, writeJob
  <2>2. done' = [done EXCEPT ![op.state] = @ \cup {op.job}] /\ active' = active
    BY <1>1, <2>1 DEF Rename, WritesOutcome
  <2>3. op.job \in Jobs /\ op.state \in Terminal
    BY <1>0, <1>1, OpFacts DEF WritesOutcome
  <2>4. \A t \in Terminal : done'[t] = IF t = op.state THEN done[t] \cup {op.job} ELSE done[t]
    BY <2>2 DEF LedgerTypes
  <2>5. LedgerTypes'
    BY <1>0, <2>2, <2>3 DEF LedgerTypes
  <2>6. \A t \in Terminal : op.job \notin done[t]
    BY <1>0, <1>1 DEF Progress, Writing, Settled, WritesOutcome
  <2>7. OneOutcome'
    <3> SUFFICES ASSUME NEW j \in Jobs, NEW s \in Terminal, NEW t \in Terminal,
                        j \in done'[s], j \in done'[t]
                 PROVE  s = t
      BY DEF OneOutcome
    <3>1. CASE j = op.job
      BY <2>4, <2>6, <3>1
    <3>2. CASE j # op.job
      BY <2>4, <3>2 DEF OneOutcome
    <3> QED
      BY <3>1, <3>2
  <2>8. Progress'
    BY <1>0, <1>1, <2>3, <2>4 DEF Progress, Writing, WritesOutcome
  <2>9. Lags' /\ RemovedSettled'
    BY <1>0, <2>2, <2>4 DEF Lags, RemovedSettled
  <2> QED
    BY <2>5, <2>7, <2>8, <2>9
<1>2. CASE ~WritesOutcome
  <2>1. writeState \in ActiveStates
    BY <1>0, <1>2, OpFacts, StatesApart DEF WritesOutcome, writeState
  <2>2. active' = [active EXCEPT ![writeJob] = writeState] /\ done' = done
    BY <2>1, StatesApart DEF Rename
  <2>3. \A j \in Jobs : active'[j] = IF j = writeJob THEN writeState ELSE active[j]
    BY <2>2 DEF LedgerTypes
  <2>4. LedgerTypes'
    BY <1>0, <2>1, <2>2 DEF LedgerTypes
  <2>5. op.op = "enqueue" => writeJob = op.job /\ op.job \in Jobs
    BY <1>0, OpFacts DEF writeJob
  <2>6. Progress'
    BY <1>0, <1>2, <2>1, <2>3, <2>5, StatesApart DEF Progress, Writing, WritesOutcome
  <2>7. OneOutcome' /\ Lags' /\ RemovedSettled'
    BY <1>0, <2>1, <2>2, <2>3, StatesApart DEF OneOutcome, Lags, RemovedSettled
  <2> QED
    BY <2>4, <2>6, <2>7
<1> QED
  BY <1>1, <1>2

\* Syncing a directory makes what was renamed in it certain.
LEMMA SyncInv ==
  ASSUME LedgerInv, Sync
  PROVE  LedgerInv'
<1> USE DEF LedgerInv
<1>0. queue # <<>> /\ phase = "renamed" /\ UNCHANGED <<active, done>>
  BY DEF Sync, Running
<1>1. CASE WritesOutcome
  <2>1. writeState = op.state /\ op.state \in Terminal
    BY <1>1 DEF WritesOutcome, writeState
  <2>2. /\ doneDur' = [doneDur EXCEPT ![op.state] = done[op.state]]
        /\ phase' = "synced" /\ UNCHANGED <<activeDur, queue, todo, lane, waiting, acked>>
    BY <2>1 DEF Sync
  <2>3. op' = op
    BY <2>2 DEF op
  <2>4. \A t \in Terminal : doneDur'[t] = IF t = op.state THEN done[t] ELSE doneDur[t]
    BY <2>2 DEF LedgerTypes
  <2>5. LedgerTypes'
    BY <1>0, <2>1, <2>2 DEF LedgerTypes
  <2>6. Progress'
    BY <1>0, <1>1, <2>1, <2>2, <2>3, <2>4 DEF Progress, Writing, WritesOutcome
  <2>7. OneOutcome' /\ Lags'
    BY <1>0, <2>4 DEF OneOutcome, Lags
  <2>8. RemovedSettled'
    BY <1>0, <2>2, <2>4 DEF RemovedSettled, Lags
  <2> QED
    BY <2>5, <2>6, <2>7, <2>8
<1>2. CASE ~WritesOutcome
  <2>1. writeState \notin Terminal
    BY <1>0, <1>2, OpFacts, StatesApart DEF WritesOutcome, writeState
  <2>2. activeDur' = active /\ UNCHANGED doneDur
    BY <2>1 DEF Sync
  <2>3. acked' = IF op.op = "enqueue" THEN acked \cup {op.job} ELSE acked
    BY <2>1 DEF Sync
  <2>4. acked' \subseteq Jobs
    BY <1>0, <2>3, OpFacts DEF LedgerTypes
  <2>5. OneOutcome' /\ Lags' /\ RemovedSettled'
    BY <1>0, <2>2 DEF OneOutcome, Lags, RemovedSettled
  <2>6. CASE EndOp
    <3>1. LedgerTypes'
      BY <1>0, <2>2, <2>4, <2>6, EndOpFacts DEF LedgerTypes
    <3> QED
      BY <1>0, <2>5, <2>6, <3>1, EndOpFacts DEF Progress, Writing
  <2>7. CASE op.op = "retry" /\ todo' = todo \ {writeJob} /\ phase' = "temp"
             /\ UNCHANGED <<queue, lane, waiting>>
    <3>1. LedgerTypes'
      BY <1>0, <2>2, <2>4, <2>7 DEF LedgerTypes
    <3> QED
      BY <1>0, <2>5, <2>7, <3>1 DEF Progress, Writing, WritesOutcome, op
  <2>8. EndOp \/ (op.op = "retry" /\ todo' = todo \ {writeJob} /\ phase' = "temp"
                  /\ UNCHANGED <<queue, lane, waiting>>)
    BY <2>1 DEF Sync
  <2> QED
    BY <2>6, <2>7, <2>8
<1> QED
  BY <1>1, <1>2

\* Only the active file of a job with a synced outcome is removed.
LEMMA UnlinkInv ==
  ASSUME LedgerInv, UnlinkActive
  PROVE  LedgerInv'
<1> USE DEF LedgerInv
<1>1. /\ queue # <<>> /\ phase = "synced" /\ phase' = "unlinked"
      /\ UNCHANGED <<done, activeDur, doneDur, queue, todo, lane, waiting, acked>>
      /\ active' = [active EXCEPT ![writeJob] = None] /\ op' = op
  BY DEF UnlinkActive, Running, op
<1>2. WritesOutcome /\ op.job \in doneDur[op.state] /\ op.job \in done[op.state]
  BY <1>1 DEF Progress
<1>3. writeJob = op.job /\ op.state \in Terminal
  BY <1>2 DEF writeJob, WritesOutcome
<1>4. LedgerTypes'
  BY <1>1 DEF LedgerTypes
<1>5. \A j \in Jobs : j # op.job => active'[j] = active[j]
  BY <1>1, <1>3 DEF LedgerTypes
<1>6. Progress'
  BY <1>1, <1>2 DEF Progress, Writing, WritesOutcome
<1>7. OneOutcome' /\ Lags'
  BY <1>1 DEF OneOutcome, Lags
<1>8. RemovedSettled'
  BY <1>1, <1>2, <1>3, <1>5 DEF RemovedSettled
<1> QED
  BY <1>4, <1>6, <1>7, <1>8

\* What a host that went down brings back.
LEMMA HostDownFacts ==
  ASSUME LedgerInv, HostDown
  PROVE  /\ \A j \in Jobs : active'[j] \in {active[j], activeDur[j]}
         /\ \A t \in Terminal : doneDur[t] \subseteq done'[t] /\ done'[t] \subseteq done[t]
         /\ active' \in [Jobs -> ActiveStates \cup {None}]
         /\ done' \in [Terminal -> SUBSET Jobs]
         /\ activeDur' = active' /\ doneDur' = done'
         /\ Stopped /\ acked' = acked
<1>1. PICK kept \in SUBSET Jobs, dirs \in SUBSET Terminal :
        /\ active' = [j \in Jobs |-> IF j \in kept THEN active[j] ELSE activeDur[j]]
        /\ done' = [t \in Terminal |-> IF t \in dirs THEN done[t] ELSE doneDur[t]]
  BY DEF HostDown
<1>2. active' \in [Jobs -> ActiveStates \cup {None}] /\ done' \in [Terminal -> SUBSET Jobs]
  BY <1>1 DEF LedgerInv, LedgerTypes
<1>3. \A j \in Jobs : active'[j] \in {active[j], activeDur[j]}
  BY <1>1
<1>4. \A t \in Terminal : doneDur[t] \subseteq done'[t] /\ done'[t] \subseteq done[t]
  BY <1>1 DEF LedgerInv, Lags
<1> QED
  BY <1>2, <1>3, <1>4 DEF HostDown

\* A host that went down leaves what was synced.
LEMMA HostDownInv ==
  ASSUME LedgerInv, HostDown
  PROVE  LedgerInv'
<1>1. LedgerTypes'
  BY HostDownFacts, StoppedFacts DEF LedgerInv, LedgerTypes
<1>2. Progress'
  BY HostDownFacts, StoppedFacts DEF Progress, Writing
<1>3. OneOutcome'
  BY HostDownFacts DEF LedgerInv, OneOutcome
<1>4. Lags' /\ RemovedSettled'
  BY HostDownFacts DEF Lags, RemovedSettled
<1> QED
  BY <1>1, <1>2, <1>3, <1>4 DEF LedgerInv

\* Every step preserves the invariant.
LEMMA LedgerNextInv == LedgerInv /\ [Next]_vars => LedgerInv'
<1> SUFFICES ASSUME LedgerInv, [Next]_vars PROVE LedgerInv'
  OBVIOUS
<1>1. CASE UNCHANGED vars
  BY <1>1 DEF vars, LedgerInv, LedgerTypes, Progress, Writing, WritesOutcome, op, Settled, OneOutcome,
     Lags, RemovedSettled
<1>2. CASE Next
  BY <1>2, CallsInv, EndsInv, WritesInv, RenameInv, SyncInv, UnlinkInv, HostDownInv DEF Next
<1> QED
  BY <1>1, <1>2

\* The ledger's files, queue and lanes keep their types.
THEOREM LedgerInvHolds == Spec => []LedgerInv
<1>1. Init => LedgerInv
  BY LedgerInitInv
<1>2. LedgerInv /\ [Next]_vars => LedgerInv'
  BY LedgerNextInv
<1> QED
  BY <1>1, <1>2, PTL DEF Spec

-----------------------------------------------------------------------------
(***************************************************************************)
(* While the host stays up, nothing the ledger knows is forgotten, and it  *)
(* holds no more active files than it may.  A job that a lane has, that is *)
(* put or rewritten is one the ledger knows (Known), so only enqueue adds  *)
(* a file, and it was counted in the same turn of the queue.               *)
(***************************************************************************)

\* Only jobs that are known are worked on; enqueue has counted.
Admitted ==
  /\ \A l \in Lanes : lane[l] # None => Known(lane[l])
  /\ \A i \in DOMAIN queue : queue[i].op = "put" => Known(queue[i].job)
  /\ \A j \in todo : active[j] # None
  /\ todo # {} <=> Writing /\ op.op = "retry"
  /\ phase = "temp" /\ op.op = "enqueue" => HasRoom

KnownInv == LedgerInv /\ Admitted /\ LedgerHolds

\* What an operation writes is never the last thing known of a job.
LEMMA KnownStays ==
  ASSUME LedgerInv, [Next]_vars, ~HostDown, NEW j \in Jobs, Known(j)
  PROVE  Known(j)'
<1> USE DEF Known, Settled
<1>1. CASE Rename
  <2>1. CASE writeState \in Terminal
    <3>1. active' = active /\ done' = [done EXCEPT ![writeState] = @ \cup {writeJob}]
      BY <1>1, <2>1 DEF Rename
    <3>2. \A t \in Terminal : done[t] \subseteq done'[t]
      BY <3>1 DEF LedgerInv, LedgerTypes
    <3> QED
      BY <3>1, <3>2
  <2>2. CASE writeState \notin Terminal
    <3>1. done' = done /\ active' = [active EXCEPT ![writeJob] = writeState]
      BY <1>1, <2>2 DEF Rename
    <3>2. queue # <<>>
      BY <1>1 DEF Rename, Running
    <3>3. writeState # None
      BY <2>2, <3>2, OpFacts, StatesApart DEF writeState, LedgerInv
    <3> QED
      BY <3>1, <3>3 DEF LedgerInv, LedgerTypes
  <2> QED
    BY <2>1, <2>2
<1>2. CASE UnlinkActive
  <2>1. active' = [active EXCEPT ![writeJob] = None] /\ done' = done /\ phase = "synced"
    BY <1>2 DEF UnlinkActive
  <2>2. writeJob = op.job /\ op.state \in Terminal /\ op.job \in done[op.state]
    BY <2>1 DEF LedgerInv, Progress, WritesOutcome, writeJob
  <2>3. CASE j = op.job
    BY <2>1, <2>2, <2>3
  <2>4. CASE j # op.job
    BY <2>1, <2>2, <2>4 DEF LedgerInv, LedgerTypes
  <2> QED
    BY <2>3, <2>4
<1>3. CASE UNCHANGED <<active, done>>
  BY <1>3
<1>4. Rename \/ UnlinkActive \/ UNCHANGED <<active, done>>
  BY DEF Next, vars, files, Open, Close, Crash, HostDown, CallRetry, CallEnqueue, Take, Checkpoint,
     Dispose, LanePut, EnqueueKnown, EnqueueRefused, EnqueueWrites, PutSettled, PutWrites,
     RetryWrites, Sync, SyncActive, OperationFails
<1> QED
  BY <1>1, <1>2, <1>3, <1>4

\* A lane keeps its job, leaves it, or starts one that it listed.
LEMMA LanesAdmitted ==
  ASSUME KnownInv, [Next]_vars, ~HostDown
  PROVE  (\A l \in Lanes : lane[l] # None => Known(lane[l]))'
<1> USE DEF KnownInv
<1>1. SUFFICES ASSUME NEW l \in Lanes, lane'[l] # None PROVE (Known(lane[l]))'
  OBVIOUS
<1>2. CASE lane'[l] = lane[l]
  <2>1. lane[l] \in Jobs /\ Known(lane[l])
    BY <1>1, <1>2 DEF Admitted, LedgerInv, LedgerTypes
  <2>2. PICK j \in Jobs : j = lane[l] /\ Known(j)
    BY <2>1
  <2>3. Known(j)' /\ lane'[l] = j
    BY <1>2, <2>2, KnownStays
  <2> QED
    BY <2>3 DEF Known, Settled
<1>3. CASE \E k \in Lanes, j \in Jobs : Take(k, j)
  <2>1. PICK k \in Lanes, j \in Jobs : Take(k, j)
    BY <1>3
  <2>2. Known(j) /\ Known(j)'
    BY <2>1 DEF Take, Listed, IsActive, Known, files, Settled
  <2>3. lane'[l] = lane[l] \/ lane'[l] = j
    BY <2>1 DEF Take, LedgerInv, LedgerTypes
  <2>4. CASE lane'[l] = j
    BY <2>2, <2>4 DEF Known, Settled
  <2> QED
    BY <1>2, <2>3, <2>4
<1>4. \/ lane' = lane
      \/ lane' = [lane EXCEPT ![op.lane] = None]
      \/ Stopped
      \/ \E k \in Lanes, j \in Jobs : Take(k, j)
  BY DEF Next, vars, files, Open, Close, Crash, CallRetry, CallEnqueue, Checkpoint,
     Dispose, LanePut, EnqueueKnown, EnqueueRefused, EnqueueWrites, PutSettled, PutWrites,
     RetryWrites, Rename, Sync, UnlinkActive, SyncActive, OperationFails, EndOp
<1>5. lane' = [lane EXCEPT ![op.lane] = None] => lane'[l] = lane[l]
  BY <1>1 DEF LedgerInv, LedgerTypes
<1>6. ~Stopped
  BY <1>1 DEF Stopped
<1> QED
  BY <1>2, <1>3, <1>4, <1>5, <1>6

\* How the queue may change.
LEMMA QueueSteps ==
  ASSUME [Next]_vars
  PROVE  \/ queue' = queue
         \/ queue # <<>> /\ queue' = Tail(queue)
         \/ queue' = <<>>
         \/ \E e \in EnqueueOp \cup RetryOp : queue' = Append(queue, e)
         \/ \E l \in Lanes : \E s, last : LanePut(l, s, last)
<1>1. \A j \in Jobs : [op |-> "enqueue", job |-> j] \in EnqueueOp
  BY DEF EnqueueOp
<1>2. [op |-> "retry"] \in RetryOp
  BY DEF RetryOp
<1>3. CASE \E j \in Jobs : CallEnqueue(j)
  BY <1>1, <1>3 DEF CallEnqueue
<1>4. CASE CallRetry
  BY <1>2, <1>4 DEF CallRetry
<1>5. CASE \E l \in Lanes : Checkpoint(l) \/ \E s \in Terminal \cup ActiveStates : Dispose(l, s)
  <2>1. PICK l \in Lanes : Checkpoint(l) \/ \E s \in Terminal \cup ActiveStates : Dispose(l, s)
    BY <1>5
  <2>2. CASE \E s \in Terminal \cup ActiveStates : Dispose(l, s)
    BY <2>2 DEF Dispose
  <2> QED
    BY <2>1, <2>2 DEF Checkpoint
<1>6. \/ queue' = queue
      \/ queue' = <<>>
      \/ queue # <<>> /\ queue' = Tail(queue)
      \/ CallRetry \/ \E j \in Jobs : CallEnqueue(j)
      \/ \E l \in Lanes : Checkpoint(l) \/ \E s \in Terminal \cup ActiveStates : Dispose(l, s)
  BY DEF Next, vars, Open, Close, Crash, HostDown, Stopped, Take,
     EnqueueKnown, EnqueueRefused, EnqueueWrites, PutSettled, PutWrites,
     RetryWrites, Rename, Sync, UnlinkActive, SyncActive, OperationFails, EndOp, Running
<1> QED
  BY <1>3, <1>4, <1>5, <1>6

\* What waits in the queue to be put is known.
LEMMA PutsAdmitted ==
  ASSUME KnownInv, [Next]_vars, ~HostDown
  PROVE  (\A i \in DOMAIN queue : queue[i].op = "put" => Known(queue[i].job))'
<1> USE DEF KnownInv
<1>0. \A i \in DOMAIN queue : queue[i] \in Ops /\ (queue[i].op = "put" => queue[i].job \in Jobs)
  BY DEF LedgerInv, LedgerTypes, Ops, PutOp, EnqueueOp, RetryOp
<1>1. SUFFICES ASSUME NEW i \in DOMAIN queue', queue'[i].op = "put" PROVE (Known(queue[i].job))'
  OBVIOUS
<1>2. ASSUME NEW k \in DOMAIN queue, queue'[i] = queue[k]
      PROVE  (Known(queue[i].job))'
  <2>1. PICK j \in Jobs : j = queue[k].job /\ Known(j)
    BY <1>0, <1>1, <1>2 DEF Admitted
  <2>2. Known(j)' /\ queue'[i].job = j
    BY <1>2, <2>1, KnownStays
  <2> QED
    BY <2>2 DEF Known, Settled
<1>3. CASE queue' = queue
  BY <1>1, <1>2, <1>3
<1>4. CASE queue # <<>> /\ queue' = Tail(queue)
  <2>1. i + 1 \in DOMAIN queue /\ queue'[i] = queue[i + 1]
    BY <1>1, <1>4 DEF LedgerInv, LedgerTypes
  <2> QED
    BY <1>2, <2>1
<1>5. CASE \E e \in EnqueueOp \cup RetryOp : queue' = Append(queue, e)
  <2>1. PICK e \in EnqueueOp \cup RetryOp : queue' = Append(queue, e)
    BY <1>5
  <2>2. e.op # "put"
    BY DEF EnqueueOp, RetryOp
  <2>3. i \in DOMAIN queue /\ queue'[i] = queue[i]
    BY <1>1, <2>1, <2>2 DEF LedgerInv, LedgerTypes
  <2> QED
    BY <1>2, <2>3
<1>6. CASE \E l \in Lanes : \E s, last : LanePut(l, s, last)
  <2>1. PICK l \in Lanes : \E s, last : LanePut(l, s, last)
    BY <1>6
  <2>6. PICK s, last : LanePut(l, s, last)
    BY <2>1
  <2>2. queue' = Append(queue, [op |-> "put", job |-> lane[l], state |-> s, lane |-> l, last |-> last])
        /\ lane[l] # None
    BY <2>6 DEF LanePut
  <2>3. CASE i \in DOMAIN queue /\ queue'[i] = queue[i]
    BY <1>2, <2>3
  <2>4. CASE queue'[i].job = lane[l]
    <3>1. PICK j \in Jobs : j = lane[l] /\ Known(j)
      BY <2>2 DEF Admitted, LedgerInv, LedgerTypes
    <3>2. Known(j)' /\ queue'[i].job = j
      BY <2>4, <3>1, KnownStays
    <3> QED
      BY <3>2 DEF Known, Settled
  <2>5. (i \in DOMAIN queue /\ queue'[i] = queue[i]) \/ queue'[i].job = lane[l]
    BY <1>1, <2>2 DEF LedgerInv, LedgerTypes
  <2> QED
    BY <2>3, <2>4, <2>5
<1>7. CASE queue' = <<>>
  BY <1>1, <1>7
<1> QED
  BY <1>3, <1>4, <1>5, <1>6, <1>7, QueueSteps

\* retryBlocked rewrites jobs that have an active file, and enqueue writes where it found room.
LEMMA TurnAdmitted ==
  ASSUME KnownInv, [Next]_vars, ~HostDown
  PROVE  /\ \A j \in todo' : active'[j] # None
         /\ (todo # {} <=> Writing /\ op.op = "retry")'
         /\ (phase = "temp" /\ op.op = "enqueue" => HasRoom)'
<1> USE DEF KnownInv
<1>0. Progress /\ LedgerTypes
  BY DEF LedgerInv
<1>1. CASE todo' = {} /\ phase' = "idle"
  BY <1>1 DEF Writing
<1>2. CASE UNCHANGED <<active, todo, phase>> /\ (queue # <<>> => op' = op)
  BY <1>0, <1>2 DEF Admitted, Progress, Writing, HasRoom, ActiveFiles
<1>3. CASE EnqueueWrites \/ PutWrites
  BY <1>3 DEF EnqueueWrites, PutWrites, Running, Admitted, Writing, HasRoom, ActiveFiles, op, files
<1>4. CASE RetryWrites
  BY <1>4 DEF RetryWrites, Running, Admitted, Writing, Listed, IsActive, op, files
<1>5. CASE Rename
  <2>1. /\ queue # <<>> /\ phase = "temp" /\ phase' = "renamed" /\ UNCHANGED <<queue, todo>>
        /\ op' = op
    BY <1>5 DEF Rename, Running, op
  <2>2. \/ active' = active
        \/ active' = [active EXCEPT ![writeJob] = writeState] /\ writeState \notin Terminal
    BY <1>5 DEF Rename
  <2>3. writeState \notin Terminal => writeState # None
    BY <1>0, <2>1, OpFacts, StatesApart DEF writeState
  <2>4. \A j \in todo : active'[j] # None
    BY <1>0, <2>2, <2>3 DEF Admitted, LedgerTypes
  <2> QED
    BY <2>1, <2>4 DEF Admitted, Writing
<1>6. CASE UnlinkActive
  <2>1. /\ queue # <<>> /\ phase = "synced" /\ phase' = "unlinked" /\ UNCHANGED <<queue, todo>>
        /\ op' = op
    BY <1>6 DEF UnlinkActive, Running, op
  <2>2. op.op = "put"
    BY <1>0, <2>1 DEF Progress, WritesOutcome
  <2> QED
    BY <2>1, <2>2 DEF Admitted, Writing
<1>7. CASE Sync
  <2>1. queue # <<>> /\ phase = "renamed" /\ UNCHANGED active
    BY <1>7 DEF Sync, Running
  <2>2. CASE EndOp
    BY <1>1, <2>2 DEF EndOp
  <2>3. CASE op.op = "retry" /\ todo' = todo \ {writeJob} /\ todo' # {} /\ phase' = "temp"
             /\ UNCHANGED queue
    BY <2>1, <2>3 DEF Admitted, Writing, op
  <2>4. CASE WritesOutcome /\ phase' = "synced" /\ UNCHANGED <<queue, todo>>
    BY <2>1, <2>4 DEF Admitted, Writing, op, WritesOutcome
  <2>5. writeState \in Terminal => WritesOutcome
    BY <1>0, <2>1, OpFacts, StatesApart DEF WritesOutcome, writeState
  <2> QED
    BY <1>7, <2>2, <2>3, <2>4, <2>5 DEF Sync
<1>8. CASE \E e \in EnqueueOp \cup RetryOp : queue' = Append(queue, e) /\ UNCHANGED <<active, todo, phase>>
  <2>1. PICK e \in EnqueueOp \cup RetryOp : queue' = Append(queue, e)
    BY <1>8
  <2>2. e \in Ops
    BY DEF Ops
  <2> QED
    BY <1>0, <1>2, <1>8, <2>1, <2>2, AppendFacts
<1>9. CASE \E l \in Lanes : \E s, last : LanePut(l, s, last)
  <2>1. PICK l \in Lanes : \E s, last : LanePut(l, s, last)
    BY <1>9
  <2>3. PICK s, last : LanePut(l, s, last)
    BY <2>1
  <2>2. UNCHANGED <<active, todo, phase>> /\ (queue # <<>> => Head(queue') = Head(queue))
    BY <1>0, <2>3 DEF LanePut, files, LedgerTypes
  <2> QED
    BY <1>2, <2>2 DEF op
<1>10. CASE \/ Open \/ \E j \in Jobs, l \in Lanes : Take(l, j)
            \/ UNCHANGED vars
  BY <1>2, <1>10 DEF Open, Take, vars, files, op
<1>11. CASE CallRetry \/ \E j \in Jobs : CallEnqueue(j)
  <2>1. CASE CallRetry
    <3>1. [op |-> "retry"] \in RetryOp
      BY DEF RetryOp
    <3>2. queue' = Append(queue, [op |-> "retry"]) /\ UNCHANGED <<active, todo, phase>>
      BY <2>1 DEF CallRetry, files
    <3> QED
      BY <1>8, <3>1, <3>2
  <2>2. CASE \E j \in Jobs : CallEnqueue(j)
    <3>1. PICK j \in Jobs : CallEnqueue(j)
      BY <2>2
    <3>2. [op |-> "enqueue", job |-> j] \in EnqueueOp
      BY DEF EnqueueOp
    <3>3. queue' = Append(queue, [op |-> "enqueue", job |-> j]) /\ UNCHANGED <<active, todo, phase>>
      BY <3>1 DEF CallEnqueue, files
    <3> QED
      BY <1>8, <3>2, <3>3
  <2> QED
    BY <1>11, <2>1, <2>2
<1>12. CASE \E l \in Lanes : Checkpoint(l) \/ \E s \in Terminal \cup ActiveStates : Dispose(l, s)
  <2>1. PICK l \in Lanes : Checkpoint(l) \/ \E s \in Terminal \cup ActiveStates : Dispose(l, s)
    BY <1>12
  <2> QED
    BY <1>9, <2>1 DEF Checkpoint, Dispose
<1>13. CASE EnqueueKnown \/ EnqueueRefused \/ PutSettled \/ SyncActive \/ OperationFails \/ Crash \/ Close
  BY <1>1, <1>13 DEF EnqueueKnown, EnqueueRefused, PutSettled, SyncActive, OperationFails, Crash, Close,
     Stopped, EndOp
<1> QED
  BY <1>3, <1>4, <1>5, <1>6, <1>7, <1>10, <1>11, <1>12, <1>13 DEF Next

\* The jobs with an active file are finitely many; one more is counted as one.
LEMMA OneMore ==
  ASSUME NEW j \in Jobs, ActiveFiles' \subseteq ActiveFiles \cup {j}
  PROVE  Cardinality(ActiveFiles') <= Cardinality(ActiveFiles) + 1
         /\ Cardinality(ActiveFiles) \in Nat /\ Cardinality(ActiveFiles') \in Nat
<1>1. IsFiniteSet(ActiveFiles)
  BY LedgerAssumption, FS_Subset DEF ActiveFiles
<1>2. IsFiniteSet(ActiveFiles \cup {j})
      /\ Cardinality(ActiveFiles \cup {j}) <= Cardinality(ActiveFiles) + 1
      /\ Cardinality(ActiveFiles) \in Nat /\ Cardinality(ActiveFiles \cup {j}) \in Nat
  <2>1. Cardinality(ActiveFiles) \in Nat
    BY <1>1, FS_CardinalityType
  <2>2. IsFiniteSet(ActiveFiles \cup {j})
    BY <1>1, FS_AddElement
  <2>3. Cardinality(ActiveFiles \cup {j}) \in {Cardinality(ActiveFiles), Cardinality(ActiveFiles) + 1}
    BY <1>1, FS_AddElement, Zenon
  <2> QED
    BY <2>1, <2>2, <2>3
<1>3. Cardinality(ActiveFiles') \in Nat
      /\ Cardinality(ActiveFiles') <= Cardinality(ActiveFiles \cup {j})
  BY <1>2, FS_Subset, FS_CardinalityType
<1> QED
  BY <1>2, <1>3

LEMMA NoMore ==
  ASSUME ActiveFiles' \subseteq ActiveFiles
  PROVE  Cardinality(ActiveFiles') <= Cardinality(ActiveFiles)
         /\ Cardinality(ActiveFiles) \in Nat /\ Cardinality(ActiveFiles') \in Nat
<1>1. IsFiniteSet(ActiveFiles)
  BY LedgerAssumption, FS_Subset DEF ActiveFiles
<1> QED
  BY <1>1, FS_Subset, FS_CardinalityType

\* Only an enqueue that found room adds an active file.
LEMMA BoundedStays ==
  ASSUME KnownInv, [Next]_vars, ~HostDown
  PROVE  ActiveBounded'
<1> USE DEF KnownInv
<1>0. Progress /\ LedgerTypes
  BY DEF LedgerInv
<1>1. lost' = lost
  BY DEF Next, vars, Open, Close, Crash, CallRetry, CallEnqueue, Take, Checkpoint, Dispose, LanePut,
     EnqueueKnown, EnqueueRefused, EnqueueWrites, PutSettled, PutWrites,
     RetryWrites, Rename, Sync, UnlinkActive, SyncActive, OperationFails
<1>2. CASE ActiveFiles' \subseteq ActiveFiles
  BY <1>1, <1>2, NoMore, LedgerAssumption DEF LedgerHolds, ActiveBounded
<1>3. CASE UNCHANGED active
  BY <1>2, <1>3 DEF ActiveFiles
<1>4. CASE UnlinkActive
  <2>1. active' = [active EXCEPT ![writeJob] = None]
    BY <1>4 DEF UnlinkActive
  <2>2. \A j \in Jobs : active'[j] # None => active[j] # None
    BY <1>0, <2>1 DEF LedgerTypes
  <2> QED
    BY <1>2, <2>2 DEF ActiveFiles
<1>5. CASE Rename
  <2>1. queue # <<>> /\ phase = "temp" /\ Running
    BY <1>5 DEF Rename, Running
  <2>2. active' = active \/ active' = [active EXCEPT ![writeJob] = writeState]
    BY <1>5 DEF Rename
  <2>3. ActiveFiles' \subseteq ActiveFiles \cup {writeJob}
    BY <1>0, <2>2 DEF LedgerTypes, ActiveFiles
  <2>4. CASE op.op = "enqueue"
    <3>1. writeJob \in Jobs /\ HasRoom
      BY <1>0, <2>1, <2>4, OpFacts DEF writeJob, Admitted
    <3> QED
      BY <1>1, <2>3, <3>1, OneMore, LedgerAssumption DEF ActiveBounded, HasRoom
  <2>5. CASE op.op = "put"
    <3>1. writeJob = op.job /\ ~Settled(op.job)
      BY <2>1, <2>5 DEF writeJob, LedgerInv, Progress, Writing
    <3>2. 1 \in DOMAIN queue /\ queue[1] = op
      BY <1>0, <2>1 DEF LedgerTypes, op
    <3>3. Known(op.job)
      BY <2>5, <3>2 DEF Admitted
    <3>4. active[op.job] # None /\ op.job \in Jobs
      BY <1>0, <2>1, <2>5, <3>1, <3>3, OpFacts DEF Known
    <3> QED
      BY <1>2, <2>3, <3>1, <3>4 DEF ActiveFiles
  <2>6. CASE op.op = "retry"
    <3>1. todo # {}
      BY <2>1, <2>6 DEF Admitted, Writing
    <3>2. writeJob \in todo
      BY <2>6, <3>1 DEF writeJob
    <3>3. writeJob \in ActiveFiles
      BY <1>0, <3>2 DEF Admitted, ActiveFiles, LedgerTypes
    <3> QED
      BY <1>2, <2>3, <3>3
  <2> QED
    BY <1>0, <2>1, <2>4, <2>5, <2>6, OpFacts
<1>6. Rename \/ UnlinkActive \/ UNCHANGED active
  BY DEF Next, vars, files, Open, Close, Crash, CallRetry, CallEnqueue, Take, Checkpoint,
     Dispose, LanePut, EnqueueKnown, EnqueueRefused, EnqueueWrites, PutSettled, PutWrites,
     RetryWrites, Sync, SyncActive, OperationFails
<1> QED
  BY <1>3, <1>4, <1>5, <1>6

\* enqueue returns for a job it found or whose file it wrote.
LEMMA AckedStays ==
  ASSUME KnownInv, [Next]_vars, ~HostDown
  PROVE  AckedKept'
<1> USE DEF KnownInv
<1>0. Progress /\ LedgerTypes
  BY DEF LedgerInv
<1>1. \/ acked' = acked
      \/ acked' = acked \cup {op.job} /\ queue # <<>> /\ op.op = "enqueue" /\ Known(op.job)
  <2>1. CASE EnqueueKnown
    BY <2>1 DEF EnqueueKnown, Running
  <2>2. CASE Sync /\ acked' # acked
    <3>1. op.op = "enqueue" /\ acked' = acked \cup {op.job} /\ phase = "renamed" /\ queue # <<>>
      BY <2>2 DEF Sync, Running
    <3>2. Known(op.job)
      BY <1>0, <3>1 DEF Progress, Known
    <3> QED
      BY <3>1, <3>2
  <2>3. EnqueueKnown \/ (Sync /\ acked' # acked) \/ acked' = acked
    BY DEF Next, vars, Open, Close, Crash, CallRetry, CallEnqueue, Take, Checkpoint, Dispose, LanePut,
       EnqueueRefused, EnqueueWrites, PutSettled, PutWrites,
       RetryWrites, Rename, UnlinkActive, SyncActive, OperationFails
  <2> QED
    BY <2>1, <2>2, <2>3
<1>2. lost' = lost
  BY DEF Next, vars, Open, Close, Crash, CallRetry, CallEnqueue, Take, Checkpoint, Dispose, LanePut,
     EnqueueKnown, EnqueueRefused, EnqueueWrites, PutSettled, PutWrites,
     RetryWrites, Rename, Sync, UnlinkActive, SyncActive, OperationFails
<1>3. CASE ~lost
  <2>1. \A j \in acked' : j \in Jobs /\ Known(j)
    BY <1>0, <1>1, <1>3, OpFacts DEF LedgerHolds, AckedKept, LedgerTypes
  <2>2. \A j \in acked' : Known(j)'
    BY <2>1, KnownStays
  <2> QED
    BY <2>2 DEF AckedKept
<1> QED
  BY <1>2, <1>3 DEF AckedKept

\* Admitted jobs and what they promise are kept by every step.
LEMMA KnownNextInv == KnownInv /\ [Next]_vars => KnownInv'
<1> SUFFICES ASSUME KnownInv, [Next]_vars PROVE KnownInv'
  OBVIOUS
<1>1. LedgerInv'
  BY LedgerNextInv DEF KnownInv
<1>2. CASE ~HostDown
  BY <1>1, <1>2, LanesAdmitted, PutsAdmitted, TurnAdmitted, BoundedStays, AckedStays
     DEF KnownInv, Admitted, LedgerHolds
<1>3. CASE HostDown
  <2>1. Stopped /\ lost' = TRUE
    BY <1>3 DEF HostDown
  <2>2. Admitted'
    BY <2>1 DEF Stopped, Admitted, Writing
  <2> QED
    BY <1>1, <2>1, <2>2 DEF KnownInv, LedgerHolds, ActiveBounded, AckedKept
<1> QED
  BY <1>2, <1>3

LEMMA KnownInitInv == Init => KnownInv
<1> SUFFICES ASSUME Init PROVE KnownInv
  OBVIOUS
<1>1. ActiveFiles = {}
  BY DEF Init, ActiveFiles, None
<1>2. ActiveBounded
  BY <1>1, FS_EmptySet, LedgerAssumption DEF ActiveBounded
<1>3. Admitted /\ AckedKept
  BY DEF Init, Admitted, AckedKept, Writing, None
<1> QED
  BY <1>2, <1>3, LedgerInitInv DEF KnownInv, LedgerHolds

\* While the host stays up, an acknowledged job is known and the ledger never holds more
\* active files than it may, whichever processes died and operations failed
\* (LedgerHolds; jobs.ts enqueue, put).
THEOREM LedgerPromise == Spec => []LedgerHolds
<1>1. Init => KnownInv
  BY KnownInitInv
<1>2. KnownInv /\ [Next]_vars => KnownInv'
  BY KnownNextInv
<1>3. KnownInv => LedgerHolds
  BY DEF KnownInv
<1> QED
  BY <1>1, <1>2, <1>3, PTL DEF Spec

-----------------------------------------------------------------------------
(***************************************************************************)
(* What is synced implements JobTable.                                     *)
(***************************************************************************)

\* The status of a job, read as get reads it.
StatusIn(a, d, j, s) ==
  \/ s = "active" /\ a[j] # None /\ \A t \in Terminal : j \notin d[t]
  \/ s = "none" /\ a[j] = None /\ \A t \in Terminal : j \notin d[t]
  \/ s \in Terminal /\ j \in d[s] /\ \A t \in Terminal : j \in d[t] => t = s

\* When a job has at most one outcome, the order in which get looks does not matter.
LEMMA StatusFacts ==
  ASSUME NEW a, NEW d, NEW j \in Jobs,
         \A s, t \in Terminal : j \in d[s] /\ j \in d[t] => s = t
  PROVE  StatusIn(a, d, j, StatusOf(a, d)[j])
  BY DEF StatusIn, StatusOf, Terminal

\* Outcomes that only grow, and files that go only when there is an outcome.
LEMMA StatusMoves ==
  ASSUME NEW a, NEW d, NEW b, NEW e, NEW j \in Jobs,
         \A s, t \in Terminal : j \in e[s] /\ j \in e[t] => s = t,
         \A t \in Terminal : j \in d[t] => j \in e[t],
         a[j] # None /\ b[j] = None => \E t \in Terminal : j \in e[t]
  PROVE  Durable!Moves(StatusOf(a, d)[j], StatusOf(b, e)[j])
<1>1. StatusIn(a, d, j, StatusOf(a, d)[j]) /\ StatusIn(b, e, j, StatusOf(b, e)[j])
  BY StatusFacts
<1>2. "none" \notin Terminal /\ "active" \notin Terminal
  BY DEF Terminal
<1> QED
  BY <1>1, <1>2 DEF StatusIn, Durable!Moves

LEMMA StatusType ==
  ASSUME NEW a, NEW d
  PROVE  StatusOf(a, d) \in [Jobs -> {"none", "active"} \cup Terminal]
  BY DEF StatusOf, Terminal

\* What is synced only gains outcomes, and loses an active file only to one.
LEMMA SyncedGrows ==
  ASSUME LedgerInv, [Next]_vars
  PROVE  /\ \A t \in Terminal : doneDur[t] \subseteq doneDur'[t]
         /\ \A j \in Jobs : activeDur[j] # None /\ activeDur'[j] = None =>
              \E t \in Terminal : j \in doneDur'[t]
<1> USE DEF LedgerInv
<1>1. CASE UNCHANGED <<activeDur, doneDur>>
  BY <1>1
<1>2. CASE activeDur' = active /\ UNCHANGED doneDur
  BY <1>2 DEF RemovedSettled
<1>3. CASE \E s \in Terminal : doneDur' = [doneDur EXCEPT ![s] = done[s]] /\ UNCHANGED activeDur
  BY <1>3 DEF LedgerTypes, Lags
<1>4. CASE HostDown
  BY <1>4, HostDownFacts DEF RemovedSettled
<1>5. CASE Sync
  BY <1>2, <1>3, <1>5 DEF Sync
<1>6. CASE SyncActive
  BY <1>2, <1>6 DEF SyncActive
<1>7. UNCHANGED <<activeDur, doneDur>> \/ HostDown \/ Sync \/ SyncActive
  BY DEF Next, vars, files, Open, Close, Crash, CallRetry, CallEnqueue, Take, Checkpoint,
     Dispose, LanePut, EnqueueKnown, EnqueueRefused, EnqueueWrites, PutSettled, PutWrites,
     RetryWrites, Rename, UnlinkActive, OperationFails
<1> QED
  BY <1>1, <1>4, <1>5, <1>6, <1>7

\* Whatever fails, the synced files are a table in which outcomes are final: an outcome that was
\* seen after a restart of the host is never taken back (DurableOutcomesFinal; jobs.ts put).
THEOREM DurableTable == Spec => DurableOutcomesFinal
<1> DEFINE synced == StatusOf(activeDur, doneDur)
<1>1. Init => Durable!Init
  BY DEF Init, Durable!Init, StatusOf, Terminal
<1>2. ASSUME LedgerInv, LedgerInv', [Next]_vars
      PROVE  Durable!Next
  <2>1. \A j \in Jobs : Durable!Moves(synced[j], synced'[j])
    <3> TAKE j \in Jobs
    <3>1. \A s, t \in Terminal : j \in doneDur'[s] /\ j \in doneDur'[t] => s = t
      BY <1>2 DEF LedgerInv, OneOutcome, Lags
    <3> QED
      BY <1>2, <3>1, SyncedGrows, StatusMoves
  <2>2. synced' \in [Jobs -> {"none", "active"} \cup Terminal]
    BY StatusType
  <2> QED
    BY <2>1, <2>2 DEF Durable!Next
<1>3. LedgerInv /\ LedgerInv' /\ [Next]_vars => [Durable!Next]_synced
  BY <1>2
<1> QED
  BY <1>1, <1>3, LedgerInvHolds, PTL DEF Spec, DurableOutcomesFinal, Durable!Spec

\* While the host stays up, outcomes are only added, and a file goes only when there is one.
LEMMA SeenGrows ==
  ASSUME KnownInv, [Next]_vars, ~HostDown
  PROVE  /\ \A t \in Terminal : done[t] \subseteq done'[t]
         /\ \A j \in Jobs : active[j] # None /\ active'[j] = None => \E t \in Terminal : j \in done'[t]
<1>1. CASE Rename
  <2>1. \/ done' = done
        \/ done' = [done EXCEPT ![writeState] = @ \cup {writeJob}]
    BY <1>1 DEF Rename
  <2> QED
    BY <2>1, KnownStays DEF Known, Settled, KnownInv, LedgerInv, LedgerTypes
<1>2. CASE UNCHANGED done
  BY <1>2, KnownStays DEF Known, Settled, KnownInv
<1>3. Rename \/ UNCHANGED done
  BY DEF Next, vars, files, Open, Close, Crash, CallRetry, CallEnqueue, Take, Checkpoint,
     Dispose, LanePut, EnqueueKnown, EnqueueRefused, EnqueueWrites, PutSettled, PutWrites,
     RetryWrites, Sync, UnlinkActive, SyncActive, OperationFails
<1> QED
  BY <1>1, <1>2, <1>3

\* While the host stays up, the files read as get reads them are such a table too, after every
\* single file operation (OutcomesFinal; jobs.ts get, put).
THEOREM SeenTable == Spec => OutcomesFinal
<1> DEFINE seen == StatusOf(active, done)
<1>1. ASSUME KnownInv, LedgerInv', [Next]_vars
      PROVE  lost' \/ Seen!Next
  <2>1. CASE HostDown
    BY <2>1 DEF HostDown
  <2>2. CASE ~HostDown
    <3>1. \A j \in Jobs : Durable!Moves(seen[j], seen'[j])
      <4> TAKE j \in Jobs
      <4>1. \A s, t \in Terminal : j \in done'[s] /\ j \in done'[t] => s = t
        BY <1>1 DEF LedgerInv, OneOutcome
      <4> QED
        BY <1>1, <2>2, <4>1, SeenGrows, StatusMoves
    <3>2. seen' \in [Jobs -> {"none", "active"} \cup Terminal]
      BY StatusType
    <3> QED
      BY <3>1, <3>2 DEF Seen!Next, Seen!Moves, Durable!Moves
  <2> QED
    BY <2>1, <2>2
<1>2. KnownInv /\ LedgerInv' /\ [Next]_vars => [lost' \/ Seen!Next]_seen
  BY <1>1
<1>3. Spec => []KnownInv
  <2>1. Init => KnownInv
    BY KnownInitInv
  <2>2. KnownInv /\ [Next]_vars => KnownInv'
    BY KnownNextInv
  <2> QED
    BY <2>1, <2>2, PTL DEF Spec
<1> QED
  BY <1>2, <1>3, LedgerInvHolds, PTL DEF Spec, OutcomesFinal

-----------------------------------------------------------------------------
(***************************************************************************)
(* Proof that each source is worked on once, for any partitions, bounds    *)
(* and faults. HoldsOnce says of a state and the ledger that no two places *)
(* hold a source, except the head of the outbox that is delivered already. *)
(* It is kept by sealing, growing and delivering a window. SchedulerInv    *)
(* says how far the operation under way has got: what is in memory is what *)
(* is saved, and a draft follows from it.                                  *)
(***************************************************************************)
States == [through : Nat, excluded : Nat, windows : SUBSET OpenWindow, outbox : Seq(Sealed),
           made : BOOLEAN]
Calls == [on : BOOLEAN, t : Nat, seq : Nat, part : Partitions \cup {"excluded"}, last : BOOLEAN]

Apart(v, w) == ToSet(v.sources) \cap ToSet(w.sources) = {}

(* The sources of a window are in order, and none is above n. *)
Ordered(w, n) ==
  /\ w.sources # <<>>
  /\ \A i \in DOMAIN w.sources : w.sources[i] <= n
  /\ \A i, j \in DOMAIN w.sources : i < j => w.sources[i] < w.sources[j]

WindowsOK(windows, n) ==
  /\ IsFiniteSet(windows)
  /\ \A w \in windows : Ordered(w, n)
  /\ \A v, w \in windows : v # w => v.part # w.part /\ Apart(v, w)

OutboxOK(outbox, n) ==
  /\ \A k \in DOMAIN outbox : Ordered(outbox[k], n) /\ outbox[k].openedAt <= outbox[k].sealedAt
  /\ \A j, k \in DOMAIN outbox : j # k => Apart(outbox[j], outbox[k])

LedgerOK(jobs, n) ==
  /\ jobs \subseteq Sealed
  /\ \A l \in jobs : Ordered(l, n)
  /\ \A k, l \in jobs : k # l => Apart(k, l)

Across(windows, outbox, jobs) ==
  /\ \A w \in windows, k \in DOMAIN outbox : Apart(w, outbox[k])
  /\ \A w \in windows, l \in jobs : Apart(w, l)
  /\ \A k \in DOMAIN outbox, l \in jobs : outbox[k] = l \/ Apart(outbox[k], l)

HoldsOnce(s, jobs, n) ==
  /\ s \in States
  /\ WindowsOK(s.windows, n) /\ OutboxOK(s.outbox, n) /\ LedgerOK(jobs, n)
  /\ Across(s.windows, s.outbox, jobs)

(* A source is somewhere. *)
Has(s, jobs, n) ==
  \/ \E w \in s.windows : n \in ToSet(w.sources)
  \/ \E k \in DOMAIN s.outbox : n \in ToSet(s.outbox[k].sources)
  \/ \E l \in jobs : n \in ToSet(l.sources)

Working == pc \notin {"down", "idle"}
SchedulerTypes ==
  /\ saved \in States /\ mem \in States /\ draft \in States
  /\ pc \in {"down", "idle", "flush", "dequeue", "body", "persist", "refused", "return"}
  /\ cur \in {"open", "observe", "tick"} /\ final \in BOOLEAN
  /\ call \in [{"observe", "tick"} -> Calls]
  /\ handled \in Nat /\ ack \in Nat /\ now \in Nat
  /\ IsFiniteSet(dropped)

(* What is saved: every event it has passed, once. *)
SavedInv ==
  /\ HoldsOnce(saved, ledger, saved.through)
  /\ Fits(saved)
  /\ dropped \subseteq 1..saved.through
  /\ \A n \in 1..saved.through : n \in dropped \/ Has(saved, ledger, n)
  /\ saved.excluded = Cardinality(dropped)
  /\ ack <= saved.through /\ handled <= saved.through
  /\ ~saved.made => saved = Absent /\ ack = 0

(* The operation under way. *)
OperationInv ==
  /\ pc # "down" => mem = saved /\ saved.made
  /\ call["observe"].on => call["observe"].seq = handled + 1 /\ pc # "down"
  /\ Working /\ cur # "open" => call[cur].on
  /\ pc = "dequeue" => saved.outbox # <<>> /\ Head(saved.outbox) \in ledger
  /\ (cur = "observe" /\ (pc = "return" \/ (pc \in {"flush", "dequeue"} /\ final))) =>
       call["observe"].seq <= saved.through
  /\ pc = "persist" =>
       /\ Fits(draft)
       /\ \/ cur = "observe" /\ ~SeenBefore /\ draft = Observed(saved, call["observe"])
          \/ cur = "tick" /\ draft = Ticked(saved, call["tick"].t)

SchedulerInv == SchedulerTypes /\ SavedInv /\ OperationInv

(* Sealing a window moves it: no source is lost, and none gets a second place. *)
LEMMA SealWindowOK ==
  ASSUME NEW w \in OpenWindow, NEW trigger \in {"count", "elapsed", "completion"}, NEW t \in Nat
  PROVE  LET v == SealWindow(w, trigger, t)
         IN  v \in Sealed /\ v.sources = w.sources /\ v.openedAt <= v.sealedAt
BY DEF SealWindow, Sealed, OpenWindow

LEMMA SealFields ==
  ASSUME NEW s \in States, NEW w \in s.windows, NEW trigger \in {"count", "elapsed", "completion"},
         NEW t \in Nat
  PROVE  LET new == Seal(s, w, trigger, t)
         IN  /\ new \in States
             /\ new.windows = s.windows \ {w}
             /\ new.outbox = Append(s.outbox, SealWindow(w, trigger, t))
             /\ new.through = s.through /\ new.excluded = s.excluded /\ new.made = s.made
<1>1. SealWindow(w, trigger, t) \in Sealed BY SealWindowOK DEF States
<1>2. Append(s.outbox, SealWindow(w, trigger, t)) \in Seq(Sealed) BY <1>1 DEF States
<1> QED BY <1>2 DEF Seal, States

(* The outbox with one window more. *)
LEMMA AppendOutbox ==
  ASSUME NEW outbox \in Seq(Sealed), NEW v \in Sealed, NEW n, OutboxOK(outbox, n),
         Ordered(v, n), v.openedAt <= v.sealedAt, \A k \in DOMAIN outbox : Apart(v, outbox[k])
  PROVE  /\ OutboxOK(Append(outbox, v), n)
         /\ \A k \in DOMAIN Append(outbox, v) :
               \/ k \in DOMAIN outbox /\ Append(outbox, v)[k] = outbox[k]
               \/ Append(outbox, v)[k] = v
         /\ \A k \in DOMAIN outbox : k \in DOMAIN Append(outbox, v) /\ Append(outbox, v)[k] = outbox[k]
         /\ \E k \in DOMAIN Append(outbox, v) : Append(outbox, v)[k] = v
<1> DEFINE new == Append(outbox, v)
<1>1. DOMAIN new = 1..Len(outbox) + 1 /\ DOMAIN outbox = 1..Len(outbox) /\ Len(outbox) \in Nat
  OBVIOUS
<1>2. \A k \in 1..Len(outbox) : new[k] = outbox[k]
  OBVIOUS
<1>3. new[Len(outbox) + 1] = v
  OBVIOUS
<1> HIDE DEF new
<1>4. \A k \in DOMAIN new : (k \in DOMAIN outbox /\ new[k] = outbox[k]) \/ (k = Len(outbox) + 1 /\ new[k] = v)
  BY <1>1, <1>2, <1>3
<1>5. \A k \in DOMAIN new : Ordered(new[k], n) /\ new[k].openedAt <= new[k].sealedAt
  BY <1>4 DEF OutboxOK
<1>6. ASSUME NEW j \in DOMAIN new, NEW k \in DOMAIN new, j # k PROVE Apart(new[j], new[k])
  <2>1. CASE j \in DOMAIN outbox /\ k \in DOMAIN outbox
    BY <1>1, <1>2, <1>6, <2>1 DEF OutboxOK
  <2>2. CASE ~(j \in DOMAIN outbox)
    <3>1. new[j] = v /\ new[k] = outbox[k] /\ k \in DOMAIN outbox BY <1>4, <1>6, <2>2
    <3> QED BY <3>1
  <2>3. CASE ~(k \in DOMAIN outbox)
    <3>1. new[k] = v /\ new[j] = outbox[j] /\ j \in DOMAIN outbox BY <1>4, <1>6, <2>3
    <3>2. Apart(v, outbox[j]) BY <3>1
    <3> QED BY <3>1, <3>2 DEF Apart
  <2> QED BY <2>1, <2>2, <2>3
<1>7. OutboxOK(new, n) BY <1>5, <1>6 DEF OutboxOK
<1> QED BY <1>1, <1>2, <1>3, <1>4, <1>7 DEF new

LEMMA SealKeeps ==
  ASSUME NEW s \in States, NEW jobs, NEW n, NEW w \in s.windows,
         NEW trigger \in {"count", "elapsed", "completion"}, NEW t \in Nat, HoldsOnce(s, jobs, n)
  PROVE  /\ HoldsOnce(Seal(s, w, trigger, t), jobs, n)
         /\ \A m : Has(s, jobs, m) => Has(Seal(s, w, trigger, t), jobs, m)
<1> DEFINE v == SealWindow(w, trigger, t)
           new == Seal(s, w, trigger, t)
<1>1. w \in OpenWindow /\ s.outbox \in Seq(Sealed) /\ s.windows \subseteq OpenWindow BY DEF States
<1>2. v \in Sealed /\ v.sources = w.sources /\ v.openedAt <= v.sealedAt BY <1>1, SealWindowOK
<1>3. /\ new \in States /\ new.windows = s.windows \ {w} /\ new.outbox = Append(s.outbox, v)
  BY SealFields
<1>4. Ordered(v, n) BY <1>2 DEF HoldsOnce, WindowsOK, Ordered
<1>5. \A x : (Apart(w, x) => Apart(v, x)) /\ (Apart(x, w) => Apart(x, v)) BY <1>2 DEF Apart
<1>6. \A k \in DOMAIN s.outbox : Apart(v, s.outbox[k]) BY <1>5 DEF HoldsOnce, Across
<1> HIDE DEF v, new
<1>7. /\ OutboxOK(new.outbox, n)
      /\ \A k \in DOMAIN new.outbox :
            \/ k \in DOMAIN s.outbox /\ new.outbox[k] = s.outbox[k]
            \/ new.outbox[k] = v
      /\ \A k \in DOMAIN s.outbox : k \in DOMAIN new.outbox /\ new.outbox[k] = s.outbox[k]
      /\ \E k \in DOMAIN new.outbox : new.outbox[k] = v
  <2>1. OutboxOK(s.outbox, n) BY DEF HoldsOnce
  <2> QED BY <1>1, <1>2, <1>3, <1>4, <1>6, <2>1, AppendOutbox
<1>8. WindowsOK(new.windows, n)
  <2>1. IsFiniteSet(s.windows \ {w}) BY FS_RemoveElement DEF HoldsOnce, WindowsOK
  <2> QED BY <1>3, <2>1 DEF HoldsOnce, WindowsOK
<1>9. Across(new.windows, new.outbox, jobs)
  <2>1. \A x \in s.windows \ {w} : Apart(x, v) BY <1>5 DEF HoldsOnce, WindowsOK
  <2>2. \A l \in jobs : Apart(v, l) BY <1>5 DEF HoldsOnce, Across
  <2>3. \A x \in new.windows, k \in DOMAIN new.outbox : Apart(x, new.outbox[k])
    BY <1>3, <1>7, <2>1 DEF HoldsOnce, Across
  <2>4. \A x \in new.windows, l \in jobs : Apart(x, l)
    BY <1>3 DEF HoldsOnce, Across
  <2>5. \A k \in DOMAIN new.outbox, l \in jobs : new.outbox[k] = l \/ Apart(new.outbox[k], l)
    BY <1>7, <2>2 DEF HoldsOnce, Across
  <2> QED BY <2>3, <2>4, <2>5 DEF Across
<1>10. HoldsOnce(new, jobs, n) BY <1>3, <1>7, <1>8, <1>9 DEF HoldsOnce
<1>11. ASSUME NEW m, Has(s, jobs, m) PROVE Has(new, jobs, m)
  BY <1>2, <1>3, <1>7, <1>11 DEF Has
<1> QED BY <1>10, <1>11 DEF new

(* Later events may be in windows too. *)
LEMMA LaterHolds ==
  ASSUME NEW s, NEW jobs, NEW n \in Nat, NEW m \in Nat, n <= m, HoldsOnce(s, jobs, n)
  PROVE  HoldsOnce(s, jobs, m)
<1>1. \A S : \A w \in [part : Partitions, openedAt : Nat, sources : Seq(Nat)] \cup Sealed :
         Ordered(w, n) => Ordered(w, m)
  <2> SUFFICES ASSUME NEW w \in OpenWindow \cup Sealed, Ordered(w, n) PROVE Ordered(w, m)
    BY DEF OpenWindow
  <2>1. w.sources \in Seq(Nat) BY DEF OpenWindow, Sealed
  <2>2. \A i \in DOMAIN w.sources : w.sources[i] \in Nat BY <2>1
  <2> QED BY <2>2 DEF Ordered
<1>2. \A w \in OpenWindow \cup Sealed : Ordered(w, n) => Ordered(w, m) BY <1>1 DEF OpenWindow
<1>3. s.windows \subseteq OpenWindow /\ \A k \in DOMAIN s.outbox : s.outbox[k] \in Sealed
  BY DEF HoldsOnce, States
<1> QED BY <1>2, <1>3 DEF HoldsOnce, WindowsOK, OutboxOK, LedgerOK

(* A window that takes the source m, newer than all others. *)
Grown(base, m) == [base EXCEPT !.sources = Append(@, m)]
Put(s, base, m) == [s EXCEPT !.windows = (@ \ {base}) \cup {Grown(base, m)}]

LEMMA GrownFields ==
  ASSUME NEW base \in OpenWindow, NEW m \in Nat
  PROVE  LET grown == Grown(base, m)
         IN  /\ grown \in OpenWindow
             /\ grown.part = base.part /\ grown.openedAt = base.openedAt
             /\ grown.sources = Append(base.sources, m)
             /\ ToSet(grown.sources) = ToSet(base.sources) \cup {m}
<1> DEFINE grown == Grown(base, m)
<1>1. base.sources \in Seq(Nat) BY DEF OpenWindow
<1>2. Append(base.sources, m) \in Seq(Nat) BY <1>1
<1>3. /\ grown \in OpenWindow
      /\ grown.part = base.part /\ grown.openedAt = base.openedAt
      /\ grown.sources = Append(base.sources, m)
  BY <1>2 DEF Grown, OpenWindow
<1>4. ToSet(Append(base.sources, m)) = ToSet(base.sources) \cup {m}
  <2> DEFINE a == base.sources
             b == Append(base.sources, m)
  <2>1. /\ DOMAIN a = 1..Len(a) /\ DOMAIN b = 1..Len(a) + 1 /\ Len(a) \in Nat
        /\ \A i \in 1..Len(a) : b[i] = a[i]
        /\ b[Len(a) + 1] = m
    BY <1>1
  <2> HIDE DEF a, b
  <2>2. \A x \in ToSet(b) : x \in ToSet(a) \cup {m} BY <2>1 DEF ToSet
  <2>3. \A x \in ToSet(a) \cup {m} : x \in ToSet(b) BY <2>1 DEF ToSet
  <2> QED BY <2>2, <2>3 DEF a, b
<1> QED BY <1>3, <1>4

LEMMA PutKeeps ==
  ASSUME NEW s \in States, NEW jobs, NEW n \in Nat, NEW m \in Nat, n < m, HoldsOnce(s, jobs, n),
         NEW base \in OpenWindow,
         base.sources = <<>> \/ base \in s.windows,
         \A w \in s.windows : w # base => w.part # base.part
  PROVE  /\ HoldsOnce(Put(s, base, m), jobs, m)
         /\ \A x : Has(s, jobs, x) => Has(Put(s, base, m), jobs, x)
         /\ Has(Put(s, base, m), jobs, m)
         /\ Put(s, base, m).windows = (s.windows \ {base}) \cup {Grown(base, m)}
         /\ Put(s, base, m).outbox = s.outbox /\ Put(s, base, m).through = s.through
         /\ Put(s, base, m).excluded = s.excluded /\ Put(s, base, m).made = s.made
<1> DEFINE grown == Grown(base, m)
           new == Put(s, base, m)
<1>1. /\ grown \in OpenWindow
      /\ grown.part = base.part /\ grown.sources = Append(base.sources, m)
      /\ ToSet(grown.sources) = ToSet(base.sources) \cup {m}
  BY GrownFields
<1>2. /\ new \in States
      /\ new.windows = (s.windows \ {base}) \cup {grown}
      /\ new.outbox = s.outbox /\ new.through = s.through
      /\ new.excluded = s.excluded /\ new.made = s.made
  BY <1>1 DEF Put, States
<1> HIDE DEF grown, new
<1>3. HoldsOnce(s, jobs, m) BY LaterHolds
<1>4. /\ base.sources \in Seq(Nat)
      /\ \A i \in DOMAIN base.sources : base.sources[i] <= n
      /\ \A i, j \in DOMAIN base.sources : i < j => base.sources[i] < base.sources[j]
  <2>1. base.sources \in Seq(Nat) BY DEF OpenWindow
  <2>2. CASE base.sources = <<>> BY <2>1, <2>2
  <2>3. CASE base \in s.windows BY <2>1, <2>3 DEF HoldsOnce, WindowsOK, Ordered
  <2> QED BY <2>2, <2>3
<1>5. Ordered(grown, m)
  <2> DEFINE a == base.sources
             b == grown.sources
  <2>1. /\ DOMAIN a = 1..Len(a) /\ DOMAIN b = 1..Len(a) + 1 /\ Len(a) \in Nat
        /\ \A i \in 1..Len(a) : b[i] = a[i] /\ a[i] \in Nat
        /\ b[Len(a) + 1] = m /\ b # <<>>
    BY <1>1, <1>4
  <2>2. /\ \A i \in DOMAIN a : a[i] <= n
        /\ \A i, j \in DOMAIN a : i < j => a[i] < a[j]
    BY <1>4
  <2> HIDE DEF a, b
  <2>3. \A i \in DOMAIN b : b[i] <= m BY <2>1, <2>2
  <2>4. \A i, j \in DOMAIN b : i < j => b[i] < b[j] BY <2>1, <2>2
  <2> QED BY <2>1, <2>3, <2>4 DEF Ordered, b
<1>6. \A w \in OpenWindow \cup Sealed : Ordered(w, n) => m \notin ToSet(w.sources)
  <2> SUFFICES ASSUME NEW w \in OpenWindow \cup Sealed, Ordered(w, n), m \in ToSet(w.sources) PROVE FALSE
    OBVIOUS
  <2>1. PICK i \in DOMAIN w.sources : w.sources[i] = m BY DEF ToSet
  <2> QED BY <2>1 DEF Ordered
<1>7. \A w \in OpenWindow \cup Sealed : Ordered(w, n) /\ Apart(w, base) => Apart(w, grown) /\ Apart(grown, w)
  BY <1>1, <1>6 DEF Apart
<1>8. ASSUME NEW w, \/ w \in s.windows /\ w # base
                    \/ \E k \in DOMAIN s.outbox : w = s.outbox[k]
                    \/ w \in jobs
      PROVE  Apart(w, grown) /\ Apart(grown, w)
  <2>1. w \in OpenWindow \cup Sealed /\ Ordered(w, n)
    BY <1>8 DEF HoldsOnce, States, WindowsOK, OutboxOK, LedgerOK
  <2>2. Apart(w, base)
    <3>1. CASE base.sources = <<>>
      <4>1. ToSet(base.sources) = {} BY <3>1 DEF ToSet
      <4> QED BY <4>1 DEF Apart
    <3>2. CASE base \in s.windows
      <4>1. Apart(w, base) \/ Apart(base, w) BY <1>8, <3>2 DEF HoldsOnce, WindowsOK, Across
      <4> QED BY <4>1 DEF Apart
    <3> QED BY <3>1, <3>2
  <2> QED BY <1>7, <2>1, <2>2
<1>9. WindowsOK(new.windows, m)
  <2>1. IsFiniteSet(new.windows)
    <3>1. IsFiniteSet(s.windows \ {base}) BY FS_RemoveElement DEF HoldsOnce, WindowsOK
    <3>2. IsFiniteSet((s.windows \ {base}) \cup {grown}) BY <3>1, FS_AddElement
    <3> QED BY <1>2, <3>2
  <2>2. \A w \in new.windows : Ordered(w, m) BY <1>2, <1>3, <1>5 DEF HoldsOnce, WindowsOK
  <2>3. \A v, w \in new.windows : v # w => v.part # w.part /\ Apart(v, w)
    BY <1>1, <1>2, <1>8 DEF HoldsOnce, WindowsOK
  <2> QED BY <2>1, <2>2, <2>3 DEF WindowsOK
<1>10. Across(new.windows, new.outbox, jobs)
  <2>1. \A w \in new.windows, k \in DOMAIN s.outbox : Apart(w, s.outbox[k])
    BY <1>2, <1>8 DEF HoldsOnce, Across
  <2>2. \A w \in new.windows, l \in jobs : Apart(w, l)
    BY <1>2, <1>8 DEF HoldsOnce, Across
  <2> QED BY <1>2, <2>1, <2>2 DEF HoldsOnce, Across
<1>11. HoldsOnce(new, jobs, m) BY <1>2, <1>3, <1>9, <1>10 DEF HoldsOnce
<1>12. \A x : Has(s, jobs, x) => Has(new, jobs, x)
  BY <1>1, <1>2 DEF Has
<1>13. Has(new, jobs, m) BY <1>1, <1>2 DEF Has
<1> QED BY <1>2, <1>11, <1>12, <1>13 DEF new, grown

(* A new event goes to one window, sealed or not, or is excluded. *)
LEMMA ObservedKeeps ==
  ASSUME NEW s \in States, NEW jobs, NEW o \in Calls, o.seq = s.through + 1, HoldsOnce(s, jobs, s.through)
  PROVE  LET new == Observed(s, o)
         IN  /\ HoldsOnce(new, jobs, o.seq)
             /\ \A x : Has(s, jobs, x) => Has(new, jobs, x)
             /\ new.through = o.seq /\ new.made = s.made
             /\ IF o.part = "excluded" THEN new.excluded = s.excluded + 1
                ELSE new.excluded = s.excluded /\ Has(new, jobs, o.seq)
<1> DEFINE n     == s.through
           moved == [s EXCEPT !.through = o.seq]
           mine  == {w \in moved.windows : w.part = o.part}
           due   == {w \in mine : Due(w, o.t)}
           kept  == IF due = {} THEN moved
                    ELSE Seal(moved, CHOOSE w \in due : TRUE, "elapsed", o.t)
           base  == IF mine \ due = {} THEN [part |-> o.part, openedAt |-> o.t, sources |-> <<>>]
                    ELSE CHOOSE w \in mine \ due : TRUE
           grown == [base EXCEPT !.sources = Append(@, o.seq)]
           put   == [kept EXCEPT !.windows = (@ \ {base}) \cup {grown}]
           new   == Observed(s, o)
<1>1. /\ n \in Nat /\ o.seq \in Nat /\ o.t \in Nat /\ n < o.seq
      /\ o.part \in Partitions \cup {"excluded"} /\ o.last \in BOOLEAN
  BY DEF States, Calls
<1>2. /\ moved \in States /\ moved.windows = s.windows /\ moved.outbox = s.outbox
      /\ moved.through = o.seq /\ moved.excluded = s.excluded /\ moved.made = s.made
  BY <1>1 DEF States
<1>3. new = IF o.part = "excluded" THEN [moved EXCEPT !.excluded = @ + 1]
            ELSE IF o.last THEN Seal(put, grown, "completion", o.t)
            ELSE IF Len(grown.sources) >= Every THEN Seal(put, grown, "count", o.t)
            ELSE put
  BY DEF Observed
<1> HIDE DEF new, moved
<1>4. HoldsOnce(moved, jobs, n) /\ \A x : Has(s, jobs, x) => Has(moved, jobs, x)
  BY <1>2 DEF HoldsOnce, Has
<1>5. CASE o.part = "excluded"
  <2>1. /\ new \in States /\ new.windows = moved.windows /\ new.outbox = moved.outbox
        /\ new.through = o.seq /\ new.excluded = s.excluded + 1 /\ new.made = s.made
    BY <1>2, <1>3, <1>5 DEF States
  <2>2. HoldsOnce(new, jobs, n) /\ \A x : Has(s, jobs, x) => Has(new, jobs, x)
    BY <1>4, <2>1 DEF HoldsOnce, Has
  <2>3. HoldsOnce(new, jobs, o.seq) BY <1>1, <2>2, LaterHolds
  <2> QED BY <1>5, <2>1, <2>2, <2>3 DEF new
<1>6. CASE o.part # "excluded"
  <2>1. mine \subseteq moved.windows /\ due \subseteq mine /\ \A w \in mine : w.part = o.part
    OBVIOUS
  <2>2. \A v, w \in mine : v = w BY <2>1, <1>4 DEF HoldsOnce, WindowsOK
  <2>3. /\ kept \in States /\ HoldsOnce(kept, jobs, n)
        /\ \A x : Has(s, jobs, x) => Has(kept, jobs, x)
        /\ kept.windows = moved.windows \ due
        /\ kept.through = o.seq /\ kept.excluded = s.excluded /\ kept.made = s.made
    <3>1. CASE due = {} BY <1>2, <1>4, <3>1
    <3>2. CASE due # {}
      <4> DEFINE w == CHOOSE x \in due : TRUE
      <4>1. w \in due BY <3>2
      <4>2. due = {w} BY <2>1, <2>2, <4>1
      <4>3. w \in moved.windows BY <2>1, <4>1
      <4>4. kept = Seal(moved, w, "elapsed", o.t) BY <3>2
      <4> HIDE DEF w, due, mine, kept
      <4>5. /\ HoldsOnce(kept, jobs, n)
            /\ \A x : Has(moved, jobs, x) => Has(kept, jobs, x)
        BY <1>1, <1>2, <1>4, <4>3, <4>4, SealKeeps
      <4>6. /\ kept \in States /\ kept.windows = moved.windows \ {w}
            /\ kept.through = moved.through /\ kept.excluded = moved.excluded
            /\ kept.made = moved.made
        BY <1>1, <1>2, <4>3, <4>4, SealFields
      <4> QED BY <1>2, <1>4, <4>2, <4>5, <4>6
    <3> QED BY <3>1, <3>2
  <2>4. /\ base \in OpenWindow
        /\ base.sources = <<>> \/ base \in kept.windows
        /\ \A w \in kept.windows : w # base => w.part # base.part
    <3>1. CASE mine \ due = {}
      <4>1. base = [part |-> o.part, openedAt |-> o.t, sources |-> <<>>] BY <3>1
      <4>2. <<>> \in Seq(Nat) OBVIOUS
      <4>3. base \in OpenWindow /\ base.sources = <<>> /\ base.part = o.part
        <5>1. o.part \in Partitions BY <1>1, <1>6
        <5> HIDE DEF base
        <5> QED BY <1>1, <4>1, <4>2, <5>1 DEF OpenWindow
      <4>4. \A w \in kept.windows : w.part # o.part BY <2>3, <3>1
      <4> QED BY <4>3, <4>4
    <3>2. CASE mine \ due # {}
      <4>1. base \in mine \ due BY <3>2
      <4>2. base \in kept.windows BY <2>1, <2>3, <4>1
      <4> HIDE DEF base, mine, due, kept
      <4> QED BY <4>2, <2>3 DEF HoldsOnce, WindowsOK, States
    <3> QED BY <3>1, <3>2
  <2>5. put = Put(kept, base, o.seq) /\ grown = Grown(base, o.seq) BY DEF Put, Grown
  <2> HIDE DEF mine, due, kept, base, put, grown
  <2>6. /\ HoldsOnce(put, jobs, o.seq)
        /\ \A x : Has(kept, jobs, x) => Has(put, jobs, x)
        /\ Has(put, jobs, o.seq)
        /\ grown \in put.windows
        /\ put.through = o.seq /\ put.excluded = s.excluded /\ put.made = s.made
    BY <1>1, <2>3, <2>4, <2>5, PutKeeps
  <2>7. put \in States BY <2>6 DEF HoldsOnce
  <2>8. ASSUME NEW trigger \in {"completion", "count"}, new = Seal(put, grown, trigger, o.t)
        PROVE  /\ HoldsOnce(new, jobs, o.seq)
               /\ \A x : Has(put, jobs, x) => Has(new, jobs, x)
               /\ new.through = o.seq /\ new.excluded = s.excluded /\ new.made = s.made
    BY <1>1, <2>6, <2>7, <2>8, SealKeeps, SealFields
  <2>9. /\ HoldsOnce(new, jobs, o.seq)
        /\ \A x : Has(put, jobs, x) => Has(new, jobs, x)
        /\ new.through = o.seq /\ new.excluded = s.excluded /\ new.made = s.made
    BY <1>3, <1>6, <2>6, <2>8
  <2> QED BY <1>6, <2>3, <2>6, <2>9 DEF new
<1> QED BY <1>5, <1>6

(* A finite set as a sequence: each element once. *)
LEMMA SetListed ==
  ASSUME NEW S, IsFiniteSet(S)
  PROVE  /\ SetToSeq(S) \in Seq(S)
         /\ \A x \in S : \E i \in DOMAIN SetToSeq(S) : SetToSeq(S)[i] = x
         /\ \A i, j \in DOMAIN SetToSeq(S) : SetToSeq(S)[i] = SetToSeq(S)[j] => i = j
<1> DEFINE f == SetToSeq(S)
           c == Cardinality(S)
<1>1. c \in Nat /\ ExistsBijection(1..c, S) BY FS_CardinalityType
<1>2. \E g \in [1..c -> S] : IsInjective(g)
  BY <1>1 DEF ExistsBijection, Bijection, Injection, IsInjective
<1>3. f \in [1..c -> S] /\ IsInjective(f) BY <1>2 DEF SetToSeq
<1>4. IsFiniteSet(1..c) /\ Cardinality(1..c) = c BY <1>1, FS_CountingElements, FS_Interval
<1> HIDE DEF f
<1>5. f \in Surjection(1..c, S)
  <2>1. f \in Injection(1..c, S) BY <1>3 DEF Injection
  <2> QED BY <1>4, <2>1, FS_Injection
<1>6. \A x \in S : \E i \in 1..c : f[i] = x BY <1>5 DEF Surjection
<1>7. \A i, j \in DOMAIN f : f[i] = f[j] => i = j BY <1>3 DEF IsInjective
<1>8. f \in Seq(S) /\ DOMAIN f = 1..c BY <1>1, <1>3
<1> QED BY <1>6, <1>7, <1>8 DEF f

(* The outbox followed by other sealed windows. *)
LEMMA JoinOutbox ==
  ASSUME NEW outbox \in Seq(Sealed), NEW more \in Seq(Sealed), NEW n,
         OutboxOK(outbox, n), OutboxOK(more, n),
         \A k \in DOMAIN outbox, i \in DOMAIN more : Apart(more[i], outbox[k])
  PROVE  /\ OutboxOK(outbox \o more, n)
         /\ \A k \in DOMAIN (outbox \o more) :
               \/ k \in DOMAIN outbox /\ (outbox \o more)[k] = outbox[k]
               \/ \E i \in DOMAIN more : (outbox \o more)[k] = more[i]
         /\ \A k \in DOMAIN outbox : k \in DOMAIN (outbox \o more) /\ (outbox \o more)[k] = outbox[k]
         /\ \A i \in DOMAIN more : \E k \in DOMAIN (outbox \o more) : (outbox \o more)[k] = more[i]
<1> DEFINE new == outbox \o more
           len == Len(outbox)
<1>1. /\ DOMAIN new = 1..len + Len(more) /\ DOMAIN outbox = 1..len /\ DOMAIN more = 1..Len(more)
      /\ len \in Nat /\ Len(more) \in Nat
  OBVIOUS
<1>2. \A k \in 1..len : new[k] = outbox[k]
  OBVIOUS
<1>3. \A i \in 1..Len(more) : new[len + i] = more[i]
  OBVIOUS
<1> HIDE DEF new, len
<1>4. \A k \in DOMAIN new : \/ k \in DOMAIN outbox /\ new[k] = outbox[k]
                            \/ k - len \in DOMAIN more /\ new[k] = more[k - len] /\ ~(k \in DOMAIN outbox)
  <2> SUFFICES ASSUME NEW k \in DOMAIN new, ~(k \in DOMAIN outbox)
               PROVE  k - len \in DOMAIN more /\ new[k] = more[k - len]
    BY <1>1, <1>2
  <2>1. k - len \in 1..Len(more) /\ k = len + (k - len) BY <1>1
  <2> QED BY <1>1, <1>3, <2>1
<1>5. \A k \in DOMAIN new : Ordered(new[k], n) /\ new[k].openedAt <= new[k].sealedAt
  BY <1>4 DEF OutboxOK
<1>6. ASSUME NEW j \in DOMAIN new, NEW k \in DOMAIN new, j # k PROVE Apart(new[j], new[k])
  <2>1. CASE j \in DOMAIN outbox /\ k \in DOMAIN outbox
    BY <1>1, <1>2, <1>6, <2>1 DEF OutboxOK
  <2>2. CASE ~(j \in DOMAIN outbox) /\ k \in DOMAIN outbox
    BY <1>4, <2>2
  <2>3. CASE j \in DOMAIN outbox /\ ~(k \in DOMAIN outbox)
    <3>1. Apart(new[k], new[j]) BY <1>4, <2>3
    <3> QED BY <3>1 DEF Apart
  <2>4. CASE ~(j \in DOMAIN outbox) /\ ~(k \in DOMAIN outbox)
    <3>1. /\ j - len \in DOMAIN more /\ new[j] = more[j - len]
          /\ k - len \in DOMAIN more /\ new[k] = more[k - len]
      BY <1>4, <2>4
    <3>2. j - len # k - len BY <1>1, <1>6
    <3> QED BY <3>1, <3>2 DEF OutboxOK
  <2> QED BY <2>1, <2>2, <2>3, <2>4
<1>7. OutboxOK(new, n) BY <1>5, <1>6 DEF OutboxOK
<1>8. \A i \in DOMAIN more : len + i \in DOMAIN new /\ new[len + i] = more[i] BY <1>1, <1>3
<1>9. \A k \in DOMAIN outbox : k \in DOMAIN new /\ new[k] = outbox[k] BY <1>1, <1>2
<1> QED BY <1>4, <1>7, <1>8, <1>9 DEF new

(* tick moves the due windows and loses none. *)
LEMMA TickedKeeps ==
  ASSUME NEW s \in States, NEW jobs, NEW n, NEW t \in Nat, HoldsOnce(s, jobs, n)
  PROVE  LET new == Ticked(s, t)
         IN  /\ HoldsOnce(new, jobs, n)
             /\ \A m : Has(s, jobs, m) => Has(new, jobs, m)
             /\ new.through = s.through /\ new.excluded = s.excluded /\ new.made = s.made
<1> DEFINE D    == {w \in s.windows : Due(w, t)}
           due  == SetToSeq(D)
           more == [i \in DOMAIN due |-> SealWindow(due[i], "elapsed", t)]
           new  == Ticked(s, t)
<1>1. s.outbox \in Seq(Sealed) /\ s.windows \subseteq OpenWindow BY DEF States
<1>2. IsFiniteSet(D) BY FS_Subset DEF HoldsOnce, WindowsOK
<1>3. /\ due \in Seq(D)
      /\ \A x \in D : \E i \in DOMAIN due : due[i] = x
      /\ \A i, j \in DOMAIN due : due[i] = due[j] => i = j
  BY <1>2, SetListed
<1>4. new = [s EXCEPT !.windows = @ \ ToSet(due), !.outbox = @ \o more] BY DEF Ticked
<1>5. D \subseteq s.windows OBVIOUS
<1> HIDE DEF D, due, new
<1>6. /\ DOMAIN due = 1..Len(due) /\ Len(due) \in Nat
      /\ \A i \in DOMAIN due : due[i] \in s.windows /\ due[i] \in D
  BY <1>3, <1>5
<1>7. ToSet(due) = D
  <2>1. \A x \in ToSet(due) : x \in D BY <1>6 DEF ToSet
  <2>2. \A x \in D : x \in ToSet(due) BY <1>3 DEF ToSet
  <2> QED BY <2>1, <2>2
<1>8. DOMAIN more = DOMAIN due /\ more \in Seq(Sealed)
  <2>1. \A i \in DOMAIN due : SealWindow(due[i], "elapsed", t) \in Sealed BY <1>1, <1>6, SealWindowOK
  <2> QED BY <1>6, <2>1
<1>9. \A i \in DOMAIN more : /\ more[i].sources = due[i].sources
                             /\ more[i].openedAt <= more[i].sealedAt
  BY <1>1, <1>6, SealWindowOK
<1> HIDE DEF more
<1>10. new \in States /\ new.windows = s.windows \ D /\ new.outbox = s.outbox \o more
       /\ new.through = s.through /\ new.excluded = s.excluded /\ new.made = s.made
  <2>1. s.outbox \o more \in Seq(Sealed) BY <1>1, <1>8
  <2> QED BY <1>1, <1>4, <1>7, <2>1 DEF States
<1>11. \A i \in DOMAIN more : \A x : (Apart(due[i], x) => Apart(more[i], x)) /\ (Apart(x, due[i]) => Apart(x, more[i]))
  BY <1>9 DEF Apart
<1>12. OutboxOK(more, n)
  <2>1. \A i \in DOMAIN more : Ordered(more[i], n)
    BY <1>6, <1>8, <1>9 DEF HoldsOnce, WindowsOK, Ordered
  <2>2. ASSUME NEW i \in DOMAIN more, NEW j \in DOMAIN more, i # j PROVE Apart(more[i], more[j])
    <3>1. due[i] # due[j] BY <1>3, <1>8, <2>2
    <3>2. Apart(due[i], due[j]) BY <1>6, <1>8, <3>1 DEF HoldsOnce, WindowsOK
    <3> QED BY <1>11, <3>2
  <2> QED BY <1>9, <2>1, <2>2 DEF OutboxOK
<1>13. \A k \in DOMAIN s.outbox, i \in DOMAIN more : Apart(more[i], s.outbox[k])
  BY <1>6, <1>8, <1>11 DEF HoldsOnce, Across
<1>14. OutboxOK(s.outbox, n) BY DEF HoldsOnce
<1>15. /\ OutboxOK(new.outbox, n)
       /\ \A k \in DOMAIN new.outbox :
             \/ k \in DOMAIN s.outbox /\ new.outbox[k] = s.outbox[k]
             \/ \E i \in DOMAIN more : new.outbox[k] = more[i]
       /\ \A k \in DOMAIN s.outbox : k \in DOMAIN new.outbox /\ new.outbox[k] = s.outbox[k]
       /\ \A i \in DOMAIN more : \E k \in DOMAIN new.outbox : new.outbox[k] = more[i]
  <2> DEFINE joined == s.outbox \o more
  <2>1. /\ OutboxOK(joined, n)
        /\ \A k \in DOMAIN joined :
              \/ k \in DOMAIN s.outbox /\ joined[k] = s.outbox[k]
              \/ \E i \in DOMAIN more : joined[k] = more[i]
        /\ \A k \in DOMAIN s.outbox : k \in DOMAIN joined /\ joined[k] = s.outbox[k]
        /\ \A i \in DOMAIN more : \E k \in DOMAIN joined : joined[k] = more[i]
    BY <1>1, <1>8, <1>12, <1>13, <1>14, JoinOutbox
  <2> HIDE DEF joined
  <2>2. new.outbox = joined BY <1>10 DEF joined
  <2> QED BY <2>1, <2>2
<1>16. WindowsOK(new.windows, n)
  <2>1. IsFiniteSet(new.windows) BY <1>10, FS_Subset DEF HoldsOnce, WindowsOK
  <2> QED BY <1>10, <2>1 DEF HoldsOnce, WindowsOK
<1>17. Across(new.windows, new.outbox, jobs)
  <2>1. ASSUME NEW w \in new.windows, NEW i \in DOMAIN more PROVE Apart(w, more[i])
    <3>1. w # due[i] /\ w \in s.windows /\ due[i] \in s.windows BY <1>6, <1>8, <1>10
    <3>2. Apart(w, due[i]) BY <3>1 DEF HoldsOnce, WindowsOK
    <3> QED BY <1>11, <3>2
  <2>2. \A i \in DOMAIN more, l \in jobs : Apart(more[i], l)
    BY <1>6, <1>8, <1>11 DEF HoldsOnce, Across
  <2>3. \A w \in new.windows, k \in DOMAIN new.outbox : Apart(w, new.outbox[k])
    BY <1>10, <1>15, <2>1 DEF HoldsOnce, Across
  <2>4. \A w \in new.windows, l \in jobs : Apart(w, l) BY <1>10 DEF HoldsOnce, Across
  <2>5. \A k \in DOMAIN new.outbox, l \in jobs : new.outbox[k] = l \/ Apart(new.outbox[k], l)
    BY <1>15, <2>2 DEF HoldsOnce, Across
  <2> QED BY <2>3, <2>4, <2>5 DEF Across
<1>18. HoldsOnce(new, jobs, n) BY <1>10, <1>15, <1>16, <1>17 DEF HoldsOnce
<1>19. ASSUME NEW m, Has(s, jobs, m) PROVE Has(new, jobs, m)
  <2>1. ASSUME NEW w \in s.windows, m \in ToSet(w.sources) PROVE Has(new, jobs, m)
    <3>1. CASE w \in D
      <4>1. PICK i \in DOMAIN more : due[i] = w BY <1>3, <1>8, <3>1
      <4>2. m \in ToSet(more[i].sources) BY <1>9, <2>1, <4>1
      <4> QED BY <1>15, <4>2 DEF Has
    <3>2. CASE ~(w \in D) BY <1>10, <2>1, <3>2 DEF Has
    <3> QED BY <3>1, <3>2
  <2>2. ASSUME NEW k \in DOMAIN s.outbox, m \in ToSet(s.outbox[k].sources) PROVE Has(new, jobs, m)
    BY <1>15, <2>2 DEF Has
  <2>3. ASSUME NEW l \in jobs, m \in ToSet(l.sources) PROVE Has(new, jobs, m)
    BY <2>3 DEF Has
  <2> QED BY <1>19, <2>1, <2>2, <2>3 DEF Has
<1> QED BY <1>10, <1>18, <1>19 DEF new

(* The sources of the checkpoint can be counted, and one window less fits. *)
LEMMA UnionOf ==
  ASSUME NEW S, IsFiniteSet(S), NEW f, DOMAIN f = S, \A x \in S : IsFiniteSet(f[x])
  PROVE  IsFiniteSet(UNION {f[x] : x \in S})
<1> DEFINE T == {f[x] : x \in S}
           g == [x \in S |-> f[x]]
<1>1. g \in Surjection(S, T) BY DEF Surjection
<1>2. IsFiniteSet(T) BY <1>1, FS_Surjection
<1> QED BY <1>2, FS_UNION

LEMMA Counted ==
  ASSUME NEW s \in States, IsFiniteSet(s.windows)
  PROVE  /\ IsFiniteSet(InWindows(s.windows)) /\ IsFiniteSet(InOutbox(s.outbox))
         /\ Cardinality(InWindows(s.windows)) \in Nat /\ Cardinality(InOutbox(s.outbox)) \in Nat
<1>1. s.windows \subseteq OpenWindow /\ s.outbox \in Seq(Sealed) BY DEF States
<1>2. \A q \in Seq(Nat) : \A x : IsFiniteSet({x} \X DOMAIN q)
  <2> TAKE q \in Seq(Nat)
  <2> TAKE x
  <2>1. IsFiniteSet(DOMAIN q)
    <3>1. DOMAIN q = 1..Len(q) /\ Len(q) \in Nat OBVIOUS
    <3> QED BY <3>1, FS_Interval
  <2>2. IsFiniteSet({x}) BY FS_Singleton
  <2> QED BY <2>1, <2>2, FS_Product
<1>3. IsFiniteSet(InWindows(s.windows))
  <2> DEFINE f == [w \in s.windows |-> {w} \X DOMAIN w.sources]
  <2>1. \A w \in s.windows : IsFiniteSet(f[w]) BY <1>1, <1>2 DEF OpenWindow
  <2>2. DOMAIN f = s.windows OBVIOUS
  <2>3. InWindows(s.windows) = UNION {f[w] : w \in s.windows} BY DEF InWindows
  <2> HIDE DEF f
  <2> QED BY <2>1, <2>2, <2>3, UnionOf
<1>4. IsFiniteSet(InOutbox(s.outbox))
  <2> DEFINE f == [k \in DOMAIN s.outbox |-> {k} \X DOMAIN s.outbox[k].sources]
  <2>1. \A k \in DOMAIN s.outbox : s.outbox[k] \in Sealed BY <1>1
  <2>2. \A k \in DOMAIN s.outbox : IsFiniteSet(f[k]) BY <1>2, <2>1 DEF Sealed
  <2>3. IsFiniteSet(DOMAIN s.outbox)
    <3>1. DOMAIN s.outbox = 1..Len(s.outbox) /\ Len(s.outbox) \in Nat BY <1>1
    <3> QED BY <3>1, FS_Interval
  <2>4. DOMAIN f = DOMAIN s.outbox OBVIOUS
  <2>5. InOutbox(s.outbox) = UNION {f[k] : k \in DOMAIN s.outbox} BY DEF InOutbox
  <2> HIDE DEF f
  <2> QED BY <2>2, <2>3, <2>4, <2>5, UnionOf
<1> QED BY <1>3, <1>4, FS_CardinalityType

(* The checkpoint without the window that became a job. *)
LEMMA DequeueKeeps ==
  ASSUME NEW s \in States, NEW jobs, NEW n, HoldsOnce(s, jobs, n), Fits(s),
         s.outbox # <<>>, Head(s.outbox) \in jobs, MaxOutbox \in Nat, MaxSources \in Nat
  PROVE  LET new == [s EXCEPT !.outbox = Tail(@)]
         IN  /\ HoldsOnce(new, jobs, n) /\ Fits(new)
             /\ \A m : Has(s, jobs, m) => Has(new, jobs, m)
             /\ new.through = s.through /\ new.excluded = s.excluded /\ new.made = s.made
<1> DEFINE new == [s EXCEPT !.outbox = Tail(@)]
           old == s.outbox
           len == Len(old)
<1>1. old \in Seq(Sealed) BY DEF States
<1>2. /\ len \in Nat \ {0} /\ DOMAIN old = 1..len
      /\ Tail(old) \in Seq(Sealed) /\ DOMAIN Tail(old) = 1..len - 1 /\ Len(Tail(old)) = len - 1
      /\ \A k \in 1..len - 1 : Tail(old)[k] = old[k + 1]
      /\ Head(old) = old[1]
  BY <1>1
<1>3. /\ new \in States /\ new.windows = s.windows /\ new.outbox = Tail(old)
      /\ new.through = s.through /\ new.excluded = s.excluded /\ new.made = s.made
  BY <1>2 DEF States
<1> HIDE DEF new, old, len
<1>4. \A k \in DOMAIN new.outbox : k + 1 \in DOMAIN old /\ new.outbox[k] = old[k + 1] /\ k \in Nat
  BY <1>2, <1>3
<1>5. OutboxOK(new.outbox, n)
  <2>1. \A k \in DOMAIN new.outbox : Ordered(new.outbox[k], n)
                                    /\ new.outbox[k].openedAt <= new.outbox[k].sealedAt
    BY <1>4 DEF HoldsOnce, OutboxOK, old
  <2>2. ASSUME NEW j \in DOMAIN new.outbox, NEW k \in DOMAIN new.outbox, j # k
        PROVE  Apart(new.outbox[j], new.outbox[k])
    <3>1. j + 1 # k + 1 BY <1>4, <2>2
    <3> QED BY <1>4, <3>1 DEF HoldsOnce, OutboxOK, old
  <2> QED BY <2>1, <2>2 DEF OutboxOK
<1>6. Across(new.windows, new.outbox, jobs)
  BY <1>3, <1>4 DEF HoldsOnce, Across, old
<1>7. HoldsOnce(new, jobs, n) BY <1>3, <1>5, <1>6 DEF HoldsOnce
<1>8. ASSUME NEW m, Has(s, jobs, m) PROVE Has(new, jobs, m)
  <2>1. ASSUME NEW k \in DOMAIN old, m \in ToSet(old[k].sources) PROVE Has(new, jobs, m)
    <3>1. CASE k = 1 BY <1>2, <2>1, <3>1 DEF Has, old
    <3>2. CASE k # 1
      <4>1. k - 1 \in DOMAIN new.outbox /\ new.outbox[k - 1] = old[(k - 1) + 1] /\ (k - 1) + 1 = k
        BY <1>2, <1>3, <3>2
      <4> QED BY <2>1, <4>1 DEF Has
    <3> QED BY <3>1, <3>2
  <2> QED BY <1>3, <1>8, <2>1 DEF Has, old
<1>9. Fits(new)
  <2> DEFINE A == InOutbox(new.outbox)
             B == InOutbox(old)
             f == [x \in A |-> <<x[1] + 1, x[2]>>]
  <2>1. /\ IsFiniteSet(B) /\ Cardinality(B) \in Nat /\ Cardinality(InWindows(s.windows)) \in Nat
    BY Counted DEF HoldsOnce, WindowsOK, old
  <2>2. \A x \in A : /\ x = <<x[1], x[2]>> /\ x[1] \in DOMAIN new.outbox
                     /\ x[2] \in DOMAIN new.outbox[x[1]].sources
    BY DEF InOutbox
  <2>3. \A x \in A : <<x[1] + 1, x[2]>> \in B
    <3> TAKE x \in A
    <3>1. x[1] + 1 \in DOMAIN old /\ x[2] \in DOMAIN old[x[1] + 1].sources BY <1>4, <2>2
    <3> QED BY <3>1 DEF InOutbox
  <2>4. \A x, y \in A : <<x[1] + 1, x[2]>> = <<y[1] + 1, y[2]>> => x = y
    <3> SUFFICES ASSUME NEW x \in A, NEW y \in A, x[1] + 1 = y[1] + 1, x[2] = y[2]
                 PROVE  x = y
      OBVIOUS
    <3>1. x[1] \in Nat /\ y[1] \in Nat BY <1>4, <2>2
    <3>2. x[1] = y[1] BY <3>1
    <3> QED BY <2>2, <3>2
  <2> HIDE DEF A, B
  <2>5. f \in Injection(A, B) BY <2>3, <2>4 DEF Injection, IsInjective
  <2>6. Cardinality(A) \in Nat /\ Cardinality(A) <= Cardinality(B)
    BY <2>1, <2>5, FS_Injection, FS_CardinalityType
  <2>7. Len(new.outbox) <= MaxOutbox BY <1>2, <1>3 DEF Fits, old, len
  <2>8. SourceCount(new) <= MaxSources
    <3>1. Cardinality(InWindows(s.windows)) + Cardinality(B) <= MaxSources
      BY DEF Fits, SourceCount, B, old
    <3>2. SourceCount(new) = Cardinality(InWindows(s.windows)) + Cardinality(A)
      BY <1>3 DEF SourceCount, A
    <3> QED BY <2>1, <2>6, <3>1, <3>2
  <2> QED BY <2>7, <2>8 DEF Fits
<1> QED BY <1>3, <1>7, <1>8, <1>9 DEF new

(* The head of the outbox becomes a job. *)
LEMMA DeliverKeeps ==
  ASSUME NEW s \in States, NEW jobs, NEW n, HoldsOnce(s, jobs, n), s.outbox # <<>>
  PROVE  /\ HoldsOnce(s, jobs \cup {Head(s.outbox)}, n)
         /\ \A m : Has(s, jobs, m) => Has(s, jobs \cup {Head(s.outbox)}, m)
<1> DEFINE w == Head(s.outbox)
<1>1. /\ 1 \in DOMAIN s.outbox /\ w = s.outbox[1] /\ w \in Sealed
  <2>1. s.outbox \in Seq(Sealed) BY DEF States
  <2> QED BY <2>1
<1> HIDE DEF w
<1>2. \A k \in DOMAIN s.outbox : s.outbox[k] = w \/ Apart(s.outbox[k], w)
  BY <1>1 DEF HoldsOnce, OutboxOK
<1>3. \A l \in jobs : w # l => Apart(w, l) /\ Apart(l, w)
  BY <1>1 DEF HoldsOnce, Across, Apart
<1>4. LedgerOK(jobs \cup {w}, n)
  BY <1>1, <1>3 DEF HoldsOnce, LedgerOK, OutboxOK
<1>5. Across(s.windows, s.outbox, jobs \cup {w})
  BY <1>1, <1>2 DEF HoldsOnce, Across
<1>6. HoldsOnce(s, jobs \cup {w}, n) BY <1>4, <1>5 DEF HoldsOnce
<1>7. \A m : Has(s, jobs, m) => Has(s, jobs \cup {w}, m) BY DEF Has
<1> QED BY <1>6, <1>7 DEF w

(* What is saved is untouched by most steps, and each operation keeps its place. *)
LEMMA SavedKept ==
  ASSUME SavedInv, UNCHANGED <<saved, ledger, dropped, ack, handled>>
  PROVE  SavedInv'
BY DEF SavedInv

LEMMA InitInv == ASSUME SchedulerInit PROVE SchedulerInv
<1>1. Absent \in States
  <2>1. <<>> \in Seq(Sealed) OBVIOUS
  <2> QED BY <2>1 DEF Absent, States
<1>2. Idle \in Calls BY DEF Idle, Calls
<1>3. IsFiniteSet({}) /\ Cardinality({}) = 0 BY FS_EmptySet
<1>4. SchedulerTypes BY <1>1, <1>2, <1>3 DEF SchedulerInit, SchedulerTypes
<1>5. HoldsOnce(Absent, {}, 0)
  BY <1>1, <1>3 DEF HoldsOnce, Absent, WindowsOK, OutboxOK, LedgerOK, Across
<1>6. Fits(Absent)
  <2>1. InWindows({}) = {} /\ InOutbox(<<>>) = {} BY DEF InWindows, InOutbox
  <2>2. Absent.windows = {} /\ Absent.outbox = <<>> BY DEF Absent
  <2>3. SourceCount(Absent) = 0
    <3>1. SourceCount(Absent) = Cardinality(InWindows({})) + Cardinality(InOutbox(<<>>))
      BY <2>2 DEF SourceCount
    <3>2. Cardinality(InWindows({})) = 0 /\ Cardinality(InOutbox(<<>>)) = 0 BY <1>3, <2>1
    <3> QED BY <3>1, <3>2
  <2>4. Len(Absent.outbox) = 0 BY <2>2
  <2> QED BY <2>3, <2>4, SchedulerAssumption DEF Fits
<1>7. SavedInv
  <2>1. saved = Absent /\ saved.through = 0 /\ saved.excluded = 0 /\ ledger = {} /\ dropped = {}
        /\ ack = 0 /\ handled = 0
    BY DEF SchedulerInit, Absent
  <2>2. 1..0 = {} OBVIOUS
  <2> QED BY <1>3, <1>5, <1>6, <2>1, <2>2 DEF SavedInv
<1>8. OperationInv BY DEF SchedulerInit, OperationInv, Working, Idle
<1> QED BY <1>4, <1>7, <1>8 DEF SchedulerInv

(* Calls and turns. *)
LEMMA CallKeeps ==
  ASSUME SchedulerInv,
         \/ \E part \in Partitions, last \in BOOLEAN : CallObserve(part, last)
         \/ CallObserve("excluded", FALSE) \/ CallTick \/ \E c \in {"observe", "tick"} : Begin(c)
  PROVE  SchedulerInv'
<1> USE DEF SchedulerInv, outside
<1>1. ASSUME NEW part \in Partitions \cup {"excluded"}, NEW last \in BOOLEAN, CallObserve(part, last)
      PROVE  SchedulerInv'
  <2> DEFINE o == [on |-> TRUE, t |-> now, seq |-> handled + 1, part |-> part, last |-> last]
  <2>1. o \in Calls BY DEF SchedulerTypes, Calls
  <2>2. /\ call' = [call EXCEPT !["observe"] = o] /\ pc # "down" /\ ~call["observe"].on
        /\ UNCHANGED <<saved, mem, draft, pc, cur, final, outside>>
    BY <1>1 DEF CallObserve
  <2>3. o.on /\ o.seq = handled + 1 OBVIOUS
  <2> HIDE DEF o
  <2>4. /\ call' \in [{"observe", "tick"} -> Calls]
        /\ call'["observe"] = o /\ call'["tick"] = call["tick"]
    BY <2>1, <2>2 DEF SchedulerTypes
  <2>5. SchedulerTypes' BY <2>2, <2>4 DEF SchedulerTypes
  <2>6. SavedInv' BY <2>2, SavedKept
  <2>7. ~(Working /\ cur = "observe") BY <2>2 DEF OperationInv, Working
  <2>8. OperationInv'
    BY <2>2, <2>3, <2>4, <2>7 DEF OperationInv, Working, SeenBefore, SchedulerTypes
  <2> QED BY <2>5, <2>6, <2>8
<1>2. ASSUME CallTick PROVE SchedulerInv'
  <2> DEFINE o == [Idle EXCEPT !.on = TRUE, !.t = now]
  <2>1. o \in Calls BY DEF SchedulerTypes, Calls, Idle
  <2>2. /\ call' = [call EXCEPT !["tick"] = o] /\ pc # "down" /\ ~call["tick"].on
        /\ UNCHANGED <<saved, mem, draft, pc, cur, final, outside>>
    BY <1>2 DEF CallTick
  <2>3. o.on BY DEF Idle
  <2> HIDE DEF o
  <2>4. /\ call' \in [{"observe", "tick"} -> Calls]
        /\ call'["tick"] = o /\ call'["observe"] = call["observe"]
    BY <2>1, <2>2 DEF SchedulerTypes
  <2>5. SchedulerTypes' BY <2>2, <2>4 DEF SchedulerTypes
  <2>6. SavedInv' BY <2>2, SavedKept
  <2>7. ~(Working /\ cur = "tick") BY <2>2 DEF OperationInv, Working
  <2>8. OperationInv'
    BY <2>2, <2>3, <2>4, <2>7 DEF OperationInv, Working, SeenBefore, SchedulerTypes
  <2> QED BY <2>5, <2>6, <2>8
<1>3. ASSUME NEW c \in {"observe", "tick"}, Begin(c) PROVE SchedulerInv'
  <2>1. SchedulerTypes' BY <1>3 DEF SchedulerTypes, Begin
  <2>2. SavedInv' BY <1>3, SavedKept DEF Begin
  <2>3. OperationInv' BY <1>3 DEF OperationInv, Begin, Working
  <2> QED BY <2>1, <2>2, <2>3
<1> QED BY <1>1, <1>2, <1>3

(* The checkpoint is opened where the consumer is, or as it was. *)
LEMMA OpenKeeps == ASSUME SchedulerInv, OpenCheckpoint PROVE SchedulerInv'
<1> USE DEF SchedulerInv
<1>1. /\ saved' \in States /\ saved'.windows = saved.windows /\ saved'.outbox = saved.outbox
      /\ saved'.excluded = saved.excluded /\ saved'.through = saved.through /\ saved'.made
  <2>1. CASE saved.made BY <2>1 DEF OpenCheckpoint, SchedulerTypes
  <2>2. CASE ~saved.made
    <3>1. saved = Absent /\ ack = 0 /\ saved' = [Absent EXCEPT !.through = ack, !.made = TRUE]
      BY <2>2 DEF OpenCheckpoint, SavedInv
    <3> QED BY <3>1 DEF SchedulerTypes, Absent, States
  <2> QED BY <2>1, <2>2
<1>2. SchedulerTypes' BY <1>1 DEF SchedulerTypes, OpenCheckpoint
<1>3. SavedInv'
  <2>1. HoldsOnce(saved', ledger, saved'.through) BY <1>1 DEF SavedInv, HoldsOnce
  <2>2. Fits(saved') BY <1>1 DEF SavedInv, Fits, SourceCount
  <2>3. \A n : Has(saved, ledger, n) => Has(saved', ledger, n) BY <1>1 DEF Has
  <2> QED BY <1>1, <2>1, <2>2, <2>3 DEF SavedInv, OpenCheckpoint
<1>4. OperationInv' BY <1>1 DEF OperationInv, OpenCheckpoint, Working
<1> QED BY <1>2, <1>3, <1>4

(* flush. *)
LEMMA FlushKeeps ==
  ASSUME SchedulerInv, Deliver \/ Dequeue \/ Flushed
  PROVE  SchedulerInv'
<1> USE DEF SchedulerInv, outside
<1>1. ASSUME Deliver PROVE SchedulerInv'
  <2> DEFINE w == Head(saved.outbox)
  <2>1. pc = "flush" /\ mem = saved /\ saved.outbox # <<>> BY <1>1 DEF Deliver, OperationInv
  <2>2. /\ ledger' = ledger \/ ledger' = ledger \cup {w}
        /\ pc' = "dequeue" => w \in ledger'
        /\ pc' \in {"dequeue", AfterFlush}
    BY <1>1, <2>1 DEF Deliver, AfterFlush
  <2>3. UNCHANGED <<saved, mem, draft, cur, final, call, handled, ack, dropped, now>>
    BY <1>1 DEF Deliver
  <2> HIDE DEF w
  <2>4. SchedulerTypes' BY <2>2, <2>3 DEF SchedulerTypes, AfterFlush
  <2>5. SavedInv'
    <3>1. CASE ledger' = ledger BY <2>3, <3>1, SavedKept
    <3>2. CASE ledger' = ledger \cup {w}
      <4>1. /\ HoldsOnce(saved, ledger \cup {w}, saved.through)
            /\ \A m : Has(saved, ledger, m) => Has(saved, ledger \cup {w}, m)
        BY <2>1, DeliverKeeps DEF SavedInv, SchedulerTypes, w
      <4> QED BY <2>3, <3>2, <4>1 DEF SavedInv
    <3> QED BY <2>2, <3>1, <3>2
  <2>6. OperationInv'
    BY <2>1, <2>2, <2>3 DEF OperationInv, Working, AfterFlush, w
  <2> QED BY <2>4, <2>5, <2>6
<1>2. ASSUME Dequeue PROVE SchedulerInv'
  <2> DEFINE new == [saved EXCEPT !.outbox = Tail(@)]
  <2>1. /\ pc = "dequeue" /\ pc' = "flush" /\ mem = saved /\ saved.made
        /\ saved.outbox # <<>> /\ Head(saved.outbox) \in ledger
        /\ saved' = new /\ mem' = new
        /\ UNCHANGED <<draft, cur, final, call, outside>>
    BY <1>2 DEF Dequeue, OperationInv
  <2>2. /\ HoldsOnce(new, ledger, saved.through) /\ Fits(new)
        /\ \A m : Has(saved, ledger, m) => Has(new, ledger, m)
        /\ new.through = saved.through /\ new.excluded = saved.excluded /\ new.made = saved.made
    BY <2>1, DequeueKeeps, SchedulerAssumption DEF SavedInv, SchedulerTypes
  <2> HIDE DEF new
  <2>3. new \in States BY <2>2 DEF HoldsOnce
  <2>4. SchedulerTypes' BY <2>1, <2>3 DEF SchedulerTypes
  <2>5. SavedInv' BY <2>1, <2>2 DEF SavedInv
  <2>6. OperationInv' BY <2>1, <2>2 DEF OperationInv, Working
  <2> QED BY <2>4, <2>5, <2>6
<1>3. ASSUME Flushed PROVE SchedulerInv'
  <2>1. SchedulerTypes' BY <1>3 DEF SchedulerTypes, Flushed, AfterFlush
  <2>2. SavedInv' BY <1>3, SavedKept DEF Flushed
  <2>3. OperationInv' BY <1>3 DEF OperationInv, Flushed, Working, AfterFlush
  <2> QED BY <2>1, <2>2, <2>3
<1> QED BY <1>1, <1>2, <1>3

(* The bodies of observe and tick compute the draft. *)
LEMMA BodyKeeps ==
  ASSUME SchedulerInv, ObserveSeen \/ ObserveNew \/ ObserveRefused \/ Tick
  PROVE  SchedulerInv'
<1> USE DEF SchedulerInv, outside
<1>1. ASSUME ObserveSeen PROVE SchedulerInv'
  <2>1. SchedulerTypes' BY <1>1 DEF SchedulerTypes, ObserveSeen
  <2>2. SavedInv' BY <1>1, SavedKept DEF ObserveSeen
  <2>3. OperationInv' BY <1>1 DEF OperationInv, ObserveSeen, Working, SeenBefore
  <2> QED BY <2>1, <2>2, <2>3
<1>2. ASSUME ObserveNew PROVE SchedulerInv'
  <2> DEFINE o   == call["observe"]
             new == Observed(saved, o)
  <2>1. /\ pc = "body" /\ cur = "observe" /\ ~SeenBefore /\ mem = saved /\ saved.made
        /\ o.on /\ o.seq = handled + 1
        /\ UNCHANGED <<saved, mem, cur, final, call, outside>>
    BY <1>2 DEF ObserveNew, OperationInv, Working
  <2>2. o \in Calls BY DEF SchedulerTypes
  <2>3. o.seq = saved.through + 1
    BY <2>1 DEF SeenBefore, SavedInv, SchedulerTypes, States
  <2>4. new \in States
    <3>1. HoldsOnce(new, ledger, o.seq) BY <2>2, <2>3, ObservedKeeps DEF SavedInv, SchedulerTypes
    <3> QED BY <3>1 DEF HoldsOnce
  <2>5. IF Fits(new) THEN draft' = new /\ pc' = "persist" ELSE pc' = "refused" /\ UNCHANGED draft
    BY <1>2, <2>1 DEF ObserveNew
  <2> HIDE DEF new, o
  <2>6. SchedulerTypes' BY <2>1, <2>4, <2>5 DEF SchedulerTypes
  <2>7. SavedInv' BY <2>1, SavedKept
  <2>8. OperationInv'
    BY <2>1, <2>5 DEF OperationInv, Working, SeenBefore, new, o
  <2> QED BY <2>6, <2>7, <2>8
<1>3. ASSUME ObserveRefused PROVE SchedulerInv'
  <2>1. Idle \in Calls /\ ~Idle.on BY DEF Idle, Calls
  <2>2. /\ call' \in [{"observe", "tick"} -> Calls]
        /\ ~call'["observe"].on
    BY <1>3, <2>1 DEF ObserveRefused, SchedulerTypes
  <2>3. SchedulerTypes' BY <1>3, <2>2 DEF SchedulerTypes, ObserveRefused
  <2>4. SavedInv' BY <1>3, SavedKept DEF ObserveRefused
  <2>5. OperationInv' BY <1>3, <2>2 DEF OperationInv, ObserveRefused, Working
  <2> QED BY <2>3, <2>4, <2>5
<1>4. ASSUME Tick PROVE SchedulerInv'
  <2> DEFINE new == Ticked(saved, call["tick"].t)
  <2>1. /\ pc = "body" /\ cur = "tick" /\ mem = saved /\ saved.made
        /\ UNCHANGED <<saved, mem, cur, final, call, outside>>
    BY <1>4 DEF Tick, OperationInv
  <2>2. call["tick"].t \in Nat BY DEF SchedulerTypes, Calls
  <2>3. new \in States
    <3>1. HoldsOnce(new, ledger, saved.through) BY <2>2, TickedKeeps DEF SavedInv, SchedulerTypes
    <3> QED BY <3>1 DEF HoldsOnce
  <2>4. \/ Fits(new) /\ draft' = new /\ pc' = "persist"
        \/ pc' = "return" /\ UNCHANGED draft
    BY <1>4, <2>1 DEF Tick
  <2> HIDE DEF new
  <2>5. SchedulerTypes' BY <2>1, <2>3, <2>4 DEF SchedulerTypes
  <2>6. SavedInv' BY <2>1, SavedKept
  <2>7. OperationInv' BY <2>1, <2>4 DEF OperationInv, Working, new
  <2> QED BY <2>5, <2>6, <2>7
<1> QED BY <1>1, <1>2, <1>3, <1>4

(* The draft becomes what is saved: one event further, or its windows sealed. *)
LEMMA PersistKeeps == ASSUME SchedulerInv, Persist PROVE SchedulerInv'
<1> USE DEF SchedulerInv
<1> DEFINE o == call["observe"]
           n == saved.through
<1>1. /\ pc = "persist" /\ pc' = "flush" /\ final' = TRUE /\ saved' = draft /\ mem' = draft
      /\ dropped' = dropped \cup Drops /\ draft' = Absent
      /\ UNCHANGED <<cur, call, handled, ack, ledger, open, now>>
      /\ Fits(draft) /\ saved.made /\ draft \in States
  BY DEF Persist, OperationInv, SchedulerTypes
<1>2. o \in Calls /\ o.part \in Partitions \cup {"excluded"} BY DEF SchedulerTypes, Calls
<1>3. Absent \in States
  <2>1. <<>> \in Seq(Sealed) OBVIOUS
  <2> QED BY <2>1 DEF Absent, States
<1>4. n \in Nat /\ saved.excluded \in Nat BY DEF SchedulerTypes, States
<1>5. CASE cur = "observe" /\ ~SeenBefore /\ draft = Observed(saved, o)
  <2>1. o.seq = n + 1
    BY <1>1, <1>5 DEF SeenBefore, SavedInv, SchedulerTypes, States, OperationInv, Working
  <2>2. /\ HoldsOnce(draft, ledger, o.seq)
        /\ \A x : Has(saved, ledger, x) => Has(draft, ledger, x)
        /\ draft.through = o.seq /\ draft.made = saved.made
        /\ IF o.part = "excluded" THEN draft.excluded = saved.excluded + 1
           ELSE draft.excluded = saved.excluded /\ Has(draft, ledger, o.seq)
    BY <1>2, <1>5, <2>1, ObservedKeeps DEF SavedInv, SchedulerTypes
  <2>3. Drops = IF o.part = "excluded" THEN {o.seq} ELSE {} BY <1>5 DEF Drops
  <2>4. /\ IsFiniteSet(dropped') /\ dropped' \subseteq 1..o.seq
        /\ draft.excluded = Cardinality(dropped')
    <3>1. IsFiniteSet(dropped) /\ dropped \subseteq 1..n /\ saved.excluded = Cardinality(dropped)
      BY DEF SavedInv, SchedulerTypes
    <3>2. dropped \subseteq 1..o.seq /\ ~(o.seq \in dropped) BY <1>4, <2>1, <3>1
    <3>3. CASE o.part = "excluded"
      <4>1. dropped' = dropped \cup {o.seq} BY <1>1, <2>3, <3>3
      <4>2. IsFiniteSet(dropped') /\ Cardinality(dropped') = Cardinality(dropped) + 1
        BY <3>1, <3>2, <4>1, FS_AddElement
      <4>3. o.seq \in 1..o.seq BY <1>4, <2>1
      <4> QED BY <2>2, <3>1, <3>2, <3>3, <4>1, <4>2, <4>3
    <3>4. CASE o.part # "excluded"
      <4>1. dropped' = dropped BY <1>1, <2>3, <3>4
      <4> QED BY <2>2, <3>1, <3>2, <3>4, <4>1
    <3> QED BY <3>3, <3>4
  <2>5. ASSUME NEW x \in 1..o.seq PROVE x \in dropped' \/ Has(draft, ledger, x)
    <3>1. CASE x = o.seq BY <1>1, <2>2, <2>3, <3>1
    <3>2. CASE x # o.seq
      <4>1. x \in 1..n BY <1>4, <2>1, <3>2
      <4> QED BY <1>1, <2>2, <4>1 DEF SavedInv
    <3> QED BY <3>1, <3>2
  <2>6. SavedInv' BY <1>1, <1>4, <2>1, <2>2, <2>4, <2>5 DEF SavedInv, SchedulerTypes
  <2>7. SchedulerTypes' BY <1>1, <1>3, <2>4 DEF SchedulerTypes
  <2>8. OperationInv'
    <3>1. o.seq \in Nat BY <1>4, <2>1
    <3> QED BY <1>1, <1>5, <2>2, <3>1 DEF OperationInv, Working
  <2> QED BY <2>6, <2>7, <2>8
<1>6. CASE cur = "tick" /\ draft = Ticked(saved, call["tick"].t)
  <2>1. call["tick"].t \in Nat BY DEF SchedulerTypes, Calls
  <2>2. /\ HoldsOnce(draft, ledger, n)
        /\ \A m : Has(saved, ledger, m) => Has(draft, ledger, m)
        /\ draft.through = n /\ draft.excluded = saved.excluded /\ draft.made = saved.made
    BY <1>6, <2>1, TickedKeeps DEF SavedInv, SchedulerTypes
  <2>3. dropped' = dropped BY <1>1, <1>6 DEF Drops
  <2>4. SavedInv' BY <1>1, <2>2, <2>3 DEF SavedInv
  <2>5. SchedulerTypes' BY <1>1, <1>3, <2>3 DEF SchedulerTypes
  <2>6. OperationInv' BY <1>1, <1>6, <2>2 DEF OperationInv, Working
  <2> QED BY <2>4, <2>5, <2>6
<1> QED BY <1>1, <1>5, <1>6 DEF OperationInv

(* The operation returns; the consumer, the jobs, the clock and the process move on. *)
LEMMA OtherKeeps ==
  ASSUME SchedulerInv,
         \/ Return \/ Acknowledge \/ TimePasses \/ ClockBack \/ SchedulerCrash \/ ResetCursor
         \/ \E w \in open : JobEnds(w)
  PROVE  SchedulerInv'
<1> USE DEF SchedulerInv
<1>1. Idle \in Calls /\ ~Idle.on BY DEF Idle, Calls
<1>2. ASSUME Return PROVE SchedulerInv'
  <2>1. /\ call' \in [{"observe", "tick"} -> Calls]
        /\ \A c \in {"observe", "tick"} : call'[c] = IF c = cur THEN Idle ELSE call[c]
    BY <1>1, <1>2 DEF Return, SchedulerTypes
  <2>2. /\ handled' \in Nat /\ handled' <= saved.through
        /\ handled' = IF cur = "observe" THEN call[cur].seq ELSE handled
    BY <1>2 DEF Return, SchedulerTypes, SavedInv, OperationInv, Calls
  <2>3. SchedulerTypes' BY <1>2, <2>1, <2>2 DEF Return, SchedulerTypes
  <2>4. SavedInv' BY <1>2, <2>2 DEF Return, SavedInv
  <2>5. OperationInv' BY <1>1, <1>2, <2>1, <2>2 DEF Return, OperationInv, Working
  <2> QED BY <2>3, <2>4, <2>5
<1>3. ASSUME Acknowledge PROVE SchedulerInv'
  <2>1. SchedulerTypes' BY <1>3 DEF Acknowledge, SchedulerTypes
  <2>2. SavedInv' BY <1>3 DEF Acknowledge, SavedInv, OperationInv
  <2>3. OperationInv' BY <1>3 DEF Acknowledge, OperationInv, Working, SeenBefore
  <2> QED BY <2>1, <2>2, <2>3
<1>4. ASSUME TimePasses \/ ClockBack \/ \E w \in open : JobEnds(w) PROVE SchedulerInv'
  <2>1. /\ UNCHANGED <<saved, mem, draft, pc, cur, final, call, handled, ack, ledger, dropped>>
        /\ now' \in Nat
    BY <1>4 DEF TimePasses, ClockBack, JobEnds, SchedulerTypes
  <2>2. SchedulerTypes' BY <2>1 DEF SchedulerTypes
  <2>3. SavedInv' BY <2>1, SavedKept
  <2>4. OperationInv' BY <2>1 DEF OperationInv, Working, SeenBefore
  <2> QED BY <2>2, <2>3, <2>4
<1>5. ASSUME SchedulerCrash PROVE SchedulerInv'
  <2>1. Absent \in States
    <3>1. <<>> \in Seq(Sealed) OBVIOUS
    <3> QED BY <3>1 DEF Absent, States
  <2>2. /\ call' \in [{"observe", "tick"} -> Calls] /\ ~call'["observe"].on
        /\ pc' = "down" /\ mem' = Absent /\ draft' = Absent
        /\ UNCHANGED <<saved, cur, final, handled, ledger, dropped, now, ack>>
    BY <1>1, <1>5 DEF SchedulerCrash, SchedulerStops
  <2>3. SchedulerTypes' BY <2>1, <2>2 DEF SchedulerTypes
  <2>4. SavedInv' BY <2>2, SavedKept
  <2>5. OperationInv' BY <2>2 DEF OperationInv, Working
  <2> QED BY <2>3, <2>4, <2>5
<1>6. ASSUME ResetCursor PROVE SchedulerInv'
  <2>1. SchedulerTypes' BY <1>6 DEF ResetCursor, SchedulerTypes
  <2>2. SavedInv' BY <1>6 DEF ResetCursor, SavedInv, SchedulerTypes, States
  <2>3. OperationInv' BY <1>6 DEF ResetCursor, OperationInv, Working, SeenBefore
  <2> QED BY <2>1, <2>2, <2>3
<1> QED BY <1>2, <1>3, <1>4, <1>5, <1>6

(* The inductive invariant. *)
THEOREM SchedulerKept == SchedulerSpec => []SchedulerInv
<1>1. SchedulerInit => SchedulerInv BY InitInv
<1>2. SchedulerInv /\ [SchedulerNext]_schedulerVars => SchedulerInv'
  <2> SUFFICES ASSUME SchedulerInv, [SchedulerNext]_schedulerVars PROVE SchedulerInv' OBVIOUS
  <2>1. CASE UNCHANGED schedulerVars
    BY <2>1 DEF schedulerVars, SchedulerInv, SchedulerTypes, SavedInv, OperationInv, Working, SeenBefore
  <2>2. CASE SchedulerNext
    BY <2>2, CallKeeps, OpenKeeps, FlushKeeps, BodyKeeps, PersistKeeps, OtherKeeps DEF SchedulerNext
  <2> QED BY <2>1, <2>2
<1> QED BY <1>1, <1>2, PTL DEF SchedulerSpec

LEMMA InvGives == ASSUME SchedulerInv PROVE EachSourceOnce
<1> USE DEF SchedulerInv
<1>1. HoldsOnce(saved, ledger, saved.through) /\ saved \in States /\ Fits(saved)
  BY DEF SavedInv, SchedulerTypes
<1>2. saved.windows \subseteq OpenWindow /\ saved.outbox \in Seq(Sealed) /\ saved.through \in Nat
  BY <1>1 DEF States
<1>3. \A w \in saved.windows : SealWindow(w, "elapsed", 0).sources = w.sources
  BY DEF SealWindow
<1>4. ToSet(saved.outbox) = {saved.outbox[k] : k \in DOMAIN saved.outbox} BY DEF ToSet
<1>5. SourceOnce
  <2> SUFFICES ASSUME NEW v \in AllWindows, NEW w \in AllWindows, v # w PROVE Apart(v, w)
    BY DEF SourceOnce, Apart
  <2> DEFINE Placed(x) == \/ \E y \in saved.windows : x = SealWindow(y, "elapsed", 0)
                          \/ \E k \in DOMAIN saved.outbox : x = saved.outbox[k]
                          \/ x \in ledger
  <2>1. Placed(v) /\ Placed(w) BY <1>4 DEF AllWindows
  <2>2. \A x, y : Apart(x, y) => Apart(y, x) BY DEF Apart
  <2>3. ASSUME NEW x \in saved.windows, v = SealWindow(x, "elapsed", 0) PROVE Apart(v, w)
    <3>1. \A z : Apart(x, z) => Apart(v, z) BY <1>3, <2>3 DEF Apart
    <3>2. ASSUME NEW y \in saved.windows, w = SealWindow(y, "elapsed", 0) PROVE Apart(v, w)
      <4>1. x # y BY <2>3, <3>2
      <4>2. Apart(x, y) BY <1>1, <4>1 DEF HoldsOnce, WindowsOK
      <4>3. Apart(v, y) BY <3>1, <4>2
      <4> QED BY <1>3, <3>2, <4>3 DEF Apart
    <3> QED BY <1>1, <2>1, <3>1, <3>2 DEF HoldsOnce, Across
  <2>4. ASSUME NEW y \in saved.windows, w = SealWindow(y, "elapsed", 0),
               v \in ledger \/ \E k \in DOMAIN saved.outbox : v = saved.outbox[k]
        PROVE  Apart(v, w)
    <3>1. Apart(y, v) BY <1>1, <2>4 DEF HoldsOnce, Across
    <3>2. Apart(v, y) BY <2>2, <3>1
    <3> QED BY <1>3, <2>4, <3>2 DEF Apart
  <2>5. ASSUME v \in ledger \/ \E k \in DOMAIN saved.outbox : v = saved.outbox[k],
               w \in ledger \/ \E k \in DOMAIN saved.outbox : w = saved.outbox[k]
        PROVE  Apart(v, w)
    BY <1>1, <2>2, <2>5 DEF HoldsOnce, Across, OutboxOK, LedgerOK
  <2> QED BY <2>1, <2>3, <2>4, <2>5
<1>6. NoneSkipped
  <2>1. ASSUME NEW n \in 1..ack
        PROVE  n \in dropped \/ \E w \in AllWindows : n \in ToSet(w.sources)
    <3>1. n \in 1..saved.through BY <1>2 DEF SavedInv, SchedulerTypes
    <3>2. n \in dropped \/ Has(saved, ledger, n) BY <3>1 DEF SavedInv
    <3>3. ASSUME NEW w \in saved.windows, n \in ToSet(w.sources)
          PROVE  \E x \in AllWindows : n \in ToSet(x.sources)
      <4>1. SealWindow(w, "elapsed", 0) \in AllWindows BY DEF AllWindows
      <4> QED BY <1>3, <3>3, <4>1
    <3> QED BY <1>4, <3>2, <3>3 DEF Has, AllWindows
  <2> QED BY <2>1 DEF NoneSkipped, SavedInv
<1>7. CheckpointValid
  <2>1. ASSUME NEW w \in saved.windows \cup ToSet(saved.outbox)
        PROVE  /\ w.sources # <<>>
               /\ \A i \in 2..Len(w.sources) : w.sources[i - 1] < w.sources[i]
               /\ Last(w.sources) <= saved.through
    <3>1. w.sources \in Seq(Nat)
      <4>1. CASE w \in saved.windows BY <1>2, <4>1 DEF OpenWindow
      <4>2. CASE w \in ToSet(saved.outbox)
        <5>1. w \in Sealed BY <1>2, <1>4, <4>2
        <5> QED BY <5>1 DEF Sealed
      <4> QED BY <4>1, <4>2
    <3>2. Ordered(w, saved.through) BY <1>1, <1>4 DEF HoldsOnce, WindowsOK, OutboxOK
    <3>3. /\ DOMAIN w.sources = 1..Len(w.sources) /\ Len(w.sources) \in Nat
          /\ w.sources # <<>> => Len(w.sources) # 0
      BY <3>1
    <3>4. Last(w.sources) = w.sources[Len(w.sources)] BY DEF Last
    <3> QED BY <3>2, <3>3, <3>4 DEF Ordered
  <2>2. \A w \in ToSet(saved.outbox) : w.openedAt <= w.sealedAt
    BY <1>1, <1>4 DEF HoldsOnce, OutboxOK
  <2>3. \A v, w \in saved.windows : v # w => v.part # w.part BY <1>1 DEF HoldsOnce, WindowsOK
  <2> QED BY <1>1, <2>1, <2>2, <2>3 DEF CheckpointValid
<1> QED BY <1>5, <1>6, <1>7 DEF EachSourceOnce

(* An acknowledged event is in exactly one window or was counted as excluded, whatever is
   delivered again and whenever the process dies, and the scheduler can open what it wrote. *)
THEOREM EachSourceOnceHolds ==
  SchedulerSpec => []EachSourceOnce
BY SchedulerKept, InvGives, PTL

-----------------------------------------------------------------------------
(***************************************************************************)
(* The lanes of the worker, for any jobs, kinds, events and limits: what   *)
(* an acknowledged event asked for is in the table, and so is all that     *)
(* follows from a completed job. The table only grows. A lane holds a job  *)
(* of the table, and what follows from that job is in the table or still   *)
(* on the lane's list.                                                     *)
(***************************************************************************)
WorkerTypes ==
  /\ status \in [WorkerJobs -> OpenStates \cup SettledStates \cup {"none"}]
  /\ attempts \in [WorkerJobs -> Nat]
  /\ workLane \in [WorkerLanes -> WorkerJobs \cup {NoJob}]
  /\ left \in [WorkerLanes -> SUBSET WorkerJobs]
  /\ scheduledTo \in 0..Events /\ ackedTo \in 0..scheduledTo

LaneHolds(l) ==
  workLane[l] # NoJob =>
    /\ InTable(workLane[l])
    /\ \A d \in Follows[workLane[l]] : d \in left[l] \/ InTable(d)

WorkerInv ==
  /\ WorkerTypes
  /\ \A n \in 1..scheduledTo : \A j \in JobsOf[n] : InTable(j)
  /\ \A l \in WorkerLanes : LaneHolds(l)
  /\ CompletedComplete

(* What failJob leaves a job in. *)
LEMMA DisposedState ==
  ASSUME NEW j \in WorkerJobs, NEW s \in {"waiting", "excluded", "blocked", "retry"}, WorkerTypes
  PROVE  /\ Disposed(j, s) \in {"waiting", "excluded", "blocked", "retry", "exhausted"}
         /\ Tried(j, s) \in [WorkerJobs -> Nat]
<1>1. attempts[j] \in Nat BY DEF WorkerTypes
<1>2. Disposed(j, s) \in {"waiting", "excluded", "blocked", "retry", "exhausted"}
  BY DEF Disposed
<1>3. Tried(j, s) \in [WorkerJobs -> Nat] BY <1>1 DEF Tried, WorkerTypes
<1> QED BY <1>2, <1>3

(* Jobs of the table stay in it, and what follows from a newly completed one is there. *)
LEMMA TableGrows ==
  ASSUME WorkerInv, WorkerTypes',
         \A j \in WorkerJobs : InTable(j) => InTable(j)',
         scheduledTo' = scheduledTo \/ scheduledTo' = ackedTo,
         \A l \in WorkerLanes : LaneHolds(l)',
         \A j \in WorkerJobs : status'[j] = "completed" =>
           status[j] = "completed" \/ \A d \in Follows[j] : InTable(d)
  PROVE  WorkerInv'
<1>1. \A j \in WorkerJobs : Follows[j] \subseteq WorkerJobs BY WorkerAssumption
<1>2. \A n \in 1..Events : JobsOf[n] \subseteq WorkerJobs BY WorkerAssumption
<1>3. Events \in Nat BY WorkerAssumption
<1>4. CompletedComplete' BY <1>1 DEF CompletedComplete, WorkerInv
<1>5. \A n \in 1..scheduledTo' : n \in 1..scheduledTo /\ n \in 1..Events
  BY <1>3 DEF WorkerInv, WorkerTypes
<1>6. \A n \in 1..scheduledTo' : \A j \in JobsOf[n] : InTable(j)'
  BY <1>2, <1>5 DEF WorkerInv
<1> QED BY <1>4, <1>6 DEF WorkerInv

(* Admission by the callback and by reconciliation, and what the process does. *)
LEMMA IntakeKeeps ==
  ASSUME WorkerInv,
         \/ Start \/ Intake \/ AcknowledgeWork \/ Reconciling
         \/ BeginClose \/ FinishClose \/ WorkerCrash \/ RetryBlocked
  PROVE  WorkerInv'
<1>1. WorkerTypes /\ \A l \in WorkerLanes : LaneHolds(l) BY DEF WorkerInv
<1>2. Events \in Nat BY WorkerAssumption
<1>3. \A j \in WorkerJobs : Follows[j] \subseteq WorkerJobs BY WorkerAssumption
<1>4. ASSUME NEW j \in WorkerJobs, status' = WithAdmitted(j),
             UNCHANGED <<attempts, workLane, left, scheduledTo, ackedTo>>
      PROVE  WorkerInv'
  <2>1. WorkerTypes' BY <1>1, <1>4 DEF WorkerTypes, WithAdmitted, OpenStates
  <2>2. \A i \in WorkerJobs : InTable(i) => InTable(i)' BY <1>1, <1>4 DEF WorkerTypes, WithAdmitted, InTable
  <2>3. \A l \in WorkerLanes : LaneHolds(l)'
    BY <1>1, <1>3, <1>4, <2>2 DEF LaneHolds, WorkerTypes
  <2>4. \A i \in WorkerJobs : status'[i] = "completed" => status[i] = "completed"
    BY <1>1, <1>4 DEF WorkerTypes, WithAdmitted
  <2> QED BY <1>4, <2>1, <2>2, <2>3, <2>4, TableGrows
<1>5. ASSUME UNCHANGED <<status, attempts, workLane, left>>, WorkerTypes',
             scheduledTo' = scheduledTo \/ scheduledTo' = ackedTo
      PROVE  WorkerInv'
  <2>1. \A l \in WorkerLanes : LaneHolds(l)' BY <1>1, <1>5 DEF LaneHolds, InTable
  <2>2. \A i \in WorkerJobs : InTable(i) => InTable(i)' BY <1>5 DEF InTable
  <2> QED BY <1>5, <2>1, <2>2, TableGrows
<1>6. CASE Start
  <2>1. WorkerTypes' BY <1>1, <1>2, <1>6 DEF Start, WorkerTypes
  <2> QED BY <1>5, <1>6, <2>1 DEF Start
<1>7. CASE \E j \in WorkerJobs : ScheduleJob(j) \/ Reconcile(j)
  BY <1>4, <1>7 DEF ScheduleJob, Reconcile
<1>8. CASE EventScheduled
  <2>1. WorkerTypes' BY <1>1, <1>2, <1>8 DEF EventScheduled, WorkerTypes
  <2>2. UNCHANGED <<status, attempts, workLane, left, ackedTo>> BY <1>8 DEF EventScheduled
  <2>3. \A l \in WorkerLanes : LaneHolds(l)' BY <1>1, <2>2 DEF LaneHolds, InTable
  <2>4. CompletedComplete' BY <2>2 DEF WorkerInv, CompletedComplete, InTable
  <2>5. ASSUME NEW n \in 1..scheduledTo', NEW j \in JobsOf[n] PROVE InTable(j)'
    <3>1. CASE n = scheduledTo + 1 BY <1>8, <2>2, <2>5, <3>1 DEF EventScheduled, InTable
    <3>2. CASE n # scheduledTo + 1
      <4>1. n \in 1..scheduledTo BY <1>1, <1>8, <3>2 DEF EventScheduled, WorkerTypes
      <4> QED BY <2>2, <2>5, <4>1 DEF WorkerInv, InTable
    <3> QED BY <3>1, <3>2
  <2> QED BY <2>1, <2>3, <2>4, <2>5 DEF WorkerInv
<1>9. CASE AcknowledgeWork
  <2>1. WorkerTypes' BY <1>1, <1>9 DEF AcknowledgeWork, WorkerTypes
  <2> QED BY <1>5, <1>9, <2>1 DEF AcknowledgeWork
<1>10. CASE BeginClose \/ FinishClose
  <2>1. WorkerTypes' BY <1>1, <1>10 DEF BeginClose, FinishClose, WorkerTypes
  <2> QED BY <1>5, <1>10, <2>1 DEF BeginClose, FinishClose
<1>11. CASE WorkerCrash
  <2>1. WorkerTypes' BY <1>1, <1>11 DEF WorkerCrash, WorkerTypes
  <2>2. UNCHANGED <<status, scheduledTo>> /\ \A l \in WorkerLanes : workLane'[l] = NoJob
    BY <1>11 DEF WorkerCrash
  <2>3. \A l \in WorkerLanes : LaneHolds(l)' BY <2>2 DEF LaneHolds
  <2>4. \A i \in WorkerJobs : InTable(i) => InTable(i)' BY <2>2 DEF InTable
  <2> QED BY <2>1, <2>2, <2>3, <2>4, TableGrows
<1>12. CASE RetryBlocked
  <2>1. WorkerTypes' BY <1>1, <1>12 DEF RetryBlocked, WorkerTypes, OpenStates
  <2>2. \A i \in WorkerJobs : status'[i] = status[i] \/ (i \in Active /\ status'[i] = "pending")
    BY <1>12 DEF RetryBlocked
  <2>3. \A i \in WorkerJobs : InTable(i) => InTable(i)' BY <2>2 DEF InTable
  <2>4. \A l \in WorkerLanes : LaneHolds(l)'
    BY <1>1, <1>3, <1>12, <2>3 DEF RetryBlocked, LaneHolds, WorkerTypes
  <2>5. \A i \in WorkerJobs : status'[i] = "completed" => status[i] = "completed" BY <2>2
  <2> QED BY <1>12, <2>1, <2>3, <2>4, <2>5, TableGrows DEF RetryBlocked
<1> QED BY <1>6, <1>7, <1>8, <1>9, <1>10, <1>11, <1>12 DEF Intake, Reconciling

(* A lane takes a job, admits what follows from it, and settles it. *)
LEMMA LaneKeeps ==
  ASSUME WorkerInv, NEW l \in WorkerLanes,
         \/ TakeUp(l) \/ Work(l)
         \/ \E s \in {"waiting", "excluded", "blocked", "retry"} : FailJob(l, s)
  PROVE  WorkerInv'
<1>1. WorkerTypes /\ \A m \in WorkerLanes : LaneHolds(m) BY DEF WorkerInv
<1>2. \A j \in WorkerJobs : Follows[j] \subseteq WorkerJobs BY WorkerAssumption
<1>3. NoJob \notin WorkerJobs BY WorkerAssumption DEF NoJob
<1>4. ASSUME NEW j \in WorkerJobs, StartJob(l, j) PROVE WorkerInv'
  <2>1. WorkerTypes' BY <1>1, <1>2, <1>4 DEF StartJob, WorkerTypes
  <2>2. InTable(j) BY <1>4 DEF StartJob, InTable, OpenStates
  <2>3. ASSUME NEW m \in WorkerLanes PROVE LaneHolds(m)'
    <3>1. CASE m = l
      <4>1. workLane'[m] = j /\ left'[m] = Follows[j] /\ status' = status
        BY <1>1, <1>4, <3>1 DEF StartJob, WorkerTypes
      <4> QED BY <2>2, <4>1 DEF LaneHolds, InTable
    <3>2. CASE m # l
      <4>1. workLane'[m] = workLane[m] /\ left'[m] = left[m] /\ status' = status
        BY <1>1, <1>4, <3>2 DEF StartJob, WorkerTypes
      <4> QED BY <1>1, <4>1 DEF LaneHolds, InTable
    <3> QED BY <3>1, <3>2
  <2>4. UNCHANGED <<status, scheduledTo>> BY <1>4 DEF StartJob
  <2>5. \A i \in WorkerJobs : InTable(i) => InTable(i)' BY <2>4 DEF InTable
  <2> QED BY <2>1, <2>3, <2>4, <2>5, TableGrows
<1>5. ASSUME NEW d \in WorkerJobs, AdmitNext(l, d) PROVE WorkerInv'
  <2>1. /\ status' = IF InTable(d) THEN status ELSE [status EXCEPT ![d] = "pending"]
        /\ left' = [left EXCEPT ![l] = @ \ {d}]
        /\ UNCHANGED <<attempts, workLane, scheduledTo, ackedTo>>
    BY <1>5 DEF AdmitNext, WithAdmitted
  <2>2. WorkerTypes' BY <1>1, <2>1 DEF WorkerTypes, OpenStates
  <2>3. /\ \A i \in WorkerJobs : InTable(i) => InTable(i)'
        /\ InTable(d)'
        /\ \A i \in WorkerJobs : status'[i] = "completed" => status[i] = "completed"
    BY <1>1, <2>1 DEF WorkerTypes, InTable
  <2>4. ASSUME NEW m \in WorkerLanes PROVE LaneHolds(m)'
    <3>1. \A x \in left[m] : x \in left'[m] \/ x = d BY <1>1, <2>1 DEF WorkerTypes
    <3>2. workLane'[m] = workLane[m] BY <2>1
    <3>3. workLane[m] # NoJob => workLane[m] \in WorkerJobs BY <1>1 DEF WorkerTypes
    <3> QED BY <1>1, <1>2, <2>3, <3>1, <3>2, <3>3 DEF LaneHolds
  <2> QED BY <2>1, <2>2, <2>3, <2>4, TableGrows
<1>6. ASSUME NEW s, NEW tried \in [WorkerJobs -> Nat], workLane[l] # NoJob,
             s \in (OpenStates \cup SettledStates) \ {"none"},
             s = "completed" => left[l] = {},
             status' = [status EXCEPT ![workLane[l]] = s], attempts' = tried, LeaveJob(l),
             UNCHANGED <<scheduledTo, ackedTo>>
      PROVE  WorkerInv'
  <2> DEFINE j == workLane[l]
  <2>1. j \in WorkerJobs BY <1>1, <1>6 DEF WorkerTypes
  <2>2. WorkerTypes' BY <1>1, <1>6 DEF WorkerTypes, LeaveJob
  <2>3. \A i \in WorkerJobs : status'[i] = IF i = j THEN s ELSE status[i]
    BY <1>1, <1>6 DEF WorkerTypes
  <2>4. \A i \in WorkerJobs : InTable(i) => InTable(i)' BY <1>6, <2>3 DEF InTable
  <2>5. ASSUME NEW m \in WorkerLanes PROVE LaneHolds(m)'
    <3>1. CASE m = l BY <1>1, <1>6, <3>1 DEF LeaveJob, LaneHolds, WorkerTypes
    <3>2. CASE m # l
      <4>1. workLane'[m] = workLane[m] /\ left'[m] = left[m]
        BY <1>1, <1>6, <3>2 DEF LeaveJob, WorkerTypes
      <4>2. workLane[m] # NoJob => workLane[m] \in WorkerJobs BY <1>1 DEF WorkerTypes
      <4> QED BY <1>1, <1>2, <2>4, <4>1, <4>2 DEF LaneHolds
    <3> QED BY <3>1, <3>2
  <2>6. \A i \in WorkerJobs : status'[i] = "completed" =>
          status[i] = "completed" \/ \A d \in Follows[i] : InTable(d)
    BY <1>1, <1>6, <2>3 DEF LaneHolds
  <2> QED BY <1>6, <2>2, <2>4, <2>5, <2>6, TableGrows
<1>7. ASSUME NEW d \in WorkerJobs, AdmitRefused(l, d) PROVE WorkerInv'
  <2>1. workLane[l] \in WorkerJobs BY <1>1, <1>7 DEF AdmitRefused, WorkerTypes
  <2>2. PICK s \in {"waiting", "retry"} : /\ status' = [status EXCEPT ![workLane[l]] = Disposed(workLane[l], s)]
                                          /\ attempts' = Tried(workLane[l], s)
    BY <1>7 DEF AdmitRefused
  <2>3. /\ Disposed(workLane[l], s) \in {"waiting", "excluded", "blocked", "retry", "exhausted"}
        /\ Tried(workLane[l], s) \in [WorkerJobs -> Nat]
    BY <1>1, <2>1, DisposedState
  <2> QED BY <1>6, <1>7, <2>2, <2>3 DEF AdmitRefused, OpenStates, SettledStates
<1>8. ASSUME Complete(l) PROVE WorkerInv'
  <2>1. attempts \in [WorkerJobs -> Nat] BY <1>1 DEF WorkerTypes
  <2> QED BY <1>6, <1>8, <2>1 DEF Complete, SettledStates
<1>9. ASSUME NEW s \in {"waiting", "excluded", "blocked", "retry"}, FailJob(l, s) PROVE WorkerInv'
  <2>1. workLane[l] \in WorkerJobs BY <1>1, <1>9 DEF FailJob, WorkerTypes
  <2>2. PICK t \in {"waiting", "excluded", "blocked", "retry"} :
          /\ status' = [status EXCEPT ![workLane[l]] = Disposed(workLane[l], t)]
          /\ attempts' = Tried(workLane[l], t)
    BY <1>9 DEF FailJob
  <2>3. /\ Disposed(workLane[l], t) \in {"waiting", "excluded", "blocked", "retry", "exhausted"}
        /\ Tried(workLane[l], t) \in [WorkerJobs -> Nat]
    BY <1>1, <2>1, DisposedState
  <2>4. LeaveJob(l) /\ UNCHANGED <<scheduledTo, ackedTo>> BY <1>9 DEF FailJob
  <2>5. workLane[l] # NoJob BY <1>9 DEF FailJob
  <2>6. /\ Disposed(workLane[l], t) \in (OpenStates \cup SettledStates) \ {"none"}
        /\ Disposed(workLane[l], t) # "completed"
    BY ONLY <2>3 DEF OpenStates, SettledStates
  <2> QED BY <1>6, <2>2, <2>3, <2>4, <2>5, <2>6
<1> QED BY <1>4, <1>5, <1>7, <1>8, <1>9 DEF TakeUp, Work

(* The work an acknowledged event asked for is in the ledger, and so is what follows from
   a completed job, through refusals, failures, deaths, shutdowns and operator retries. *)
THEOREM WorkAdmittedHolds == WorkerSpec => []WorkAdmitted
<1>1. WorkerInit => WorkerInv
  <2> SUFFICES ASSUME WorkerInit PROVE WorkerInv OBVIOUS
  <2>1. WorkerTypes BY WorkerAssumption DEF WorkerInit, WorkerTypes
  <2>2. \A l \in WorkerLanes : LaneHolds(l) BY DEF WorkerInit, LaneHolds
  <2>3. 1..scheduledTo = {} BY DEF WorkerInit
  <2> QED BY <2>1, <2>2, <2>3 DEF WorkerInit, WorkerInv, CompletedComplete
<1>2. WorkerInv /\ [WorkerNext]_workerVars => WorkerInv'
  <2> SUFFICES ASSUME WorkerInv, [WorkerNext]_workerVars PROVE WorkerInv' OBVIOUS
  <2>1. CASE UNCHANGED workerVars
    BY <2>1 DEF workerVars, WorkerInv, WorkerTypes, LaneHolds, CompletedComplete, InTable
  <2>2. CASE WorkerNext BY <2>2, IntakeKeeps, LaneKeeps DEF WorkerNext
  <2> QED BY <2>1, <2>2
<1>3. WorkerInv => WorkAdmitted
  <2> SUFFICES ASSUME WorkerInv PROVE WorkAdmitted OBVIOUS
  <2>1. \A n \in 1..ackedTo : n \in 1..scheduledTo BY WorkerAssumption DEF WorkerInv, WorkerTypes
  <2> QED BY <2>1 DEF WorkerInv, WorkAdmitted, AckedWork
<1> QED BY <1>1, <1>2, <1>3, PTL DEF WorkerSpec
=============================================================================
