-------------------------- MODULE CaptureReceipts --------------------------
(***************************************************************************)
(* Hook occurrences on their way into the capture daemon. A relay process  *)
(* persists an occurrence in its outbox and posts it until it is told 202. *)
(* The receiver records it (accepted), saves the resulting state and jobs  *)
(* with it (prepared), materialises them and leaves a tombstone. While a   *)
(* backup seals the private roots, relay and receiver append to an ingress *)
(* journal outside of them. Requests and answers may be lost, the daemon   *)
(* may die between any two file operations, and writes may fail.           *)
(***************************************************************************)
EXTENDS Naturals, Sequences, FiniteSets, FiniteSetsExt

CONSTANTS
  N,             \* occurrences, numbered by the time they occurred
  Invalid,       \* occurrences whose payload the engine refuses with a TypeError
  MaxCrashes, MaxFailures, MaxLosses, MaxSeals,   \* bounds on the faults and the backups
  MaxHeartbeats  \* bound: sessions the heartbeat finalises

Occ == 1..N
ASSUME ReceiptsAssumption ==
  /\ N \in Nat \ {0} /\ Invalid \subseteq Occ
  /\ {MaxCrashes, MaxFailures, MaxLosses, MaxSeals, MaxHeartbeats} \subseteq Nat

Kinds == {"sender", "receiver"}
None == 0

VARIABLES
  raised,     \* occurrences whose relay persisted them
  told,       \* occurrences that a 202 was sent for
  outbox,     \* receipts/sender
  ingress,    \* the ingress journal's pending directory, by kind
  rotated,    \* its sealed generations, by kind
  requests, replies,  \* posts and 202s under way
  receipt,    \* receipts/receiver: status, event time, prepared state
  closed,     \* the completed and rejected directories
  disk,       \* state.json and the step journals: what has been applied, in order
  spool, delivered,   \* pending jobs; jobs that were delivered
  mem,        \* the engine's state
  last,       \* the queue's lastEventTime
  blocked,    \* blockedReceiptId
  engine,     \* what the engine's chain does: "down", "ready" or a step of an operation
  batch,      \* the receipts the drain (or the restore) still has to do
  unqueued,   \* the jobs of the receipt being committed that are not enqueued
  sealed, copying, cut, archive, \* the backup: acknowledged at its cut, and copied
  crashes, failures, losses, seals

receiptsVars == <<raised, told, outbox, ingress, rotated, requests, replies, receipt, closed,
          disk, spool, delivered, mem, last, blocked, engine, batch, unqueued, sealed, copying, cut,
          archive, crashes, failures, losses, seals>>
chainVars == <<disk, spool, mem, blocked, engine, batch, unqueued>>
backupVars == <<sealed, copying, cut, archive, seals>>

NoReceipt == [status |-> "none", t |-> 0, prepared |-> <<>>]

ReceiptsInit ==
  /\ raised = {} /\ told = {} /\ outbox = {}
  /\ ingress = [k \in Kinds |-> {}] /\ rotated = [k \in Kinds |-> {}]
  /\ requests = {} /\ replies = {}
  /\ receipt = [o \in Occ |-> NoReceipt] /\ closed = [o \in Occ |-> "open"]
  /\ disk = <<>> /\ spool = {} /\ delivered = {}
  /\ mem = <<>> /\ last = 0 /\ blocked = None /\ engine = "down" /\ batch = <<>> /\ unqueued = {}
  /\ sealed = FALSE /\ copying = "no" /\ cut = {} /\ archive = {}
  /\ crashes = 0 /\ failures = 0 /\ losses = 0 /\ seals = 0

-----------------------------------------------------------------------------
Deferred(k) == ingress[k] \cup rotated[k]
HasRecord(o) == receipt[o].status # "none" \/ closed[o] # "open"
InReceiver == {o \in Occ : HasRecord(o)}

Restoring == engine \in {"restore state", "restore jobs", "restore complete", "restore"}
Serving == engine # "down" /\ ~Restoring   \* the server starts after initialize

(* An entry of the state is a receipt, or a heartbeat (None), with its event time. *)
Times(s) == {s[i][2] : i \in DOMAIN s}
Watermark(s) == Max(Times(s) \cup {0})
Applied(s) == {s[i][1] : i \in DOMAIN s} \ {None}
JobsOf(e) == IF e[1] = None THEN {<<"orphan", e[2]>>} ELSE {<<"step", e[1]>>, <<"run", e[1]>>}

(* list: receipts without a tombstone, by event time. *)
PendingReceipts == {o \in Occ : receipt[o].status # "none" /\ closed[o] # "completed"}
Before(o, p) == receipt[o].t < receipt[p].t \/ (receipt[o].t = receipt[p].t /\ o < p)
Listed(S) ==
  {s \in [1..Cardinality(S) -> S] :
     /\ \A o \in S : \E i \in 1..Cardinality(S) : s[i] = o
     /\ \A i, j \in 1..Cardinality(S) : i < j => Before(s[i], s[j])}

-----------------------------------------------------------------------------
(* HookOutbox.persist; a caller that names the receipt may repeat it. *)
Persist(o) ==
  /\ o \notin raised \/ losses < MaxLosses
  /\ losses' = IF o \in raised THEN losses + 1 ELSE losses
  /\ raised' = raised \cup {o}
  /\ IF sealed
       THEN /\ ingress' = [ingress EXCEPT !["sender"] = @ \cup ({o} \ Deferred("sender"))]
            /\ UNCHANGED outbox
       ELSE outbox' = outbox \cup {o} /\ UNCHANGED ingress
  /\ UNCHANGED <<told, rotated, requests, replies, receipt, closed, delivered, last, crashes, failures,
                 chainVars, backupVars>>

(* Mutant: what was deferred to the ingress journal is not posted again. *)
PostOutboxOnly(o) ==
  /\ o \in outbox /\ o \notin requests
  /\ requests' = requests \cup {o}
  /\ UNCHANGED <<raised, told, outbox, ingress, rotated, replies, receipt, closed, delivered,
                 last, crashes, failures, losses, chainVars, backupVars>>

(* The relay posts it, the daemon's replay posts what is still pending. *)
PostOccurrence(o) ==
  /\ o \in outbox \cup Deferred("sender") /\ o \notin requests
  /\ requests' = requests \cup {o}
  /\ UNCHANGED <<raised, told, outbox, ingress, rotated, replies, receipt, closed, delivered,
                 last, crashes, failures, losses, chainVars, backupVars>>

(* A post that no daemon answers, or an answer after the relay's timeout. *)
Lose(o) ==
  /\ o \in requests \cup replies
  /\ \/ o \in requests /\ engine = "down" /\ losses' = losses
     \/ losses < MaxLosses /\ losses' = losses + 1
  /\ requests' = requests \ {o} /\ replies' = replies \ {o}
  /\ UNCHANGED <<raised, told, outbox, ingress, rotated, receipt, closed, delivered, last,
                 crashes, failures, chainVars, backupVars>>

(* HookOutbox.acknowledge: refused while the root is sealed. *)
Acknowledge(o) ==
  /\ o \in replies /\ ~sealed
  /\ replies' = replies \ {o} /\ outbox' = outbox \ {o}
  /\ ingress' = [ingress EXCEPT !["sender"] = @ \ {o}]
  /\ rotated' = [rotated EXCEPT !["sender"] = @ \ {o}]
  /\ UNCHANGED <<raised, told, requests, receipt, closed, delivered, last, crashes, failures, losses,
                 chainVars, backupVars>>

-----------------------------------------------------------------------------
(* acceptNow gives the receipt a time after all it knows of; a clock that is
   ahead only lengthens the gap. *)
NextTime == Max({last, Watermark(mem)}) + 1

(* Mutant: the time comes from the committed state alone. *)
RecordFromState(o) ==
  /\ receipt' = [receipt EXCEPT ![o] = [status |-> "accepted", t |-> Watermark(mem) + 1,
                                        prepared |-> <<>>]]
  /\ last' = Watermark(mem) + 1

Record(o) ==
  /\ receipt' = [receipt EXCEPT ![o] = [status |-> "accepted", t |-> NextTime, prepared |-> <<>>]]
  /\ last' = NextTime

(* reconcileInternal, one deferred occurrence: record it, then drop it. *)
ReconcileRecords(o) ==
  /\ Serving /\ ~sealed /\ Deferred("receiver") # {}
  /\ o = Min(Deferred("receiver")) /\ ~HasRecord(o)
  /\ Record(o)
  /\ UNCHANGED <<raised, told, outbox, ingress, rotated, requests, replies, closed, delivered,
                 crashes, failures, losses, chainVars, backupVars>>

ReconcileDrops(o) ==
  /\ Serving /\ ~sealed /\ o \in Deferred("receiver") /\ HasRecord(o)
  /\ ingress' = [ingress EXCEPT !["receiver"] = @ \ {o}]
  /\ rotated' = [rotated EXCEPT !["receiver"] = @ \ {o}]
  /\ UNCHANGED <<raised, told, outbox, requests, replies, receipt, closed, delivered, last,
                 crashes, failures, losses, chainVars, backupVars>>

(* accept, after reconciliation. A repeated receipt is answered from its record. *)
AcceptOccurrence(o) ==
  /\ Serving /\ o \in requests
  /\ requests' = requests \ {o} /\ replies' = replies \cup {o} /\ told' = told \cup {o}
  /\ \/ /\ HasRecord(o) /\ (sealed \/ Deferred("receiver") = {})
        /\ UNCHANGED <<receipt, last, ingress>>
     \/ /\ ~HasRecord(o) /\ ~sealed /\ Deferred("receiver") = {}
        /\ Record(o) /\ UNCHANGED ingress
     \/ /\ ~HasRecord(o) /\ sealed
        /\ ingress' = [ingress EXCEPT !["receiver"] = @ \cup ({o} \ Deferred("receiver"))]
        /\ UNCHANGED <<receipt, last>>
  /\ UNCHANGED <<raised, outbox, rotated, closed, delivered, crashes, failures, losses, chainVars, backupVars>>

-----------------------------------------------------------------------------
Same == UNCHANGED <<raised, told, outbox, ingress, rotated, requests, replies, backupVars>>

(* drain: the claim on the roots is taken before and kept to the end. *)
Drain ==
  /\ engine = "ready" /\ batch = <<>> /\ ~sealed /\ Deferred("receiver") = {} /\ PendingReceipts # {}
  /\ batch' \in Listed(PendingReceipts)
  /\ UNCHANGED <<unqueued, receipt, closed, disk, spool, delivered, mem, last, blocked, engine, crashes, failures, losses>>
  /\ Same

(* ingestInternal and prepare: the next state is saved with the receipt. *)
Prepare(o) ==
  /\ engine = "ready" /\ batch # <<>> /\ o = Head(batch) /\ o \notin Invalid
  /\ receipt[o].status = "accepted" /\ blocked \in {None, o}
  /\ mem' = Append(mem, <<o, receipt[o].t>>)
  /\ receipt' = [receipt EXCEPT ![o] = [@ EXCEPT !.status = "prepared", !.prepared = mem']]
  /\ blocked' = o /\ engine' = "state"
  /\ UNCHANGED <<unqueued, closed, disk, spool, delivered, last, batch, crashes, failures, losses>>
  /\ Same

(* A later drain, or the restart, finds the prepared record. *)
ResumeReceipt(o) ==
  /\ engine \in {"ready", "restore"} /\ batch # <<>> /\ o = Head(batch)
  /\ receipt[o].status = "prepared" /\ blocked \in {None, o}
  /\ blocked' = o /\ engine' = IF engine = "ready" THEN "state" ELSE "restore state"
  /\ UNCHANGED <<unqueued, receipt, closed, disk, spool, delivered, mem, last, batch, crashes, failures, losses>>
  /\ Same

Phase(p) ==
  IF Restoring
    THEN [state |-> "restore state", jobs |-> "restore jobs", complete |-> "restore complete"][p]
    ELSE p

(* stepStore.replace and stateStore.save. *)
SaveState(o) ==
  /\ engine = Phase("state") /\ o = Head(batch)
  /\ disk' = receipt[o].prepared /\ mem' = receipt[o].prepared
  /\ engine' = Phase("jobs") /\ unqueued' = JobsOf(<<o, receipt[o].t>>)
  /\ UNCHANGED <<receipt, closed, spool, delivered, last, blocked, batch, crashes, failures, losses>>
  /\ Same

(* Jobs are enqueued one by one; a job that is pending already is left alone. *)
EnqueueJob(j) ==
  /\ engine = Phase("jobs") /\ j \in unqueued
  /\ spool' = spool \cup {j} /\ unqueued' = unqueued \ {j}
  /\ UNCHANGED <<receipt, closed, disk, delivered, mem, last, blocked, engine, batch, crashes, failures, losses>>
  /\ Same

Materialised ==
  /\ engine = Phase("jobs") /\ unqueued = {}
  /\ blocked' = None /\ engine' = Phase("complete")
  /\ UNCHANGED <<receipt, closed, disk, spool, delivered, mem, last, batch, unqueued, crashes, failures, losses>>
  /\ Same

(* complete: the tombstone, then the receipt's removal. *)
CompleteReceipt(o) ==
  /\ engine = Phase("complete") /\ o = Head(batch)
  /\ \/ /\ closed[o] = "open" /\ closed' = [closed EXCEPT ![o] = "completed"]
        /\ UNCHANGED <<receipt, engine, batch>>
     \/ /\ closed[o] = "completed" /\ receipt' = [receipt EXCEPT ![o] = NoReceipt]
        /\ batch' = Tail(batch) /\ engine' = IF Restoring THEN "restore" ELSE "ready"
        /\ UNCHANGED closed
  /\ UNCHANGED <<unqueued, disk, spool, delivered, mem, last, blocked, crashes, failures, losses>>
  /\ Same

(* A TypeError: the rejected record, then the receipt's removal. *)
Reject(o) ==
  /\ engine = "ready" /\ batch # <<>> /\ o = Head(batch) /\ o \in Invalid
  /\ \/ /\ closed[o] = "open" /\ closed' = [closed EXCEPT ![o] = "rejected"]
        /\ UNCHANGED <<receipt, batch>>
     \/ /\ closed[o] = "rejected" /\ receipt' = [receipt EXCEPT ![o] = NoReceipt]
        /\ batch' = Tail(batch) /\ UNCHANGED closed
  /\ UNCHANGED <<unqueued, disk, spool, delivered, mem, last, blocked, engine, crashes, failures, losses>>
  /\ Same

(* A write fails: the drain stops, and is started again by the timer. *)
DrainFails ==
  /\ batch # <<>> /\ engine \in {"ready", "state", "jobs", "complete"} /\ failures < MaxFailures
  /\ failures' = failures + 1 /\ engine' = "ready" /\ batch' = <<>> /\ unqueued' = {}
  /\ UNCHANGED <<receipt, closed, disk, spool, delivered, mem, last, blocked, crashes, losses>>
  /\ Same

-----------------------------------------------------------------------------
(* heartbeat finalises a session: its job first, the state at the end. It waits
   in the same chain, and does nothing while a commit is to be recovered. *)
Heartbeats == Cardinality({i \in DOMAIN disk : disk[i][1] = None})

Heartbeat ==
  /\ engine = "ready" /\ blocked = None /\ ~sealed /\ Heartbeats < MaxHeartbeats
  /\ mem' = Append(mem, <<None, Watermark(mem) + 1>>)
  /\ spool' = spool \cup JobsOf(mem'[Len(mem')]) /\ engine' = "heartbeat"
  /\ UNCHANGED <<unqueued, receipt, closed, disk, delivered, last, blocked, batch, crashes, failures, losses>>
  /\ Same

HeartbeatSaves ==
  /\ engine = "heartbeat" /\ disk' = mem /\ engine' = "ready"
  /\ UNCHANGED <<unqueued, receipt, closed, spool, delivered, mem, last, blocked, batch, crashes, failures, losses>>
  /\ Same

(* The spool's processor delivers a job and removes it. *)
DeliverJob(j) ==
  /\ Serving /\ j \in spool /\ ~sealed
  /\ spool' = spool \ {j} /\ delivered' = delivered \cup {j}
  /\ UNCHANGED <<unqueued, receipt, closed, disk, mem, last, blocked, engine, batch, crashes, failures, losses>>
  /\ Same

DaemonDies ==
  /\ engine # "down" /\ crashes < MaxCrashes /\ crashes' = crashes + 1
  /\ engine' = "down" /\ batch' = <<>> /\ unqueued' = {} /\ mem' = <<>> /\ last' = 0 /\ blocked' = None
  /\ UNCHANGED <<receipt, closed, disk, spool, delivered, failures, losses>>
  /\ Same

(* initialize: restorePrepared before the state is loaded. *)
Start ==
  /\ engine = "down" /\ ~sealed /\ engine' = "restore"
  /\ batch' \in Listed({o \in PendingReceipts : receipt[o].status = "prepared"})
  /\ UNCHANGED <<unqueued, receipt, closed, disk, spool, delivered, mem, last, blocked, crashes, failures, losses>>
  /\ Same

(* The state is loaded; the queue seeds its clock from it and the receipts. *)
Started ==
  /\ engine = "restore" /\ batch = <<>>
  /\ mem' = disk /\ blocked' = None /\ engine' = "ready"
  /\ last' = Max({Watermark(disk)} \cup {receipt[o].t : o \in PendingReceipts})
  /\ UNCHANGED <<unqueued, receipt, closed, disk, spool, delivered, batch, crashes, failures, losses>>
  /\ Same

-----------------------------------------------------------------------------
BackupSame == UNCHANGED <<raised, told, outbox, requests, replies, receipt, closed, delivered, last,
                          crashes, failures, losses, chainVars>>

(* sealPrivateRoots publishes the seal; writers that have a claim go on. *)
Seal ==
  /\ ~sealed /\ seals < MaxSeals /\ sealed' = TRUE /\ seals' = seals + 1
  /\ UNCHANGED <<ingress, rotated, copying, cut, archive>> /\ BackupSame

WritersDrained == batch = <<>> /\ engine \in {"down", "ready"}

Rotate ==
  /\ sealed /\ copying = "no" /\ WritersDrained
  /\ cut' = raised \cup told
  /\ rotated' = [k \in Kinds |-> Deferred(k)] /\ ingress' = [k \in Kinds |-> {}]
  /\ copying' = "roots" /\ archive' = {}
  /\ UNCHANGED <<sealed, seals>> /\ BackupSame

(* The roots are copied directory by directory, the tombstones before or after
   the pending receipts. *)
CopyRoots ==
  /\ copying \in {"roots", "rest"}
  /\ IF copying = "roots"
       THEN archive' = archive \cup outbox \cup {o \in Occ : closed[o] # "open"}
       ELSE archive' = archive \cup {o \in Occ : receipt[o].status # "none"}
  /\ copying' = IF copying = "roots" THEN "rest" ELSE "generations"
  /\ UNCHANGED <<ingress, rotated, sealed, cut, seals>> /\ BackupSame

(* The sealed generations last, then the seal is released. *)
CopyGenerations ==
  /\ copying = "generations" /\ copying' = "no" /\ sealed' = FALSE
  /\ archive' = archive \cup rotated["sender"] \cup rotated["receiver"]
  /\ UNCHANGED <<ingress, rotated, cut, seals>> /\ BackupSame

-----------------------------------------------------------------------------
Engine ==
  \/ Drain \/ HeartbeatSaves \/ Start \/ Started \/ Materialised
  \/ \E j \in unqueued : EnqueueJob(j)
  \/ \E o \in Occ : Prepare(o) \/ ResumeReceipt(o) \/ SaveState(o) \/ CompleteReceipt(o) \/ Reject(o)

Reconcile == \E o \in Occ : ReconcileRecords(o) \/ ReconcileDrops(o)

Backup == Rotate \/ CopyRoots \/ CopyGenerations

ReceiptsNext ==
  \/ Engine \/ Reconcile \/ Backup \/ Seal \/ DaemonDies \/ Heartbeat \/ DrainFails
  \/ \E o \in Occ : Persist(o) \/ PostOccurrence(o) \/ AcceptOccurrence(o) \/ Lose(o) \/ Acknowledge(o)
  \/ \E j \in spool : DeliverJob(j)

ReceiptsSpec == ReceiptsInit /\ [][ReceiptsNext]_receiptsVars

(* The service manager restarts the daemon, its timers start the drain again and
   post what the outbox holds, the backup releases its seal. *)
ReceiptsFairness ==
  /\ WF_receiptsVars(Engine) /\ WF_receiptsVars(Reconcile) /\ WF_receiptsVars(Backup)
  /\ \A o \in Occ : /\ WF_receiptsVars(PostOccurrence(o)) /\ WF_receiptsVars(Acknowledge(o))
                    /\ SF_receiptsVars(AcceptOccurrence(o))
FairReceipts == ReceiptsSpec /\ ReceiptsFairness

-----------------------------------------------------------------------------
(* No occurrence is lost: what a relay persisted is in its outbox, in the ingress
   journal or with the receiver, and what a 202 was sent for is in the receiver's
   half of these (deliverOccurrence, accept, reconcileInternal, complete). *)
NothingLost ==
  /\ raised \subseteq outbox \cup Deferred("sender") \cup Deferred("receiver") \cup InReceiver
  /\ told \subseteq Deferred("receiver") \cup InReceiver

(* A tombstone is written only when the occurrence is part of the saved state and
   each of its jobs is in the spool or was delivered (processReceipt, complete). *)
TombstonesDurable ==
  \A o \in Occ : closed[o] = "completed" =>
    o \in Applied(disk) /\ JobsOf(<<o, 0>>) \subseteq spool \cup delivered

(* However often an occurrence is posted, recorded, replayed after a crash or
   retried, it is applied once, and receipts are applied in the order of their
   event times (acceptNow, list, restorePrepared). *)
AppliedOnceInOrder ==
  \A i, j \in DOMAIN disk :
    i < j /\ disk[i][1] # None /\ disk[j][1] # None
      => disk[i][1] # disk[j][1] /\ disk[i][2] < disk[j][2]

(* "Replaying materialization is idempotent" (processReceipt): a commit replaces
   the saved state by one that continues it, and takes back no applied receipt and
   no session that the heartbeat finalised.  After a failed write it may take back
   the latter: the engine is no longer blocked when the tombstone cannot be
   written, a heartbeat saves a later state, and the receipt is materialised again. *)
StateOnlyGrows ==
  [][/\ Applied(disk) \subseteq Applied(disk')
     /\ failures = 0 => /\ Len(disk) <= Len(disk')
                        /\ \A i \in DOMAIN disk : disk[i] = disk'[i]]_receiptsVars

(* A backup has every occurrence that was persisted or acknowledged when the
   journal was rotated (sealPrivateRoots, rotate, createPrivateRecoveryBundle). *)
BackupCoversAcknowledged == seals > 0 /\ ~sealed => cut \subseteq archive

(* An occurrence that was acknowledged is never lost, closed only when it is durable,
   applied once and in order, kept once it is applied, and in every backup sealed after
   it (capture.ts, receipts.ts, ingress.ts, private-recovery.ts). *)
CaptureKept ==
  /\ [](NothingLost /\ TombstonesDurable /\ AppliedOnceInOrder /\ BackupCoversAcknowledged)
  /\ StateOnlyGrows

(* Every persisted occurrence is applied or rejected in the end. *)
Closed == {o \in DOMAIN closed : closed[o] # "open"}
EventuallyClosed == \A o \in Occ : o \in raised ~> o \in Closed

=============================================================================
