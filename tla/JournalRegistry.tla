-------------------------- MODULE JournalRegistry --------------------------
(***************************************************************************)
(* The journal backend of the API: JournalSdkRegistry and                  *)
(* DurableJournalStore (apps/api/src/registry.ts) over the JSONL journal   *)
(* of one workspace (packages/fold-storage), behind the writer lease.      *)
(*                                                                         *)
(* A writer keeps the whole journal in memory and replaces the file on     *)
(* every append, so a second writer, a stale memory copy or a replacement  *)
(* out of turn loses entries that a client was told are stored.  All file  *)
(* operations of a journal pass through one queue (FoldJournal.enqueue);   *)
(* the appends of a workspace are made one after another (FoldSdk.enqueue).*)
(*                                                                         *)
(* The module begins with the lease and goes on with the journal.          *)
(***************************************************************************)
EXTENDS Naturals, Sequences, TLAPS

----------------------------------------------------------------------------
(***************************************************************************)
(* The writer lease of a journal data directory (acquireWriterLease and    *)
(* its helpers in apps/api/src/registry.ts): processes of one host that    *)
(* want to be the only writer race on the file .fold-writer.lock, and on   *)
(* its companion .recovery when they find the lease of a dead process.     *)
(* Every await is a point where another process may act or this one die.   *)
(***************************************************************************)
CONSTANTS
  Process,        \* process identifiers of the host
  PidsReturn,     \* may the pid of a dead process be given out again
                  \* while a file still names it
  PowerMayFail,   \* may the host lose power
  MaxFaults,      \* bound: crashes, failed writes and power losses
  Absent,         \* no such file
  Blank           \* created with "wx", content not written yet

(* What the file holds; current: its token is the one of the running process. *)
Lease == [pid : Process, current : BOOLEAN]

ASSUME LeaseAssumption ==
  /\ PidsReturn \in BOOLEAN /\ PowerMayFail \in BOOLEAN
  /\ MaxFaults \in Nat
  /\ Absent \notin Lease /\ Blank \notin Lease /\ Absent # Blank

VARIABLES
  file,           \* the two files of the data directory
  pc,             \* where each process is
  granted,        \* recovery went through: try the lock once more
  faults          \* failures so far

leaseVars == <<file, pc, granted, faults>>

Path == {"lock", "recovery"}

(* Awaits of acquireWriterLease, in the order of the code. *)
Acquiring == {"create", "inspect", "recover", "writeRecovery", "reinspect",
              "unlink", "drop", "erase", "recreate", "write"}

(* The lease is this process's: acquired, and not yet handed back. *)
Holding == {"open", "closing", "release"}

(* Type invariant: the two files, every process's place, the flags. *)
LeaseTypeOK ==
  /\ file \in [Path -> Lease \cup {Absent, Blank}]
  /\ pc \in [Process -> {"down", "closed"} \cup Acquiring \cup Holding]
  /\ granted \in [Process -> BOOLEAN]
  /\ faults \in 0..MaxFaults

LeaseInit ==
  /\ file = [path \in Path |-> Absent]
  /\ pc = [p \in Process |-> "down"]
  /\ granted = [p \in Process |-> FALSE]
  /\ faults = 0

----------------------------------------------------------------------------
Mine(p) == [pid |-> p, current |-> TRUE]

(* process.kill(pid, 0): some process has this pid now. *)
ProcessExists(p) == pc[p] # "down"

(***************************************************************************)
(* A missing, half-written or unreadable file is not stale, and neither is *)
(* one whose pid exists, whoever has it now.                               *)
(***************************************************************************)
ExistingLeaseIsStale(path) == file[path] \in Lease /\ ~ProcessExists(file[path].pid)

(* removeLeaseIfOwned compares tokens, not pids. *)
Owned(path, p) == file[path] = Mine(p)

Goto(p, label) == pc' = [pc EXCEPT ![p] = label]

Set(path, content) == file' = [file EXCEPT ![path] = content]

(* The process that wrote f is gone: its token is nobody's any more. *)
Abandoned(f) == IF f \in Lease THEN [pid |-> f.pid, current |-> FALSE] ELSE f

Leave(p, left) ==
  /\ Goto(p, "down")
  /\ file' = [path \in Path |->
                IF left[path] = Mine(p) THEN Abandoned(left[path]) ELSE left[path]]

(* The constructor throws: DataDirectoryLockedError, and the process exits. *)
Refused(p) == Leave(p, file)

Fault == faults < MaxFaults /\ faults' = faults + 1

----------------------------------------------------------------------------
(* new JournalSdkRegistry *)
Start(p) ==
  /\ pc[p] = "down"
  /\ PidsReturn \/ \A path \in Path : file[path] \in Lease => file[path].pid # p
  /\ Goto(p, "create")
  /\ granted' = [granted EXCEPT ![p] = FALSE]
  /\ UNCHANGED <<file, faults>>

(* open(path, "wx") of the lock, before and after a recovery. *)
Create(p) ==
  /\ pc[p] \in {"create", "recreate"}
  /\ \/ file["lock"] = Absent /\ Set("lock", Blank) /\ Goto(p, "write")
     \/ /\ file["lock"] # Absent
        /\ IF pc[p] = "create" THEN Goto(p, "inspect") /\ UNCHANGED file ELSE Refused(p)
  /\ UNCHANGED <<granted, faults>>

(* writeFile and sync of the lease just created. *)
Write(p) ==
  /\ pc[p] = "write"
  /\ Set("lock", Mine(p))
  /\ Goto(p, "open")
  /\ UNCHANGED <<granted, faults>>

(* existingLeaseIsStale(path), the first time *)
Inspect(p) ==
  /\ pc[p] = "inspect"
  /\ IF ExistingLeaseIsStale("lock") THEN Goto(p, "recover") /\ UNCHANGED file ELSE Refused(p)
  /\ UNCHANGED <<granted, faults>>

(* open(path.recovery, "wx"): one process at a time may remove a dead lease. *)
Recover(p) ==
  /\ pc[p] = "recover"
  /\ \/ file["recovery"] = Absent /\ Set("recovery", Blank) /\ Goto(p, "writeRecovery")
     \/ file["recovery"] # Absent /\ Refused(p)
  /\ UNCHANGED <<granted, faults>>

WriteRecovery(p) ==
  /\ pc[p] = "writeRecovery"
  /\ Set("recovery", Mine(p))
  /\ Goto(p, "reinspect")
  /\ UNCHANGED <<granted, faults>>

(* Mutant: the lease found dead a moment ago is removed without another look. *)
TakenAsStale == TRUE

(* Mutant: the second look never finds it dead. *)
NeverStale == FALSE

(* existingLeaseIsStale(path) again, now that no one else can remove it *)
StillStale == ExistingLeaseIsStale("lock")

Reinspect(p) ==
  /\ pc[p] = "reinspect"
  /\ Goto(p, IF StillStale THEN "unlink" ELSE "drop")
  /\ UNCHANGED <<file, granted, faults>>

Unlink(p) ==
  /\ pc[p] = "unlink"
  /\ Set("lock", Absent)
  /\ granted' = [granted EXCEPT ![p] = TRUE]
  /\ Goto(p, "drop")
  /\ UNCHANGED faults

(* finally: removeLeaseIfOwned(recoveryPath), a read and an unlink *)
AfterRecovery(p, left) ==
  IF granted[p] THEN Goto(p, "recreate") /\ file' = left ELSE Leave(p, left)

DropRecovery(p) ==
  /\ pc[p] = "drop"
  /\ IF Owned("recovery", p) THEN Goto(p, "erase") /\ UNCHANGED file ELSE AfterRecovery(p, file)
  /\ UNCHANGED <<granted, faults>>

EraseRecovery(p) ==
  /\ pc[p] = "erase"
  /\ AfterRecovery(p, [file EXCEPT !["recovery"] = Absent])
  /\ UNCHANGED <<granted, faults>>

----------------------------------------------------------------------------
(* registry.close: removeLeaseIfOwned(lockPath), a read and an unlink *)
Close(p) ==
  /\ pc[p] = "open"
  /\ Goto(p, "closing")
  /\ UNCHANGED <<file, granted, faults>>

DropLease(p) ==
  /\ pc[p] = "closing"
  /\ Goto(p, IF Owned("lock", p) THEN "release" ELSE "closed")
  /\ UNCHANGED <<file, granted, faults>>

EraseLease(p) ==
  /\ pc[p] = "release"
  /\ Set("lock", Absent)
  /\ Goto(p, "closed")
  /\ UNCHANGED <<granted, faults>>

Exit(p) ==
  /\ pc[p] = "closed"
  /\ Leave(p, file)
  /\ UNCHANGED <<granted, faults>>

----------------------------------------------------------------------------
(***************************************************************************)
(* createLeaseFile: the write or the sync fails, the file is unlinked (an  *)
(* unlink that fails is ignored), and the process exits.                   *)
(***************************************************************************)
WriteFails(p) ==
  /\ pc[p] \in {"write", "writeRecovery"}
  /\ Fault
  /\ \E content \in {Absent, Blank, Mine(p)} :
       Leave(p, [file EXCEPT ![IF pc[p] = "write" THEN "lock" ELSE "recovery"] = content])
  /\ UNCHANGED granted

(* unlink(path) fails: the finally clause runs, then the process exits. *)
UnlinkFails(p) ==
  /\ pc[p] = "unlink"
  /\ Fault
  /\ Goto(p, "drop")
  /\ UNCHANGED <<file, granted>>

(* The process dies, or exits on an error of the file system. *)
Crash(p) ==
  /\ pc[p] # "down"
  /\ Fault
  /\ Leave(p, file)
  /\ UNCHANGED granted

(***************************************************************************)
(* The host loses power.  The directory is not synced after a lease is     *)
(* created, so a file may survive, be empty, or be gone.  (A removed file  *)
(* that comes back is what a crash just before its removal leaves.)        *)
(***************************************************************************)
PowerLoss ==
  /\ PowerMayFail
  /\ Fault
  /\ pc' = [p \in Process |-> "down"]
  /\ \E kept \in SUBSET Path, emptied \in SUBSET {path \in Path : file[path] # Absent} :
       file' = [path \in Path |->
                  IF path \in emptied THEN Blank
                  ELSE IF path \in kept THEN Abandoned(file[path]) ELSE Absent]
  /\ UNCHANGED granted

----------------------------------------------------------------------------
LeaseStep(p) ==
  \/ Create(p) \/ Write(p) \/ Inspect(p)
  \/ Recover(p) \/ WriteRecovery(p) \/ Reinspect(p) \/ Unlink(p)
  \/ DropRecovery(p) \/ EraseRecovery(p)
  \/ DropLease(p) \/ EraseLease(p) \/ Exit(p)

LeaseFails(p) == WriteFails(p) \/ UnlinkFails(p) \/ Crash(p)

LeaseNext ==
  \/ \E p \in Process : Start(p) \/ LeaseStep(p) \/ Close(p) \/ LeaseFails(p)
  \/ PowerLoss

LeaseSpec == LeaseInit /\ [][LeaseNext]_leaseVars

(***************************************************************************)
(* A process that has begun to acquire or to hand back the lease goes on   *)
(* (the event loop runs its continuations), and the service manager starts *)
(* the API again when it has exited (KeepAlive, apps/api/src/install.ts).  *)
(***************************************************************************)
FairLeaseSpec ==
  /\ LeaseSpec
  /\ \A p \in Process : WF_leaseVars(Start(p)) /\ WF_leaseVars(LeaseStep(p))

----------------------------------------------------------------------------
(***************************************************************************)
(* At most one process is past createLeaseFile of the lock and has not     *)
(* handed it back: acquireWriterLease never lets a second writer in, not   *)
(* even while several processes recover the lease of a dead one, one of    *)
(* them dies half-way, or the dead one's pid comes back.                   *)
(***************************************************************************)
SingleWriter ==
  \A p, q \in Process :
    pc[p] \in Holding \cup {"write"} /\ pc[q] \in Holding \cup {"write"} => p = q

(* Nobody is between creating and removing the recovery file. *)
NoRecoverer ==
  \A p \in Process : pc[p] \notin {"writeRecovery", "reinspect", "unlink", "drop", "erase"}

(* A recovery file whose process died: every later recovery is refused. *)
RecoveryLeftBehind == file["recovery"] # Absent /\ NoRecoverer

(***************************************************************************)
(* While processes keep being started, the lease of a dead process does    *)
(* not stay for ever, unless some process died between creating and        *)
(* removing the recovery file.                                             *)
(***************************************************************************)
RecoversUnlessInterrupted == []<>(~ExistingLeaseIsStale("lock") \/ RecoveryLeftBehind)

----------------------------------------------------------------------------
(* The journal behind the lease.                                           *)

CONSTANTS
  Entry,            \* events clients append
  ForcedClose,      \* may a shutdown give up on open connections (after 10 s)
  MaxReads,         \* bound: reads waiting in a journal's queue
  MaxAccepted,      \* bound: requests accepted
  Unread,           \* the journal is not in memory
  NoJob             \* no append in progress

ASSUME JournalAssumption ==
  /\ ForcedClose \in BOOLEAN
  /\ MaxReads \in Nat /\ MaxAccepted \in Nat
  /\ Unread \notin Seq(Entry)
  /\ NoJob \notin Entry

VARIABLES
  journal,          \* entries of the journal file, as a reader finds it
  survivors,        \* what the journal file may hold after a power loss now
  entries,          \* DurableJournalStore.entries of each process
  queue,            \* FoldJournal.queue of each process
  reading,          \* what the read at its head has read so far
  waiting,          \* append requests accepted and not begun
  job,              \* the entry being appended
  step,             \* where that append is
  combined,         \* the entries it will write
  draining,         \* SIGTERM received: no new connections
  accepted,         \* requests so far
  acked,            \* history: ordinals and entries reported as stored
  written,          \* history: those reported after a write of their own
  lost              \* history: the host has lost power

disk    == <<journal, survivors>>
writer  == <<entries, queue, reading, waiting, job, step, combined, draining>>
history == <<acked, written, lost>>
vars    == <<leaseVars, disk, writer, accepted, history>>

(* Type invariant. *)
TypeOK ==
  /\ LeaseTypeOK
  /\ journal \in Seq(Entry)
  /\ survivors \subseteq Seq(Entry)
  /\ entries \in [Process -> Seq(Entry) \cup {Unread}]
  /\ queue \in [Process -> Seq({"read", "load", "rewrite"})]
  /\ reading \in [Process -> Seq(Entry) \cup {Unread}]
  /\ waiting \in [Process -> SUBSET Entry]
  /\ job \in [Process -> Entry \cup {NoJob}]
  /\ step \in [Process -> {"idle", "load", "ready", "rewrite", "sync"}]
  /\ combined \in [Process -> Seq(Entry)]
  /\ draining \in [Process -> BOOLEAN]
  /\ accepted \in 0..MaxAccepted
  /\ acked \subseteq (Nat \X Entry) /\ written \subseteq acked

Init ==
  /\ LeaseInit
  /\ journal = <<>> /\ survivors = {<<>>}
  /\ entries = [p \in Process |-> Unread]
  /\ queue = [p \in Process |-> <<>>]
  /\ reading = [p \in Process |-> Unread]
  /\ waiting = [p \in Process |-> {}]
  /\ job = [p \in Process |-> NoJob]
  /\ step = [p \in Process |-> "idle"]
  /\ combined = [p \in Process |-> <<>>]
  /\ draining = [p \in Process |-> FALSE]
  /\ accepted = 0
  /\ acked = {} /\ written = {} /\ lost = FALSE

----------------------------------------------------------------------------
(* Acquiring, releasing and losing the lease *)

Idle(p) == waiting[p] = {} /\ job[p] = NoJob /\ queue[p] = <<>>

(* Nothing of a process's memory outlives it. *)
Forget(p) ==
  /\ entries' = [entries EXCEPT ![p] = Unread]
  /\ queue' = [queue EXCEPT ![p] = <<>>]
  /\ reading' = [reading EXCEPT ![p] = Unread]
  /\ waiting' = [waiting EXCEPT ![p] = {}]
  /\ job' = [job EXCEPT ![p] = NoJob]
  /\ step' = [step EXCEPT ![p] = "idle"]
  /\ combined' = [combined EXCEPT ![p] = <<>>]
  /\ draining' = [draining EXCEPT ![p] = FALSE]

(* The steps of acquireWriterLease and removeLeaseIfOwned, as they are. *)
Acquire(p) ==
  /\ Start(p) \/ WriteFails(p) \/ UnlinkFails(p) \/ (pc[p] # "closed" /\ LeaseStep(p))
  /\ UNCHANGED <<disk, writer, accepted, history>>

(* SIGINT and SIGTERM, or a listen that failed *)
Drain(p) ==
  /\ pc[p] = "open" /\ ~draining[p]
  /\ draining' = [draining EXCEPT ![p] = TRUE]
  /\ UNCHANGED <<leaseVars, disk, entries, queue, reading, waiting, job, step, combined, accepted, history>>

(***************************************************************************)
(* server.close calls back when the last connection has ended.  After ten  *)
(* seconds closeAllConnections ends them all, but not the handlers behind  *)
(* them: what was accepted goes on while registry.close gives up the lease.*)
(***************************************************************************)
CloseRegistry(p) ==
  /\ draining[p]
  /\ Idle(p) \/ ForcedClose
  /\ Close(p)
  /\ UNCHANGED <<disk, writer, accepted, history>>

(* The event loop is empty. *)
ExitProcess(p) ==
  /\ Idle(p)
  /\ Exit(p)
  /\ Forget(p)
  /\ UNCHANGED <<disk, accepted, history>>

CrashProcess(p) ==
  /\ Crash(p)
  /\ Forget(p)
  /\ UNCHANGED <<disk, accepted, history>>

(* Content is synced before the rename, the rename by the directory's sync. *)
CrashHost ==
  /\ PowerLoss
  /\ journal' \in survivors
  /\ survivors' = {journal'}
  /\ entries' = [p \in Process |-> Unread]
  /\ queue' = [p \in Process |-> <<>>]
  /\ reading' = [p \in Process |-> Unread]
  /\ waiting' = [p \in Process |-> {}]
  /\ job' = [p \in Process |-> NoJob]
  /\ step' = [p \in Process |-> "idle"]
  /\ combined' = [p \in Process |-> <<>>]
  /\ draining' = [p \in Process |-> FALSE]
  /\ lost' = TRUE
  /\ UNCHANGED <<accepted, acked, written>>

----------------------------------------------------------------------------
(* Requests and the journal's queue *)

(* An append request reaches its handler. *)
Accept(p) ==
  /\ pc[p] = "open" /\ ~draining[p]
  /\ accepted < MaxAccepted /\ accepted' = accepted + 1
  /\ \E e \in Entry \ waiting[p] : waiting' = [waiting EXCEPT ![p] = @ \cup {e}]
  /\ UNCHANGED <<leaseVars, disk, entries, queue, reading, job, step, combined, draining, history>>

(* streamEntries and latestEventCursor read beside the SDK's own queue. *)
StreamRead(p) ==
  /\ pc[p] = "open" /\ ~draining[p]
  /\ entries[p] = Unread
  /\ Len(SelectSeq(queue[p], LAMBDA x : x = "read")) < MaxReads
  /\ queue' = [queue EXCEPT ![p] = Append(@, "read")]
  /\ UNCHANGED <<leaseVars, disk, entries, reading, waiting, job, step, combined, draining, accepted, history>>

(* The next command of the SDK: read the log to validate against it. *)
BeginAppend(p) ==
  /\ job[p] = NoJob
  /\ \E e \in waiting[p] :
       /\ job' = [job EXCEPT ![p] = e]
       /\ waiting' = [waiting EXCEPT ![p] = @ \ {e}]
  /\ IF entries[p] = Unread
     THEN /\ queue' = [queue EXCEPT ![p] = Append(@, "load")]
          /\ step' = [step EXCEPT ![p] = "load"]
     ELSE step' = [step EXCEPT ![p] = "ready"] /\ UNCHANGED queue
  /\ UNCHANGED <<leaseVars, disk, entries, reading, combined, draining, accepted, history>>

InLine(p, operations) == queue[p] # <<>> /\ Head(queue[p]) \in operations

(* readJournal, line by line *)
BeginRead(p) ==
  /\ InLine(p, {"read", "load"})
  /\ reading[p] = Unread
  /\ reading' = [reading EXCEPT ![p] = journal]
  /\ UNCHANGED <<leaseVars, disk, entries, queue, waiting, job, step, combined, draining, accepted, history>>

(* The entries read become the copy in memory. *)
EndRead(p) ==
  /\ reading[p] # Unread
  /\ entries' = [entries EXCEPT ![p] = reading[p]]
  /\ reading' = [reading EXCEPT ![p] = Unread]
  /\ queue' = [queue EXCEPT ![p] = Tail(@)]
  /\ step' = [step EXCEPT ![p] = IF Head(queue[p]) = "load" THEN "ready" ELSE @]
  /\ UNCHANGED <<leaseVars, disk, waiting, job, combined, draining, accepted, history>>

Finish(p) ==
  /\ job' = [job EXCEPT ![p] = NoJob]
  /\ step' = [step EXCEPT ![p] = "idle"]

Stored(s, e) == {i \in 1..Len(s) : s[i] = e}

(* The client reads the reply unless its connection was closed by force. *)
Acks(p, s) == IF pc[p] = "open" THEN {<<i, job[p]>> : i \in Stored(s, job[p])} ELSE {}

(* commitEntryBatch finds the same event stored already: nothing to write. *)
AlreadyStored(p) ==
  /\ step[p] = "ready"
  /\ Stored(entries[p], job[p]) # {}
  /\ acked' = acked \cup Acks(p, entries[p])
  /\ Finish(p)
  /\ UNCHANGED <<leaseVars, disk, entries, queue, reading, waiting, combined, draining, accepted, written, lost>>

(* appendMany: the whole journal again, with the new entry at its end. *)
Combine(p) ==
  /\ step[p] = "ready"
  /\ Stored(entries[p], job[p]) = {}
  /\ combined' = [combined EXCEPT ![p] = Append(entries[p], job[p])]
  /\ queue' = [queue EXCEPT ![p] = Append(@, "rewrite")]
  /\ step' = [step EXCEPT ![p] = "rewrite"]
  /\ UNCHANGED <<leaseVars, disk, entries, reading, waiting, job, draining, accepted, history>>

(* Mutant: the replacement does not wait for the operations before it. *)
RewriteOutOfTurn(p) ==
  /\ step[p] = "rewrite"
  /\ journal' = combined[p]
  /\ survivors' = survivors \cup {combined[p]}
  /\ queue' = [queue EXCEPT ![p] = SelectSeq(@, LAMBDA x : x # "rewrite")]
  /\ step' = [step EXCEPT ![p] = "sync"]
  /\ UNCHANGED <<leaseVars, entries, reading, waiting, job, combined, draining, accepted, history>>

(* rewriteJournalAtomically: a synced temporary file takes the journal's name. *)
RunRewrite(p) ==
  /\ InLine(p, {"rewrite"})
  /\ journal' = combined[p]
  /\ survivors' = survivors \cup {combined[p]}
  /\ queue' = [queue EXCEPT ![p] = Tail(@)]
  /\ step' = [step EXCEPT ![p] = "sync"]
  /\ UNCHANGED <<leaseVars, entries, reading, waiting, job, combined, draining, accepted, history>>

(* Mutant: the reply does not wait for the directory. *)
ReplyUnsynced(p) ==
  /\ step[p] = "sync"
  /\ entries' = [entries EXCEPT ![p] = combined[p]]
  /\ acked' = acked \cup Acks(p, combined[p])
  /\ written' = written \cup Acks(p, combined[p])
  /\ Finish(p)
  /\ UNCHANGED <<leaseVars, disk, queue, reading, waiting, combined, draining, accepted, lost>>

(* directory.sync, then the memory copy, then the reply *)
SyncDirectory(p) ==
  /\ step[p] = "sync"
  /\ survivors' = {journal}
  /\ entries' = [entries EXCEPT ![p] = combined[p]]
  /\ acked' = acked \cup Acks(p, combined[p])
  /\ written' = written \cup Acks(p, combined[p])
  /\ Finish(p)
  /\ UNCHANGED <<leaseVars, journal, queue, reading, waiting, combined, draining, accepted, lost>>

(***************************************************************************)
(* The command ends in an error: its event does not fit the log, or the    *)
(* read, the replacement or the directory's sync failed.                   *)
(***************************************************************************)
Reject(p) ==
  /\ step[p] = "ready"
  /\ Finish(p)
  /\ UNCHANGED <<leaseVars, disk, entries, queue, reading, waiting, combined, draining, accepted, history>>

AppendFails(p) ==
  /\ \/ step[p] = "sync" /\ UNCHANGED <<queue, reading>>
     \/ /\ InLine(p, {"load", "rewrite"})
        /\ queue' = [queue EXCEPT ![p] = Tail(@)]
        /\ reading' = [reading EXCEPT ![p] = Unread]
  /\ Fault
  /\ Finish(p)
  /\ UNCHANGED <<file, pc, granted, disk, entries, waiting, combined, draining, accepted, history>>

(* The read of a stream fails: the stream ends. *)
StreamFails(p) ==
  /\ InLine(p, {"read"})
  /\ queue' = [queue EXCEPT ![p] = Tail(@)]
  /\ reading' = [reading EXCEPT ![p] = Unread]
  /\ Fault
  /\ UNCHANGED <<file, pc, granted, disk, entries, waiting, job, step, combined, draining, accepted, history>>

----------------------------------------------------------------------------
Serve(p) ==
  \/ BeginAppend(p) \/ BeginRead(p) \/ EndRead(p) \/ AlreadyStored(p) \/ Combine(p)
  \/ RunRewrite(p) \/ SyncDirectory(p) \/ Reject(p)

Next ==
  \/ \E p \in Process :
       \/ Acquire(p) \/ Drain(p) \/ CloseRegistry(p) \/ ExitProcess(p) \/ CrashProcess(p)
       \/ Accept(p) \/ StreamRead(p) \/ Serve(p) \/ AppendFails(p) \/ StreamFails(p)
  \/ CrashHost

Spec == Init /\ [][Next]_vars

----------------------------------------------------------------------------
(***************************************************************************)
(* Until the host first loses power, what a client was told is stored      *)
(* stays in the journal file, at the same ordinal (its delivery sequence), *)
(* whatever processes are started, stopped or die: no writer replaces the  *)
(* file with a copy that lacks it.                                         *)
(***************************************************************************)
AckedStays == lost \/ \A a \in acked : a[1] \in Stored(journal, a[2])

(***************************************************************************)
(* What a client was told after a write of its own (rewrite with sync,     *)
(* then the directory's sync) is found again after a power loss at any     *)
(* later moment.  A reply that only found the event stored already is not  *)
(* covered: the write it found may be one whose directory sync failed.     *)
(***************************************************************************)
WrittenSurvives == \A a \in written, s \in survivors : a[1] \in Stored(s, a[2])

(***************************************************************************)
(* What is reported as stored is kept: until the host first loses power by *)
(* the journal itself, and when the report waited for a write of its own,  *)
(* by everything that a power loss may leave (appendMany,                  *)
(* rewriteJournalAtomically).                                              *)
(***************************************************************************)
JournalKept == AckedStays /\ WrittenSurvives

-----------------------------------------------------------------------------
(***************************************************************************)
(* Proof that the writer lease excludes, for any set of processes, any     *)
(* number of failures and returning pids.                                  *)
(*                                                                         *)
(* SingleWriter is not inductive.  What carries it: a holder's token is in *)
(* the lock file (HolderOwns), a file being created is blank (Unwritten),  *)
(* one process at a time recovers (SoleRecoverer), a token in a file is    *)
(* that of a running process (TokensLive), and the lease a recoverer is    *)
(* about to unlink is nobody's (UnlinksDead).                              *)
(***************************************************************************)

Recovering == {"reinspect", "unlink", "drop", "erase"}

HolderOwns == \A p \in Process : pc[p] \in Holding => file["lock"] = Mine(p)

Unwritten ==
  \A p \in Process :
    /\ pc[p] = "write" => file["lock"] = Blank
    /\ pc[p] = "writeRecovery" => file["recovery"] = Blank

SoleCreator == \A p, q \in Process : pc[p] = "write" /\ pc[q] = "write" => p = q

SoleRecoverer ==
  /\ \A p, q \in Process : pc[p] = "writeRecovery" /\ pc[q] = "writeRecovery" => p = q
  /\ \A p \in Process : pc[p] \in Recovering => file["recovery"] = Mine(p)

TokensLive ==
  \A path \in Path, p \in Process : file[path] = Mine(p) => pc[p] # "down"

UnlinksDead ==
  \A p \in Process :
    pc[p] = "unlink" => file["lock"] # Absent /\ file["lock"] # Blank
                        /\ \A q \in Process : file["lock"] # Mine(q)

LeaseInv ==
  /\ LeaseTypeOK
  /\ HolderOwns
  /\ Unwritten
  /\ SoleCreator
  /\ SoleRecoverer
  /\ TokensLive
  /\ UnlinksDead

(* What the proofs need to know of a lease: it is neither missing nor blank, *)
(* and its token names one process.                                          *)
LEMMA MineFacts ==
  ASSUME NEW p \in Process
  PROVE  /\ Mine(p) \in Lease /\ Mine(p) # Absent /\ Mine(p) # Blank
         /\ Mine(p).pid = p
         /\ \A q \in Process : Mine(q) = Mine(p) => q = p
<1>1. Mine(p) \in Lease
  BY DEF Mine, Lease
<1>2. \A q \in Process : Mine(q).pid = q
  BY DEF Mine
<1>3. \A q \in Process : Mine(q) = Mine(p) => q = p
  BY <1>2
<1> QED
  BY <1>1, <1>2, <1>3, LeaseAssumption

(* The directory starts without files, so nothing is claimed. *)
LEMMA LeaseInitInv == LeaseInit => LeaseInv
<1> SUFFICES ASSUME LeaseInit PROVE LeaseInv
  OBVIOUS
<1>1. LeaseTypeOK
  BY LeaseAssumption DEF LeaseInit, LeaseTypeOK, Acquiring, Holding
<1>2. \A p \in Process : pc[p] = "down"
  BY DEF LeaseInit
<1>3. \A path \in Path, p \in Process : file[path] # Mine(p)
  BY MineFacts DEF LeaseInit
<1> QED
  BY <1>1, <1>2, <1>3 DEF LeaseInv, HolderOwns, Unwritten, SoleCreator, SoleRecoverer,
     TokensLive, UnlinksDead, Holding, Recovering

(* The files a process may change on its way out: the one it has created   *)
(* and not yet handed over.                                                *)
OwnFile(p, path) ==
  \/ path = "lock" /\ pc[p] = "write"
  \/ path = "recovery" /\ pc[p] \in Recovering \cup {"writeRecovery"}

(* What the lease of a process says once the process is gone. *)
Gone(p) == [pid |-> p, current |-> FALSE]

(* A file as p leaves it: its token is nobody's, and a file of its own may *)
(* be missing or blank.                                                    *)
LeftBy(p, path) ==
  \/ file'[path] = IF file[path] = Mine(p) THEN Gone(p) ELSE file[path]
  \/ OwnFile(p, path) /\ file'[path] \in {Absent, Blank, Gone(p)}

(* A dead lease is a lease, and nobody's. *)
LEMMA GoneFacts ==
  ASSUME NEW p \in Process
  PROVE  /\ Gone(p) \in Lease /\ Abandoned(Mine(p)) = Gone(p)
         /\ \A q \in Process : Gone(p) # Mine(q)
<1>1. Abandoned(Mine(p)) = Gone(p)
  BY MineFacts DEF Abandoned, Gone
<1> QED
  BY <1>1 DEF Gone, Mine, Lease

(* A process that leaves takes its token with it and disturbs nobody.      *)
LEMMA LeaveInv ==
  ASSUME LeaseInv, NEW p \in Process,
         pc' = [pc EXCEPT ![p] = "down"],
         file' \in [Path -> Lease \cup {Absent, Blank}],
         \A path \in Path : LeftBy(p, path),
         granted' \in [Process -> BOOLEAN], faults' \in 0..MaxFaults
  PROVE  LeaseInv'
<1> USE DEF LeaseInv
<1>1. \A q \in Process : pc'[q] = IF q = p THEN "down" ELSE pc[q]
  BY DEF LeaseTypeOK
<1>2. LeaseTypeOK'
  BY DEF LeaseTypeOK
<1>3. LeftBy(p, "lock") /\ LeftBy(p, "recovery")
  BY DEF Path
<1>4. ASSUME NEW q \in Process, q # p
      PROVE  /\ pc[q] \in Holding \cup {"write", "unlink"} => file'["lock"] = file["lock"]
             /\ pc[q] \in Recovering \cup {"writeRecovery"} => file'["recovery"] = file["recovery"]
  <2>1. pc[q] \in Holding \cup {"write", "unlink"} => pc[p] # "write" /\ file["lock"] # Mine(p)
    BY <1>4, MineFacts DEF HolderOwns, Unwritten, SoleCreator, UnlinksDead
  <2>2. pc[q] \in Recovering \cup {"writeRecovery"} =>
          pc[p] \notin Recovering \cup {"writeRecovery"} /\ file["recovery"] # Mine(p)
    BY <1>4, MineFacts DEF SoleRecoverer, Unwritten
  <2> QED
    BY <1>3, <2>1, <2>2 DEF LeftBy, OwnFile
<1>5. \A q \in Process, path \in Path : file'[path] = Mine(q) => q # p /\ file[path] = Mine(q)
  BY MineFacts, GoneFacts DEF LeftBy
<1>6. HolderOwns' /\ Unwritten' /\ SoleCreator' /\ SoleRecoverer'
  BY <1>1, <1>4 DEF HolderOwns, Unwritten, SoleCreator, SoleRecoverer, Holding, Recovering
<1>7. TokensLive'
  BY <1>1, <1>5 DEF TokensLive
<1>8. UnlinksDead'
  BY <1>1, <1>4 DEF UnlinksDead
<1> QED
  BY <1>2, <1>6, <1>7, <1>8

(* A process that ends and leaves the files alone. *)
LEMMA EndInv ==
  ASSUME LeaseInv, NEW p \in Process, Leave(p, file),
         granted' \in [Process -> BOOLEAN], faults' \in 0..MaxFaults
  PROVE  LeaseInv'
<1>1. file \in [Path -> Lease \cup {Absent, Blank}]
  BY DEF LeaseInv, LeaseTypeOK
<1>2. pc' = [pc EXCEPT ![p] = "down"]
  BY DEF Leave, Goto
<1>3. \A path \in Path : file'[path] = IF file[path] = Mine(p) THEN Gone(p) ELSE file[path]
  BY GoneFacts DEF Leave
<1>4. file' \in [Path -> Lease \cup {Absent, Blank}]
  BY <1>1, <1>3, GoneFacts DEF Leave
<1>5. \A path \in Path : LeftBy(p, path)
  BY <1>3 DEF LeftBy
<1> QED
  BY <1>2, <1>4, <1>5, LeaveInv

(* A process that ends after it has made or removed a file of its own. *)
LEMMA EndOwnInv ==
  ASSUME LeaseInv, NEW p \in Process, NEW own \in Path, OwnFile(p, own),
         NEW content \in {Absent, Blank, Mine(p)},
         Leave(p, [file EXCEPT ![own] = content]),
         granted' \in [Process -> BOOLEAN], faults' \in 0..MaxFaults
  PROVE  LeaseInv'
<1>1. file \in [Path -> Lease \cup {Absent, Blank}]
  BY DEF LeaseInv, LeaseTypeOK
<1>2. pc' = [pc EXCEPT ![p] = "down"]
  BY DEF Leave, Goto
<1>3. \A path \in Path \ {own} : file'[path] = IF file[path] = Mine(p) THEN Gone(p) ELSE file[path]
  BY <1>1, GoneFacts DEF Leave
<1>4. file'[own] \in {Absent, Blank, Gone(p)}
  BY <1>1, GoneFacts, MineFacts DEF Leave
<1>5. file' \in [Path -> Lease \cup {Absent, Blank}]
  BY <1>1, <1>3, <1>4, GoneFacts DEF Leave
<1>6. \A path \in Path : LeftBy(p, path)
  BY <1>3, <1>4 DEF LeftBy
<1> QED
  BY <1>2, <1>5, <1>6, LeaveInv

(* A step that changes no file: the process only moves on. *)
LEMMA MoveInv ==
  ASSUME LeaseInv, NEW p \in Process, NEW label,
         pc' = [pc EXCEPT ![p] = label], UNCHANGED file,
         granted' \in [Process -> BOOLEAN], faults' \in 0..MaxFaults,
         label \in {"create", "inspect", "recover", "unlink", "drop", "erase", "recreate", "closing", "release", "closed"},
         label \in {"unlink", "drop", "erase"} => pc[p] \in Recovering,
         label \in {"closing", "release"} => pc[p] \in Holding,
         label = "unlink" => ExistingLeaseIsStale("lock")
  PROVE  LeaseInv'
<1> USE DEF LeaseInv
<1>1. \A q \in Process : pc'[q] = IF q = p THEN label ELSE pc[q]
  BY DEF LeaseTypeOK
<1>2. LeaseTypeOK'
  BY DEF LeaseTypeOK, Acquiring, Holding
<1>3. HolderOwns' /\ Unwritten' /\ SoleCreator' /\ SoleRecoverer' /\ TokensLive'
  BY <1>1 DEF HolderOwns, Unwritten, SoleCreator, SoleRecoverer, TokensLive, Holding, Recovering
<1>4. ExistingLeaseIsStale("lock") =>
        file["lock"] # Absent /\ file["lock"] # Blank /\ \A q \in Process : file["lock"] # Mine(q)
  <2> SUFFICES ASSUME ExistingLeaseIsStale("lock"), NEW q \in Process, file["lock"] = Mine(q)
               PROVE  FALSE
    BY LeaseAssumption DEF ExistingLeaseIsStale
  <2>1. pc[q] # "down"
    BY DEF TokensLive, Path
  <2> QED
    BY <2>1, MineFacts DEF ExistingLeaseIsStale, ProcessExists
<1>5. UnlinksDead'
  BY <1>1, <1>4 DEF UnlinksDead
<1> QED
  BY <1>2, <1>3, <1>5

(* open(lock, "wx"): the file was not there, so nobody holds or removes it. *)
LEMMA CreateInv ==
  ASSUME LeaseInv, NEW p \in Process, file["lock"] = Absent,
         Set("lock", Blank), Goto(p, "write"), UNCHANGED <<granted, faults>>
  PROVE  LeaseInv'
<1> USE DEF LeaseInv
<1>1. \A q \in Process : pc'[q] = IF q = p THEN "write" ELSE pc[q]
  BY DEF LeaseTypeOK, Goto
<1>2. file'["lock"] = Blank /\ file'["recovery"] = file["recovery"]
  BY DEF LeaseTypeOK, Set, Path
<1>3. LeaseTypeOK'
  BY DEF LeaseTypeOK, Goto, Set, Path, Acquiring
<1>4. \A q \in Process : pc[q] \notin Holding /\ pc[q] # "write" /\ pc[q] # "unlink"
  BY MineFacts, LeaseAssumption DEF HolderOwns, Unwritten, UnlinksDead
<1>5. HolderOwns' /\ SoleCreator' /\ Unwritten' /\ UnlinksDead'
  BY <1>1, <1>2, <1>4 DEF HolderOwns, SoleCreator, Unwritten, UnlinksDead, Holding
<1>6. SoleRecoverer'
  BY <1>1, <1>2 DEF SoleRecoverer, Recovering
<1>7. TokensLive'
  BY <1>1, <1>2, MineFacts DEF TokensLive, Path
<1> QED
  BY <1>3, <1>5, <1>6, <1>7

(* The creator of the lock writes its token into it. *)
LEMMA WriteInv ==
  ASSUME LeaseInv, NEW p \in Process, Write(p)
  PROVE  LeaseInv'
<1> USE DEF LeaseInv
<1>1. \A q \in Process : pc'[q] = IF q = p THEN "open" ELSE pc[q]
  BY DEF LeaseTypeOK, Write, Goto
<1>2. file'["lock"] = Mine(p) /\ file'["recovery"] = file["recovery"]
  BY DEF LeaseTypeOK, Write, Set, Path
<1>3. LeaseTypeOK'
  BY MineFacts DEF LeaseTypeOK, Write, Goto, Set, Path, Holding
<1>4. \A q \in Process : pc[q] \notin Holding /\ pc[q] # "unlink" /\ (pc[q] = "write" => q = p)
  BY MineFacts DEF HolderOwns, Unwritten, UnlinksDead, SoleCreator, Write
<1>5. HolderOwns' /\ SoleCreator' /\ Unwritten' /\ UnlinksDead'
  BY <1>1, <1>2, <1>4 DEF HolderOwns, SoleCreator, Unwritten, UnlinksDead, Holding
<1>6. SoleRecoverer'
  BY <1>1, <1>2 DEF SoleRecoverer, Recovering
<1>7. TokensLive'
  BY <1>1, <1>2, MineFacts DEF TokensLive, Path
<1> QED
  BY <1>3, <1>5, <1>6, <1>7

(* The lock disappears: its holder releases it, or a recoverer removes a   *)
(* lease that is nobody's.                                                 *)
LEMMA RemoveInv ==
  ASSUME LeaseInv, NEW p \in Process,
         \/ Unlink(p)
         \/ EraseLease(p)
  PROVE  LeaseInv'
<1> USE DEF LeaseInv
<1>1. PICK label \in {"drop", "closed"} :
        /\ \A q \in Process : pc'[q] = IF q = p THEN label ELSE pc[q]
        /\ pc' = [pc EXCEPT ![p] = label]
        /\ label = "drop" => pc[p] = "unlink"
        /\ label = "closed" => pc[p] = "release"
  BY DEF LeaseTypeOK, Unlink, EraseLease, Goto
<1>2. file'["lock"] = Absent /\ file'["recovery"] = file["recovery"]
  BY DEF LeaseTypeOK, Unlink, EraseLease, Set, Path
<1>3. LeaseTypeOK'
  BY <1>1 DEF LeaseTypeOK, Unlink, EraseLease, Set, Path, Acquiring
<1>4. \A q \in Process : q # p => pc[q] \notin Holding /\ pc[q] # "write" /\ pc[q] # "unlink"
  <2>1. CASE pc[p] = "unlink"
    <3>1. \A q \in Process : pc[q] \notin Holding /\ pc[q] # "write"
      BY <2>1 DEF HolderOwns, Unwritten, UnlinksDead
    <3>2. \A q \in Process : pc[q] = "unlink" => q = p
      BY <2>1, MineFacts DEF SoleRecoverer, Recovering
    <3> QED
      BY <3>1, <3>2
  <2>2. CASE pc[p] = "release"
    <3>1. file["lock"] = Mine(p)
      BY <2>2 DEF HolderOwns, Holding
    <3> QED
      BY <3>1, MineFacts DEF HolderOwns, Unwritten, UnlinksDead
  <2> QED
    BY <1>1, <2>1, <2>2
<1>5. HolderOwns' /\ SoleCreator' /\ Unwritten' /\ UnlinksDead'
  BY <1>1, <1>2, <1>4 DEF HolderOwns, SoleCreator, Unwritten, UnlinksDead, Holding
<1>6. SoleRecoverer'
  BY <1>1, <1>2 DEF SoleRecoverer, Recovering
<1>7. TokensLive'
  BY <1>1, <1>2, MineFacts DEF TokensLive, Path
<1> QED
  BY <1>3, <1>5, <1>6, <1>7

(* open(recovery, "wx") and the write after it. *)
LEMMA RecoveryFileInv ==
  ASSUME LeaseInv, NEW p \in Process,
         \/ pc[p] = "recover" /\ file["recovery"] = Absent /\ Recover(p)
         \/ WriteRecovery(p)
  PROVE  LeaseInv'
<1> USE DEF LeaseInv
<1>1. PICK label \in {"writeRecovery", "reinspect"} :
        /\ \A q \in Process : pc'[q] = IF q = p THEN label ELSE pc[q]
        /\ pc' = [pc EXCEPT ![p] = label]
        /\ file'["lock"] = file["lock"]
        /\ label = "writeRecovery" => file["recovery"] = Absent /\ file'["recovery"] = Blank
        /\ label = "reinspect" => pc[p] = "writeRecovery" /\ file'["recovery"] = Mine(p)
  BY DEF LeaseTypeOK, Recover, WriteRecovery, Set, Goto, Path
<1>2. LeaseTypeOK'
  BY MineFacts DEF LeaseTypeOK, Recover, WriteRecovery, Set, Goto, Path, Acquiring
<1>3. \A q \in Process : q # p => pc[q] \notin Recovering /\ pc[q] # "writeRecovery"
  <2>1. file["recovery"] = Absent \/ (pc[p] = "writeRecovery" /\ file["recovery"] = Blank)
    BY <1>1 DEF Unwritten
  <2>2. \A q \in Process : file["recovery"] # Mine(q)
    BY <2>1, MineFacts
  <2> QED
    BY <2>1, <2>2, LeaseAssumption DEF SoleRecoverer, Unwritten
<1>4. HolderOwns' /\ SoleCreator' /\ Unwritten' /\ UnlinksDead' /\ SoleRecoverer'
  BY <1>1, <1>3 DEF HolderOwns, SoleCreator, Unwritten, UnlinksDead, SoleRecoverer, Holding, Recovering
<1>5. TokensLive'
  BY <1>1, MineFacts DEF TokensLive, Path
<1> QED
  BY <1>2, <1>4, <1>5

(* The recovery file is removed by the process that made it. *)
LEMMA EraseRecoveryInv ==
  ASSUME LeaseInv, NEW p \in Process, EraseRecovery(p)
  PROVE  LeaseInv'
<1> USE DEF LeaseInv
<1> DEFINE left == [file EXCEPT !["recovery"] = Absent]
<1>1. left["recovery"] = Absent /\ left["lock"] = file["lock"] /\ Path = {"lock", "recovery"}
  BY DEF LeaseTypeOK, Path
<1>2. granted' \in [Process -> BOOLEAN] /\ faults' \in 0..MaxFaults
  BY DEF LeaseTypeOK, EraseRecovery
<1>3. CASE ~granted[p]
  <2>1. Leave(p, left)
    BY <1>3 DEF EraseRecovery, AfterRecovery
  <2>2. OwnFile(p, "recovery")
    BY DEF EraseRecovery, OwnFile, Recovering
  <2> QED
    BY <1>1, <1>2, <2>1, <2>2, EndOwnInv
<1>4. CASE granted[p]
  <2>1. pc' = [pc EXCEPT ![p] = "recreate"] /\ file' = left
    BY <1>4 DEF EraseRecovery, AfterRecovery, Goto
  <2>2. \A q \in Process : pc'[q] = IF q = p THEN "recreate" ELSE pc[q]
    BY <2>1 DEF LeaseTypeOK
  <2>3. LeaseTypeOK'
    BY <1>2, <2>1 DEF LeaseTypeOK, Acquiring
  <2>4. \A q \in Process : q # p => pc[q] \notin Recovering /\ pc[q] # "writeRecovery"
    BY MineFacts DEF SoleRecoverer, Unwritten, Recovering, EraseRecovery
  <2>5. HolderOwns' /\ SoleCreator' /\ Unwritten' /\ UnlinksDead' /\ SoleRecoverer'
    BY <1>1, <2>1, <2>2, <2>4 DEF HolderOwns, SoleCreator, Unwritten, UnlinksDead, SoleRecoverer, Holding, Recovering
  <2>6. TokensLive'
    BY <1>1, <2>1, <2>2, MineFacts DEF TokensLive
  <2> QED
    BY <2>3, <2>5, <2>6
<1> QED
  BY <1>3, <1>4

(* A power loss ends every process and leaves no token that is anybody's. *)
LEMMA PowerLossInv == LeaseInv /\ PowerLoss => LeaseInv'
<1> SUFFICES ASSUME LeaseInv, PowerLoss PROVE LeaseInv'
  OBVIOUS
<1>1. \A p \in Process : pc'[p] = "down"
  BY DEF PowerLoss
<1>2. \A path \in Path : Abandoned(file[path]) \in Lease \cup {Absent, Blank}
  BY DEF LeaseInv, LeaseTypeOK, Abandoned, Lease
<1>3. \A path \in Path, p \in Process : Abandoned(file[path]) # Mine(p)
  BY MineFacts DEF Abandoned, Mine
<1>4. PICK kept \in SUBSET Path, emptied \in SUBSET Path :
        file' = [path \in Path |-> IF path \in emptied THEN Blank
                                  ELSE IF path \in kept THEN Abandoned(file[path]) ELSE Absent]
  BY DEF PowerLoss
<1>5. LeaseTypeOK'
  BY <1>2, <1>4, LeaseAssumption DEF LeaseInv, LeaseTypeOK, PowerLoss, Fault
<1>6. \A path \in Path, p \in Process : file'[path] # Mine(p)
  BY <1>3, <1>4, MineFacts
<1> QED
  BY <1>1, <1>5, <1>6 DEF LeaseInv, HolderOwns, Unwritten, SoleCreator, SoleRecoverer, TokensLive, UnlinksDead, Holding, Recovering

(* Every step of a process keeps the invariant. *)
LEMMA ProcessInv ==
  ASSUME LeaseInv, NEW p \in Process,
         Start(p) \/ LeaseStep(p) \/ Close(p) \/ LeaseFails(p)
  PROVE  LeaseInv'
<1>f. LeaseTypeOK
  BY DEF LeaseInv
<1>a. granted' \in [Process -> BOOLEAN]
  BY <1>f DEF LeaseTypeOK, LeaseStep, LeaseFails, Start, Create, Write, Inspect, Recover, WriteRecovery,
     Reinspect, Unlink, DropRecovery, EraseRecovery, Close, DropLease, EraseLease, Exit, WriteFails,
     UnlinkFails, Crash
<1>b. Fault \/ faults' = faults
  BY DEF LeaseStep, LeaseFails, Start, Create, Write, Inspect, Recover, WriteRecovery, Reinspect, Unlink,
     DropRecovery, EraseRecovery, Close, DropLease, EraseLease, Exit, WriteFails, UnlinkFails, Crash
<1>0. granted' \in [Process -> BOOLEAN] /\ faults' \in 0..MaxFaults
  BY <1>a, <1>b, <1>f, LeaseAssumption DEF LeaseTypeOK, Fault
<1>1. CASE Start(p)
  BY <1>0, <1>1, MoveInv DEF Start, Goto
<1>2. CASE Create(p)
  <2>1. CASE file["lock"] = Absent
    BY <1>2, <2>1, CreateInv DEF Create
  <2>2. CASE file["lock"] # Absent /\ pc[p] = "create"
    BY <1>0, <1>2, <2>2, MoveInv DEF Create, Goto
  <2>3. CASE file["lock"] # Absent /\ pc[p] # "create"
    <3>1. Leave(p, file)
      BY <1>2, <2>3 DEF Create, Refused
    <3> QED
      BY <1>0, <3>1, EndInv
  <2> QED
    BY <2>1, <2>2, <2>3
<1>3. CASE Write(p)
  BY <1>3, WriteInv
<1>4. CASE Inspect(p)
  <2>1. CASE ExistingLeaseIsStale("lock")
    BY <1>0, <1>4, <2>1, MoveInv DEF Inspect, Goto
  <2>2. CASE ~ExistingLeaseIsStale("lock")
    <3>1. Leave(p, file)
      BY <1>4, <2>2 DEF Inspect, Refused
    <3> QED
      BY <1>0, <3>1, EndInv
  <2> QED
    BY <2>1, <2>2
<1>5. CASE Recover(p)
  <2>1. CASE file["recovery"] = Absent
    BY <1>5, <2>1, RecoveryFileInv DEF Recover
  <2>2. CASE file["recovery"] # Absent
    <3>1. Leave(p, file)
      BY <1>5, <2>2 DEF Recover, Refused
    <3> QED
      BY <1>0, <3>1, EndInv
  <2> QED
    BY <2>1, <2>2
<1>6. CASE WriteRecovery(p)
  BY <1>6, RecoveryFileInv
<1>7. CASE Reinspect(p)
  <2>1. pc[p] \in Recovering /\ UNCHANGED file
    BY <1>7 DEF Reinspect, Recovering
  <2>2. CASE StillStale
    <3>1. Goto(p, "unlink")
      BY <1>7, <2>2 DEF Reinspect
    <3> QED
      BY <1>0, <2>1, <2>2, <3>1, MoveInv DEF StillStale, Goto
  <2>3. CASE ~StillStale
    <3>1. Goto(p, "drop")
      BY <1>7, <2>3 DEF Reinspect
    <3> QED
      BY <1>0, <2>1, <3>1, MoveInv DEF Goto
  <2> QED
    BY <2>2, <2>3
<1>8. CASE Unlink(p) \/ EraseLease(p)
  BY <1>8, RemoveInv
<1>9. CASE DropRecovery(p)
  <2>1. CASE Owned("recovery", p)
    BY <1>0, <1>9, <2>1, MoveInv DEF DropRecovery, Goto, Recovering
  <2>2. CASE ~Owned("recovery", p) /\ granted[p]
    BY <1>0, <1>9, <2>2, MoveInv DEF DropRecovery, AfterRecovery, Goto
  <2>3. CASE ~Owned("recovery", p) /\ ~granted[p]
    <3>1. Leave(p, file)
      BY <1>9, <2>3 DEF DropRecovery, AfterRecovery
    <3> QED
      BY <1>0, <3>1, EndInv
  <2> QED
    BY <2>1, <2>2, <2>3
<1>10. CASE EraseRecovery(p)
  BY <1>10, EraseRecoveryInv
<1>11. CASE Close(p)
  BY <1>0, <1>11, MoveInv DEF Close, Goto, Holding
<1>12. CASE DropLease(p)
  <2>1. pc[p] \in Holding /\ UNCHANGED file
    BY <1>12 DEF DropLease, Holding
  <2>2. Goto(p, "release") \/ Goto(p, "closed")
    BY <1>12 DEF DropLease
  <2> QED
    BY <1>0, <2>1, <2>2, MoveInv DEF Goto
<1>13. CASE Exit(p) \/ Crash(p)
  <2>1. Leave(p, file)
    BY <1>13 DEF Exit, Crash
  <2> QED
    BY <1>0, <2>1, EndInv
<1>14. CASE WriteFails(p)
  <2>1. PICK content \in {Absent, Blank, Mine(p)} :
          Leave(p, [file EXCEPT ![IF pc[p] = "write" THEN "lock" ELSE "recovery"] = content])
    BY <1>14 DEF WriteFails
  <2>2. CASE pc[p] = "write"
    <3>1. Leave(p, [file EXCEPT !["lock"] = content]) /\ OwnFile(p, "lock")
      BY <2>1, <2>2 DEF OwnFile
    <3> QED
      BY <1>0, <3>1, EndOwnInv DEF Path
  <2>3. CASE pc[p] # "write"
    <3>1. Leave(p, [file EXCEPT !["recovery"] = content]) /\ OwnFile(p, "recovery")
      BY <1>14, <2>1, <2>3 DEF OwnFile, WriteFails
    <3> QED
      BY <1>0, <3>1, EndOwnInv DEF Path
  <2> QED
    BY <2>2, <2>3
<1>15. CASE UnlinkFails(p)
  BY <1>0, <1>15, MoveInv DEF UnlinkFails, Goto, Recovering
<1> QED
  BY <1>1, <1>2, <1>3, <1>4, <1>5, <1>6, <1>7, <1>8, <1>9, <1>10, <1>11, <1>12, <1>13, <1>14, <1>15
     DEF LeaseStep, LeaseFails

(* The inductive invariant, for every set of processes and every bound. *)
THEOREM LeaseInvariant == LeaseSpec => []LeaseInv
<1>1. LeaseInv /\ [LeaseNext]_leaseVars => LeaseInv'
  <2> SUFFICES ASSUME LeaseInv, [LeaseNext]_leaseVars PROVE LeaseInv'
    OBVIOUS
  <2>1. CASE UNCHANGED leaseVars
    BY <2>1 DEF leaseVars, LeaseInv, LeaseTypeOK, HolderOwns, Unwritten, SoleCreator, SoleRecoverer, TokensLive, UnlinksDead
  <2>2. CASE LeaseNext
    BY <2>2, ProcessInv, PowerLossInv DEF LeaseNext
  <2> QED
    BY <2>1, <2>2
<1> QED
  BY LeaseInitInv, <1>1, PTL DEF LeaseSpec

(***************************************************************************)
(* acquireWriterLease never lets two processes be past the creation of the *)
(* lock at once, however many processes race, die or return with old pids. *)
(***************************************************************************)
THEOREM SingleWriterHolds == LeaseSpec => []SingleWriter
<1>1. LeaseInv => SingleWriter
  BY MineFacts DEF LeaseInv, SingleWriter, HolderOwns, Unwritten, SoleCreator
<1> QED
  BY LeaseInvariant, <1>1, PTL

(* The files and the places of the processes keep their types. *)
THEOREM LeaseTypeCorrect == LeaseSpec => []LeaseTypeOK
<1>1. LeaseInv => LeaseTypeOK
  BY DEF LeaseInv
<1> QED
  BY LeaseInvariant, <1>1, PTL

-----------------------------------------------------------------------------
(***************************************************************************)
(* Proofs about the journal backend when a shutdown waits for its          *)
(* connections (~ForcedClose), for any number of processes, entries,       *)
(* requests and failures.                                                  *)
(*                                                                         *)
(* A writer replaces the whole journal from its copy in memory.  What the  *)
(* argument needs: only the process with the lease has work (Local); its   *)
(* copy is the journal itself while reads are still to come, so a read can *)
(* not bring an old copy back, and a prefix of it otherwise (Copied); a    *)
(* replacement is the last operation of the queue (Queued) and is the copy *)
(* with one entry more (Appending).                                        *)
(***************************************************************************)

Prefix(s, t) == Len(s) <= Len(t) /\ \A i \in 1..Len(s) : s[i] = t[i]

AtRest(p) == Idle(p) /\ step[p] = "idle" /\ reading[p] = Unread

Queued(p) ==
  /\ \A i \in 1..Len(queue[p]) :
       /\ queue[p][i] = "rewrite" => i = Len(queue[p]) /\ step[p] = "rewrite"
       /\ queue[p][i] = "load" => step[p] = "load"
  /\ \A i, j \in 1..Len(queue[p]) : queue[p][i] = "load" /\ queue[p][j] = "load" => i = j
  /\ step[p] = "rewrite" => Len(queue[p]) > 0 /\ queue[p][Len(queue[p])] = "rewrite"
  /\ step[p] = "sync" => Len(queue[p]) = 0

Copied(p) ==
  /\ reading[p] # Unread => Len(queue[p]) > 0 /\ queue[p][1] # "rewrite" /\ reading[p] = journal
  /\ entries[p] # Unread => Prefix(entries[p], journal) \/ step[p] = "sync"
  /\ entries[p] # Unread /\ (\E i \in 1..Len(queue[p]) : queue[p][i] # "rewrite") => entries[p] = journal

Appending(p) ==
  /\ job[p] = NoJob <=> step[p] = "idle"
  /\ step[p] \in {"ready", "rewrite", "sync"} => entries[p] # Unread
  /\ step[p] \in {"rewrite", "sync"} => combined[p] = Append(entries[p], job[p])
  /\ step[p] = "sync" => journal = combined[p]

Local(p) ==
  /\ pc[p] # "open" => AtRest(p)
  /\ pc[p] \notin Holding \cup {"closed"} => entries[p] = Unread
  /\ pc[p] = "open" => Queued(p) /\ Copied(p) /\ Appending(p)

JournalInv == TypeOK /\ LeaseInv /\ \A p \in Process : Local(p)

----------------------------------------------------------------------------
(* Sequences *)

(* What Append does to a sequence. *)
LEMMA AppendFacts ==
  ASSUME NEW S, NEW s \in Seq(S), NEW x \in S
  PROVE  /\ Append(s, x) \in Seq(S) /\ Len(s) \in Nat /\ Len(Append(s, x)) = Len(s) + 1
         /\ \A i \in 1..Len(s) : Append(s, x)[i] = s[i]
         /\ Append(s, x)[Len(s) + 1] = x
OBVIOUS

(* What Tail and Head do to a sequence. *)
LEMMA TailFacts ==
  ASSUME NEW S, NEW s \in Seq(S), s # <<>>
  PROVE  /\ Tail(s) \in Seq(S) /\ Len(s) \in Nat /\ Len(s) > 0 /\ Len(Tail(s)) = Len(s) - 1
         /\ \A i \in 1..Len(s) - 1 : Tail(s)[i] = s[i + 1]
         /\ Head(s) = s[1] /\ s[1] \in S
OBVIOUS

(* A sequence without elements, and one with. *)
LEMMA LenFacts ==
  ASSUME NEW S, NEW s \in Seq(S)
  PROVE  Len(s) \in Nat /\ (s = <<>> <=> Len(s) = 0) /\ \A i \in 1..Len(s) : s[i] \in S
OBVIOUS

(* A journal is a prefix of itself and of itself with one entry more. *)
LEMMA PrefixFacts ==
  ASSUME NEW s \in Seq(Entry)
  PROVE  Prefix(s, s) /\ \A e \in Entry : Prefix(s, Append(s, e))
BY AppendFacts DEF Prefix

----------------------------------------------------------------------------
(* One process works, the others do not *)

(* At most one process has the registry open. *)
LEMMA OneOpen ==
  ASSUME LeaseInv, NEW p \in Process, NEW q \in Process, pc[p] = "open", pc[q] = "open"
  PROVE  p = q
BY MineFacts DEF LeaseInv, HolderOwns, Holding

(* A process with nothing to do satisfies what a working one must. *)
LEMMA RestFacts ==
  ASSUME TypeOK, NEW p \in Process, AtRest(p), entries[p] = Unread
  PROVE  Queued(p) /\ Copied(p) /\ Appending(p)
<1>1. Len(queue[p]) = 0
  BY DEF AtRest, Idle
<1> QED
  BY <1>1 DEF AtRest, Idle, Queued, Copied, Appending

(* What p's step leaves alone. *)
Others(p) ==
  \A q \in Process \ {p} :
    /\ entries'[q] = entries[q] /\ queue'[q] = queue[q] /\ reading'[q] = reading[q]
    /\ waiting'[q] = waiting[q] /\ job'[q] = job[q] /\ step'[q] = step[q]

(* The lease does not notice what its holder does. *)
LEMMA LeaseUnmoved ==
  ASSUME LeaseInv, UNCHANGED <<file, pc, granted>>, faults' \in 0..MaxFaults
  PROVE  LeaseInv'
BY DEF LeaseInv, LeaseTypeOK, HolderOwns, Unwritten, SoleCreator, SoleRecoverer, TokensLive, UnlinksDead

(* A step of the process that has the registry open. *)
LEMMA OwnStep ==
  ASSUME JournalInv, NEW p \in Process, pc[p] = "open",
         UNCHANGED <<file, pc, granted>>, TypeOK', Others(p),
         Queued(p)', Copied(p)', Appending(p)'
  PROVE  JournalInv'
<1>1. LeaseInv'
  BY LeaseUnmoved DEF JournalInv, TypeOK, LeaseTypeOK
<1>2. ASSUME NEW q \in Process PROVE Local(q)'
  <2>1. CASE q = p
    BY <2>1 DEF Local, Holding
  <2>2. CASE q # p
    <3>1. pc[q] # "open"
      BY <2>2, OneOpen DEF JournalInv
    <3>2. AtRest(q) /\ (pc[q] \notin Holding \cup {"closed"} => entries[q] = Unread)
      BY <3>1 DEF JournalInv, Local
    <3> QED
      BY <2>2, <3>1, <3>2 DEF Others, Local, AtRest, Idle
  <2> QED
    BY <2>1, <2>2
<1> QED
  BY <1>1, <1>2 DEF JournalInv

(* A step of the lease protocol: the process has no work before or after. *)
LEMMA LeaseMoves ==
  ASSUME JournalInv, NEW p \in Process, LeaseInv', NEW label,
         pc' = [pc EXCEPT ![p] = label], AtRest(p),
         label \in {"closing", "release", "closed"} \/ entries[p] = Unread,
         UNCHANGED <<disk, writer, accepted, history>>
  PROVE  JournalInv'
<1>1. TypeOK'
  BY DEF JournalInv, TypeOK, LeaseInv, disk, writer, history
<1>2. ASSUME NEW q \in Process PROVE Local(q)'
  <2>1. UNCHANGED <<entries, queue, reading, waiting, job, step, combined, journal>>
    BY DEF disk, writer
  <2>2. CASE q # p
    <3>1. pc'[q] = pc[q]
      BY <2>2 DEF JournalInv, TypeOK, LeaseTypeOK
    <3> QED
      BY <2>1, <3>1 DEF JournalInv, Local, AtRest, Idle, Queued, Copied, Appending
  <2>3. CASE q = p
    <3>1. pc'[p] = label
      BY DEF JournalInv, TypeOK, LeaseTypeOK
    <3>2. AtRest(p)' /\ entries'[p] = entries[p]
      BY <2>1 DEF AtRest, Idle
    <3>3. CASE entries[p] = Unread
      <4>1. Queued(p)' /\ Copied(p)' /\ Appending(p)'
        BY <1>1, <3>2, <3>3, RestFacts, <2>1 DEF JournalInv, Queued, Copied, Appending
      <4> QED
        BY <2>3, <3>2, <3>3, <4>1 DEF Local
    <3>4. CASE label \in {"closing", "release", "closed"}
      BY <2>3, <3>1, <3>2, <3>4 DEF Local, Holding
    <3> QED
      BY <3>3, <3>4
  <2> QED
    BY <2>2, <2>3
<1> QED
  BY <1>1, <1>2 DEF JournalInv

(* No process runs, and nothing is written. *)
LEMMA JournalInit == Init => JournalInv
<1> SUFFICES ASSUME Init PROVE JournalInv
  OBVIOUS
<1>1. LeaseInv
  BY LeaseInitInv DEF Init
<1>2. TypeOK
  BY <1>1, JournalAssumption DEF Init, TypeOK, LeaseInv
<1>3. ASSUME NEW p \in Process PROVE Local(p)
  BY DEF Init, LeaseInit, Local, AtRest, Idle, Holding
<1> QED
  BY <1>1, <1>2, <1>3 DEF JournalInv

(* A process that acquires or hands back the lease has not the registry open. *)
LEMMA AcquireClosed == ASSUME NEW p \in Process, Acquire(p) PROVE pc[p] # "open"
BY DEF Acquire, Start, WriteFails, UnlinkFails, LeaseStep, Create, Write, Inspect, Recover, WriteRecovery,
     Reinspect, Unlink, DropRecovery, EraseRecovery, DropLease, EraseLease, Exit

(* Where the steps of the lease lead: a holder does not become one again. *)
LEMMA AcquireMoves ==
  ASSUME NEW p \in Process, Acquire(p)
  PROVE  \E label : /\ pc' = [pc EXCEPT ![p] = label]
                    /\ pc[p] \in Holding \cup {"closed"} => label \in {"closing", "release", "closed"}
<1>1. CASE Start(p) \/ WriteFails(p) \/ UnlinkFails(p)
  BY <1>1 DEF Start, WriteFails, UnlinkFails, Goto, Leave, Holding
<1>2. CASE Create(p) \/ Write(p) \/ Inspect(p) \/ Recover(p)
  BY <1>2 DEF Create, Write, Inspect, Recover, Goto, Refused, Leave, Holding
<1>3. CASE WriteRecovery(p) \/ Reinspect(p) \/ Unlink(p)
  BY <1>3 DEF WriteRecovery, Reinspect, Unlink, Goto, Holding
<1>4. CASE DropRecovery(p) \/ EraseRecovery(p)
  BY <1>4 DEF DropRecovery, EraseRecovery, AfterRecovery, Goto, Leave, Holding
<1>5. CASE DropLease(p) \/ EraseLease(p)
  BY <1>5 DEF DropLease, EraseLease, Goto
<1>6. CASE pc[p] # "closed" /\ Exit(p)
  BY <1>6 DEF Exit
<1> QED
  BY <1>1, <1>2, <1>3, <1>4, <1>5, <1>6 DEF Acquire, LeaseStep

(* Steps of acquireWriterLease and removeLeaseIfOwned. *)
LEMMA AcquireInv ==
  ASSUME JournalInv, NEW p \in Process, Acquire(p)
  PROVE  JournalInv'
<1>1. LeaseInv'
  <2>1. Start(p) \/ LeaseStep(p) \/ Close(p) \/ LeaseFails(p)
    BY DEF Acquire, LeaseFails
  <2> QED
    BY <2>1, ProcessInv DEF JournalInv
<1>2. pc[p] # "open"
  BY AcquireClosed
<1>3. PICK label :
        /\ pc' = [pc EXCEPT ![p] = label]
        /\ pc[p] \in Holding \cup {"closed"} => label \in {"closing", "release", "closed"}
  BY AcquireMoves
<1>4. AtRest(p) /\ (pc[p] \notin Holding \cup {"closed"} => entries[p] = Unread)
  BY <1>2 DEF JournalInv, Local
<1>5. UNCHANGED <<disk, writer, accepted, history>>
  BY DEF Acquire
<1> QED
  BY <1>1, <1>3, <1>4, <1>5, LeaseMoves

(* registry.close is called when no request is left. *)
LEMMA CloseInv ==
  ASSUME JournalInv, ~ForcedClose, NEW p \in Process, CloseRegistry(p)
  PROVE  JournalInv'
<1>1. LeaseInv'
  BY ProcessInv DEF JournalInv, CloseRegistry
<1>2. pc[p] = "open" /\ pc' = [pc EXCEPT ![p] = "closing"] /\ Idle(p)
  BY DEF CloseRegistry, Close, Goto
<1>3. AtRest(p)
  <2>1. Len(queue[p]) = 0 /\ Copied(p) /\ Appending(p)
    BY <1>2 DEF JournalInv, Local, Idle
  <2> QED
    BY <1>2, <2>1 DEF AtRest, Copied, Appending, Idle
<1> QED
  BY <1>1, <1>2, <1>3, LeaseMoves DEF CloseRegistry

(* A process ends, in order or not, and its memory with it. *)
LEMMA EndsInv ==
  ASSUME JournalInv, NEW p \in Process, ExitProcess(p) \/ CrashProcess(p)
  PROVE  JournalInv'
<1>1. LeaseInv'
  <2>1. LeaseStep(p) \/ LeaseFails(p)
    BY DEF ExitProcess, CrashProcess, LeaseStep, LeaseFails
  <2> QED
    BY <2>1, ProcessInv DEF JournalInv
<1>2. pc' = [pc EXCEPT ![p] = "down"] /\ Forget(p) /\ UNCHANGED <<disk, accepted, history>>
  BY DEF ExitProcess, CrashProcess, Exit, Crash, Leave, Goto
<1>3. TypeOK'
  <2>1. LeaseTypeOK'
    BY <1>1 DEF LeaseInv
  <2> QED
    BY <1>2, <2>1 DEF JournalInv, TypeOK, Forget, disk, history
<1>4. ASSUME NEW q \in Process PROVE Local(q)'
  <2>1. CASE q = p
    <3>1. /\ pc'[p] = "down" /\ entries'[p] = Unread /\ queue'[p] = <<>> /\ reading'[p] = Unread
          /\ waiting'[p] = {} /\ job'[p] = NoJob /\ step'[p] = "idle"
      BY <1>2 DEF JournalInv, TypeOK, LeaseTypeOK, Forget
    <3> QED
      BY <2>1, <3>1 DEF Local, AtRest, Idle
  <2>2. CASE q # p
    <3>1. /\ pc'[q] = pc[q] /\ entries'[q] = entries[q] /\ queue'[q] = queue[q] /\ reading'[q] = reading[q]
          /\ waiting'[q] = waiting[q] /\ job'[q] = job[q] /\ step'[q] = step[q]
          /\ combined'[q] = combined[q] /\ journal' = journal
      BY <1>2, <2>2 DEF JournalInv, TypeOK, LeaseTypeOK, Forget, disk
    <3> QED
      BY <3>1 DEF JournalInv, Local, AtRest, Idle, Queued, Copied, Appending
  <2> QED
    BY <2>1, <2>2
<1> QED
  BY <1>1, <1>3, <1>4 DEF JournalInv

(* After a power loss no process has anything in memory. *)
LEMMA HostInv ==
  ASSUME JournalInv, CrashHost
  PROVE  JournalInv'
<1>1. LeaseInv'
  BY PowerLossInv DEF JournalInv, CrashHost
<1>2. TypeOK'
  <2>1. LeaseTypeOK'
    BY <1>1 DEF LeaseInv
  <2> QED
    BY <2>1 DEF JournalInv, TypeOK, CrashHost, history
<1>3. ASSUME NEW p \in Process PROVE Local(p)'
  BY DEF CrashHost, PowerLoss, Local, AtRest, Idle
<1> QED
  BY <1>1, <1>2, <1>3 DEF JournalInv

----------------------------------------------------------------------------
(* Steps of the process that has the registry open *)

(* A request is accepted. *)
LEMMA AcceptInv ==
  ASSUME JournalInv, NEW p \in Process, Accept(p)
  PROVE  JournalInv'
<1>1. pc[p] = "open"
  BY DEF JournalInv, Local, AtRest, Idle, Accept
<1>2. Queued(p) /\ Copied(p) /\ Appending(p)
  BY <1>1 DEF JournalInv, Local
<1>3. TypeOK'
  BY <1>2, LenFacts, JournalAssumption DEF JournalInv, TypeOK, LeaseTypeOK, Accept, leaseVars, disk, history
<1>4. UNCHANGED <<file, pc, granted>> /\ Others(p)
  BY DEF JournalInv, TypeOK, Others, Accept, leaseVars, disk, history
<1>9. Queued(p)' /\ Copied(p)' /\ Appending(p)'
  BY <1>2 DEF JournalInv, TypeOK, Accept, Queued, Copied, Appending, disk
<1> QED
  BY <1>1, <1>3, <1>4, <1>9, OwnStep

(* The server stops accepting connections. *)
LEMMA DrainInv ==
  ASSUME JournalInv, NEW p \in Process, Drain(p)
  PROVE  JournalInv'
<1>1. pc[p] = "open"
  BY DEF JournalInv, Local, AtRest, Idle, Drain
<1>2. Queued(p) /\ Copied(p) /\ Appending(p)
  BY <1>1 DEF JournalInv, Local
<1>3. TypeOK'
  BY <1>2, LenFacts, JournalAssumption DEF JournalInv, TypeOK, LeaseTypeOK, Drain, leaseVars, disk, history
<1>4. UNCHANGED <<file, pc, granted>> /\ Others(p)
  BY DEF JournalInv, TypeOK, Others, Drain, leaseVars, disk, history
<1>9. Queued(p)' /\ Copied(p)' /\ Appending(p)'
  BY <1>2 DEF JournalInv, TypeOK, Drain, Queued, Copied, Appending, disk
<1> QED
  BY <1>1, <1>3, <1>4, <1>9, OwnStep

(* A stream queues a read: no replacement can be waiting yet. *)
LEMMA StreamReadInv ==
  ASSUME JournalInv, NEW p \in Process, StreamRead(p)
  PROVE  JournalInv'
<1>1. pc[p] = "open"
  BY DEF JournalInv, Local, AtRest, Idle, StreamRead
<1>2. Queued(p) /\ Copied(p) /\ Appending(p)
  BY <1>1 DEF JournalInv, Local
<1>3. TypeOK'
  BY <1>2, LenFacts, JournalAssumption DEF JournalInv, TypeOK, LeaseTypeOK, StreamRead, leaseVars, disk, history
<1>4. UNCHANGED <<file, pc, granted>> /\ Others(p)
  BY DEF JournalInv, TypeOK, Others, StreamRead, leaseVars, disk, history
<1>5. queue'[p] = Append(queue[p], "read") /\ entries[p] = Unread
  BY DEF JournalInv, TypeOK, StreamRead
<1>6. /\ UNCHANGED <<entries, reading, job, step, combined, journal>>
      /\ step[p] \in {"idle", "load"}
  BY <1>2, <1>5 DEF JournalInv, TypeOK, StreamRead, Appending, disk
<1>7. queue[p] \in Seq({"read", "load", "rewrite"})
  BY DEF JournalInv, TypeOK
<1>8. /\ Len(queue[p]) \in Nat /\ Len(queue'[p]) = Len(queue[p]) + 1
      /\ \A i \in 1..Len(queue[p]) : queue'[p][i] = queue[p][i]
      /\ queue'[p][Len(queue[p]) + 1] = "read"
  BY <1>5, <1>7, AppendFacts
<1>9. Queued(p)' /\ Copied(p)' /\ Appending(p)'
  BY <1>2, <1>5, <1>6, <1>8 DEF Queued, Copied, Appending
<1> QED
  BY <1>1, <1>3, <1>4, <1>9, OwnStep

(* A read starts: it finds the journal as it is. *)
LEMMA BeginReadInv ==
  ASSUME JournalInv, NEW p \in Process, BeginRead(p)
  PROVE  JournalInv'
<1>1. pc[p] = "open"
  BY DEF JournalInv, Local, AtRest, Idle, BeginRead, InLine
<1>2. Queued(p) /\ Copied(p) /\ Appending(p)
  BY <1>1 DEF JournalInv, Local
<1>3. TypeOK'
  BY <1>2, LenFacts, JournalAssumption DEF JournalInv, TypeOK, LeaseTypeOK, BeginRead, leaseVars, disk, history
<1>4. UNCHANGED <<file, pc, granted>> /\ Others(p)
  BY DEF JournalInv, TypeOK, Others, BeginRead, leaseVars, disk, history
<1>5. reading'[p] = journal /\ UNCHANGED <<entries, queue, job, step, combined, journal>>
  BY DEF JournalInv, TypeOK, BeginRead, disk
<1>6. Len(queue[p]) > 0 /\ queue[p][1] # "rewrite"
  BY TailFacts DEF JournalInv, TypeOK, BeginRead, InLine
<1>9. Queued(p)' /\ Copied(p)' /\ Appending(p)'
  BY <1>2, <1>5, <1>6 DEF Queued, Copied, Appending
<1> QED
  BY <1>1, <1>3, <1>4, <1>9, OwnStep

(* A command that is refused leaves no trace. *)
LEMMA RejectInv ==
  ASSUME JournalInv, NEW p \in Process, Reject(p)
  PROVE  JournalInv'
<1>1. pc[p] = "open"
  BY DEF JournalInv, Local, AtRest, Idle, Reject
<1>2. Queued(p) /\ Copied(p) /\ Appending(p)
  BY <1>1 DEF JournalInv, Local
<1>3. TypeOK'
  BY <1>2, LenFacts, JournalAssumption DEF JournalInv, TypeOK, LeaseTypeOK, Reject, leaseVars, disk, history, Finish
<1>4. UNCHANGED <<file, pc, granted>> /\ Others(p)
  BY DEF JournalInv, TypeOK, Others, Reject, leaseVars, disk, history, Finish
<1>5. /\ job'[p] = NoJob /\ step'[p] = "idle" /\ step[p] = "ready"
      /\ UNCHANGED <<entries, queue, reading, combined, journal>>
  BY DEF JournalInv, TypeOK, Reject, Finish, disk
<1>9. Queued(p)' /\ Copied(p)' /\ Appending(p)'
  BY <1>2, <1>5 DEF Queued, Copied, Appending
<1> QED
  BY <1>1, <1>3, <1>4, <1>9, OwnStep

(* What an append reports is a position in the journal it wrote. *)
LEMMA AcksFacts ==
  ASSUME NEW p \in Process, NEW s \in Seq(Entry), job[p] \in Entry
  PROVE  /\ Acks(p, s) \subseteq Nat \X Entry
         /\ \A a \in Acks(p, s) : a[1] \in Stored(s, a[2])
<1>1. Stored(s, job[p]) \subseteq Nat
  BY LenFacts DEF Stored
<1> QED
  BY <1>1 DEF Acks

(* A command that finds its event stored writes nothing. *)
LEMMA AlreadyStoredInv ==
  ASSUME JournalInv, NEW p \in Process, AlreadyStored(p)
  PROVE  JournalInv'
<1>1. pc[p] = "open"
  BY DEF JournalInv, Local, AtRest, Idle, AlreadyStored
<1>2. Queued(p) /\ Copied(p) /\ Appending(p)
  BY <1>1 DEF JournalInv, Local
<1>3. TypeOK'
  <2>1. entries[p] \in Seq(Entry) /\ job[p] \in Entry
    BY <1>2 DEF JournalInv, TypeOK, Appending, AlreadyStored
  <2>2. Acks(p, entries[p]) \subseteq Nat \X Entry
    BY <2>1, AcksFacts
  <2> QED
    BY <2>2, JournalAssumption DEF JournalInv, TypeOK, LeaseTypeOK, AlreadyStored, Finish, leaseVars, disk
<1>4. UNCHANGED <<file, pc, granted>> /\ Others(p)
  BY DEF JournalInv, TypeOK, Others, AlreadyStored, leaseVars, disk, history, Finish, Acks, Stored
<1>5. /\ job'[p] = NoJob /\ step'[p] = "idle" /\ step[p] = "ready"
      /\ UNCHANGED <<entries, queue, reading, combined, journal>>
  BY DEF JournalInv, TypeOK, AlreadyStored, Finish, disk
<1>9. Queued(p)' /\ Copied(p)' /\ Appending(p)'
  BY <1>2, <1>5 DEF Queued, Copied, Appending
<1> QED
  BY <1>1, <1>3, <1>4, <1>9, OwnStep

(* A command begins: no other is under way. *)
LEMMA BeginAppendInv ==
  ASSUME JournalInv, NEW p \in Process, BeginAppend(p)
  PROVE  JournalInv'
<1>1. pc[p] = "open"
  BY DEF JournalInv, Local, AtRest, Idle, BeginAppend
<1>2. Queued(p) /\ Copied(p) /\ Appending(p)
  BY <1>1 DEF JournalInv, Local
<1>q. Append(queue[p], "load") \in Seq({"read", "load", "rewrite"})
  BY AppendFacts DEF JournalInv, TypeOK
<1>3. TypeOK'
  <2>1. PICK e \in waiting[p] : /\ job' = [job EXCEPT ![p] = e]
                               /\ waiting' = [waiting EXCEPT ![p] = waiting[p] \ {e}]
    BY DEF BeginAppend
  <2>2. e \in Entry
    BY DEF JournalInv, TypeOK
  <2>3. job' \in [Process -> Entry \cup {NoJob}] /\ waiting' \in [Process -> SUBSET Entry]
    BY <2>1, <2>2 DEF JournalInv, TypeOK
  <2>4. /\ queue' \in [Process -> Seq({"read", "load", "rewrite"})]
        /\ step' \in [Process -> {"idle", "load", "ready", "rewrite", "sync"}]
    <3>1. \/ queue' = [queue EXCEPT ![p] = Append(queue[p], "load")] /\ step' = [step EXCEPT ![p] = "load"]
          \/ queue' = queue /\ step' = [step EXCEPT ![p] = "ready"]
      BY DEF BeginAppend
    <3>2. /\ queue \in [Process -> Seq({"read", "load", "rewrite"})]
          /\ step \in [Process -> {"idle", "load", "ready", "rewrite", "sync"}]
      BY DEF JournalInv, TypeOK
    <3> QED
      BY <1>q, <3>1, <3>2
  <2> QED
    BY <2>3, <2>4 DEF JournalInv, TypeOK, LeaseTypeOK, BeginAppend, leaseVars, disk, history
<1>4. UNCHANGED <<file, pc, granted>> /\ Others(p)
  BY DEF JournalInv, TypeOK, Others, BeginAppend, leaseVars
<1>5. job[p] = NoJob /\ step[p] = "idle" /\ queue[p] \in Seq({"read", "load", "rewrite"})
  BY <1>2 DEF JournalInv, TypeOK, BeginAppend, Appending
<1>6. job'[p] # NoJob /\ UNCHANGED <<entries, reading, combined, journal>>
  BY JournalAssumption DEF JournalInv, TypeOK, BeginAppend, disk
<1>9. Queued(p)' /\ Copied(p)' /\ Appending(p)'
  <2>7. CASE entries[p] = Unread
    <3>1. queue'[p] = Append(queue[p], "load") /\ step'[p] = "load"
      BY <2>7 DEF JournalInv, TypeOK, BeginAppend
    <3>2. /\ Len(queue[p]) \in Nat /\ Len(queue'[p]) = Len(queue[p]) + 1
          /\ \A i \in 1..Len(queue[p]) : queue'[p][i] = queue[p][i]
          /\ queue'[p][Len(queue[p]) + 1] = "load"
      BY <1>5, <3>1, AppendFacts
    <3> QED
      BY <1>2, <1>5, <1>6, <2>7, <3>1, <3>2 DEF Queued, Copied, Appending
  <2>8. CASE entries[p] # Unread
    <3>1. queue'[p] = queue[p] /\ step'[p] = "ready"
      BY <2>8 DEF JournalInv, TypeOK, BeginAppend
    <3> QED
      BY <1>2, <1>5, <1>6, <2>8, <3>1 DEF Queued, Copied, Appending
  <2> QED
    BY <2>7, <2>8
<1> QED
  BY <1>1, <1>3, <1>4, <1>9, OwnStep

(* A read ends with the journal as it still is. *)
LEMMA EndReadInv ==
  ASSUME JournalInv, NEW p \in Process, EndRead(p)
  PROVE  JournalInv'
<1>1. pc[p] = "open"
  BY DEF JournalInv, Local, AtRest, Idle, EndRead
<1>2. Queued(p) /\ Copied(p) /\ Appending(p)
  BY <1>1 DEF JournalInv, Local
<1>q. queue[p] # <<>> /\ queue[p] \in Seq({"read", "load", "rewrite"})
  BY <1>2 DEF JournalInv, TypeOK, Copied, EndRead
<1>3. TypeOK'
  BY <1>q, TailFacts, JournalAssumption DEF JournalInv, TypeOK, LeaseTypeOK, EndRead, leaseVars, disk, history
<1>4. UNCHANGED <<file, pc, granted>> /\ Others(p)
  BY DEF JournalInv, TypeOK, Others, EndRead, leaseVars
<1>5. /\ queue'[p] = Tail(queue[p]) /\ queue[p] # <<>> /\ reading'[p] = Unread
      /\ step'[p] = (IF Head(queue[p]) = "load" THEN "ready" ELSE step[p])
      /\ entries'[p] = reading[p] /\ UNCHANGED <<job, combined, journal>>
  BY <1>q DEF JournalInv, TypeOK, EndRead, disk
<1>6. /\ Len(queue[p]) \in Nat /\ Len(queue[p]) > 0 /\ Len(queue'[p]) = Len(queue[p]) - 1
      /\ \A i \in 1..Len(queue'[p]) : queue'[p][i] = queue[p][i + 1] /\ i + 1 \in 1..Len(queue[p])
      /\ Head(queue[p]) = queue[p][1] /\ queue[p][1] \in {"read", "load", "rewrite"}
  BY <1>5, TailFacts DEF JournalInv, TypeOK
<1>7. queue[p][1] # "rewrite" /\ entries'[p] = journal /\ entries'[p] # Unread
  BY <1>2, <1>5 DEF Copied, EndRead
<1>8. Prefix(journal, journal)
  BY PrefixFacts DEF JournalInv, TypeOK
<1>10. step[p] \in {"ready", "rewrite", "sync"} => entries[p] = journal
  BY <1>2, <1>6, <1>7 DEF Copied, Appending
<1>11. queue[p][1] = "load" => step[p] = "load"
  BY <1>2, <1>6 DEF Queued
<1>12. Queued(p)'
  BY <1>2, <1>5, <1>6, <1>7, <1>11 DEF Queued
<1>13. Copied(p)'
  BY <1>5, <1>7, <1>8 DEF Copied
<1>14. Appending(p)'
  BY <1>2, <1>5, <1>6, <1>7, <1>10, <1>11 DEF Appending
<1>9. Queued(p)' /\ Copied(p)' /\ Appending(p)'
  BY <1>12, <1>13, <1>14
<1> QED
  BY <1>1, <1>3, <1>4, <1>9, OwnStep

(* A command adds its event to the copy and queues the replacement. *)
LEMMA CombineInv ==
  ASSUME JournalInv, NEW p \in Process, Combine(p)
  PROVE  JournalInv'
<1>1. pc[p] = "open"
  BY DEF JournalInv, Local, AtRest, Idle, Combine
<1>2. Queued(p) /\ Copied(p) /\ Appending(p)
  BY <1>1 DEF JournalInv, Local
<1>e. entries[p] \in Seq(Entry) /\ job[p] \in Entry /\ queue[p] \in Seq({"read", "load", "rewrite"})
  BY <1>2 DEF JournalInv, TypeOK, Appending, Combine
<1>3. TypeOK'
  BY <1>e, AppendFacts, JournalAssumption DEF JournalInv, TypeOK, LeaseTypeOK, Combine, leaseVars, disk, history
<1>4. UNCHANGED <<file, pc, granted>> /\ Others(p)
  BY DEF JournalInv, TypeOK, Others, Combine, leaseVars
<1>5. /\ queue'[p] = Append(queue[p], "rewrite") /\ step'[p] = "rewrite" /\ step[p] = "ready"
      /\ combined'[p] = Append(entries[p], job[p]) /\ UNCHANGED <<entries, reading, job, journal>>
  BY DEF JournalInv, TypeOK, Combine, disk
<1>6. /\ Len(queue[p]) \in Nat /\ Len(queue'[p]) = Len(queue[p]) + 1
      /\ \A i \in 1..Len(queue[p]) : queue'[p][i] = queue[p][i]
      /\ queue'[p][Len(queue[p]) + 1] = "rewrite"
  BY <1>e, <1>5, AppendFacts
<1>9. Queued(p)' /\ Copied(p)' /\ Appending(p)'
  BY <1>2, <1>5, <1>6 DEF Queued, Copied, Appending
<1> QED
  BY <1>1, <1>3, <1>4, <1>9, OwnStep

(* The replacement takes its turn: it is the last operation. *)
LEMMA RunRewriteInv ==
  ASSUME JournalInv, NEW p \in Process, RunRewrite(p)
  PROVE  JournalInv'
<1>1. pc[p] = "open"
  BY DEF JournalInv, Local, AtRest, Idle, RunRewrite, InLine
<1>2. Queued(p) /\ Copied(p) /\ Appending(p)
  BY <1>1 DEF JournalInv, Local
<1>q. queue[p] # <<>> /\ queue[p] \in Seq({"read", "load", "rewrite"}) /\ combined[p] \in Seq(Entry)
  BY DEF JournalInv, TypeOK, RunRewrite, InLine
<1>3. TypeOK'
  BY <1>q, TailFacts, JournalAssumption DEF JournalInv, TypeOK, LeaseTypeOK, RunRewrite, leaseVars, history
<1>4. UNCHANGED <<file, pc, granted>> /\ Others(p)
  BY DEF JournalInv, TypeOK, Others, RunRewrite, leaseVars
<1>5. /\ queue'[p] = Tail(queue[p]) /\ queue[p] # <<>> /\ step'[p] = "sync" /\ Head(queue[p]) = "rewrite"
      /\ journal' = combined[p] /\ UNCHANGED <<entries, reading, job, combined>>
  BY DEF JournalInv, TypeOK, RunRewrite, InLine
<1>6. /\ Len(queue[p]) \in Nat /\ Len(queue[p]) > 0 /\ Len(queue'[p]) = Len(queue[p]) - 1
      /\ \A i \in 1..Len(queue'[p]) : queue'[p][i] = queue[p][i + 1] /\ i + 1 \in 1..Len(queue[p])
      /\ Head(queue[p]) = queue[p][1] /\ queue[p][1] \in {"read", "load", "rewrite"}
  BY <1>5, TailFacts DEF JournalInv, TypeOK
<1>7. Len(queue[p]) = 1 /\ step[p] = "rewrite"
  <2>1. 1 \in 1..Len(queue[p]) /\ queue[p][1] = "rewrite"
    BY <1>5, <1>6
  <2> QED
    BY <1>2, <2>1 DEF Queued
<1>9. Queued(p)' /\ Copied(p)' /\ Appending(p)'
  BY <1>2, <1>5, <1>6, <1>7 DEF Queued, Copied, Appending
<1> QED
  BY <1>1, <1>3, <1>4, <1>9, OwnStep

(* The replacement is durable: the copy in memory is the journal. *)
LEMMA SyncDirectoryInv ==
  ASSUME JournalInv, NEW p \in Process, SyncDirectory(p)
  PROVE  JournalInv'
<1>1. pc[p] = "open"
  BY DEF JournalInv, Local, AtRest, Idle, SyncDirectory
<1>2. Queued(p) /\ Copied(p) /\ Appending(p)
  BY <1>1 DEF JournalInv, Local
<1>e. combined[p] \in Seq(Entry) /\ job[p] \in Entry /\ journal = combined[p]
  BY <1>2 DEF JournalInv, TypeOK, Appending, SyncDirectory
<1>f. Acks(p, combined[p]) \subseteq Nat \X Entry
  BY <1>e, AcksFacts
<1>3. TypeOK'
  BY <1>e, <1>f, JournalAssumption DEF JournalInv, TypeOK, LeaseTypeOK, SyncDirectory, Finish, leaseVars
<1>4. UNCHANGED <<file, pc, granted>> /\ Others(p)
  BY DEF JournalInv, TypeOK, Others, SyncDirectory, leaseVars, Finish
<1>5. /\ entries'[p] = combined[p] /\ job'[p] = NoJob /\ step'[p] = "idle" /\ step[p] = "sync"
      /\ UNCHANGED <<queue, reading, combined, journal>>
  BY DEF JournalInv, TypeOK, SyncDirectory, Finish
<1>6. Prefix(journal, journal) /\ Len(queue[p]) = 0
  BY <1>2, <1>5, PrefixFacts DEF JournalInv, TypeOK, Queued
<1>9. Queued(p)' /\ Copied(p)' /\ Appending(p)'
  BY <1>2, <1>e, <1>5, <1>6 DEF Queued, Copied, Appending
<1> QED
  BY <1>1, <1>3, <1>4, <1>9, OwnStep

(* A failed append leaves a copy that is a prefix of the journal. *)
LEMMA AppendFailsInv ==
  ASSUME JournalInv, NEW p \in Process, AppendFails(p)
  PROVE  JournalInv'
<1>1. pc[p] = "open"
  BY DEF JournalInv, Local, AtRest, Idle, AppendFails, InLine
<1>2. Queued(p) /\ Copied(p) /\ Appending(p)
  BY <1>1 DEF JournalInv, Local
<1>3. /\ UNCHANGED <<file, pc, granted, entries, combined, journal, survivors, waiting, draining, accepted, acked, written>>
      /\ job' = [job EXCEPT ![p] = NoJob] /\ step' = [step EXCEPT ![p] = "idle"]
      /\ faults' \in 0..MaxFaults
  BY LeaseAssumption DEF JournalInv, TypeOK, LeaseTypeOK, AppendFails, Finish, Fault, disk, history
<1>4. job'[p] = NoJob /\ step'[p] = "idle"
  BY <1>3 DEF JournalInv, TypeOK
<1>5. CASE step[p] = "sync" /\ UNCHANGED <<queue, reading>>
  <2>1. TypeOK' /\ Others(p)
    BY <1>3, <1>5, JournalAssumption DEF JournalInv, TypeOK, LeaseTypeOK, Others
  <2>2. Prefix(entries[p], journal)
    BY <1>2, <1>5, PrefixFacts DEF JournalInv, TypeOK, Appending
  <2>3. Queued(p)' /\ Copied(p)' /\ Appending(p)'
    BY <1>2, <1>3, <1>4, <1>5, <2>2 DEF Queued, Copied, Appending
  <2> QED
    BY <1>1, <1>3, <2>1, <2>3, OwnStep
<1>6. CASE /\ InLine(p, {"load", "rewrite"})
           /\ queue' = [queue EXCEPT ![p] = Tail(queue[p])]
           /\ reading' = [reading EXCEPT ![p] = Unread]
  <2>1. queue[p] # <<>> /\ queue[p] \in Seq({"read", "load", "rewrite"}) /\ Head(queue[p]) \in {"load", "rewrite"}
    BY <1>6 DEF JournalInv, TypeOK, InLine
  <2>2. TypeOK' /\ Others(p)
    BY <1>3, <1>6, <2>1, TailFacts, JournalAssumption DEF JournalInv, TypeOK, LeaseTypeOK, Others
  <2>3. queue'[p] = Tail(queue[p]) /\ reading'[p] = Unread
    BY <1>6 DEF JournalInv, TypeOK
  <2>4. /\ Len(queue[p]) \in Nat /\ Len(queue[p]) > 0 /\ Len(queue'[p]) = Len(queue[p]) - 1
        /\ \A i \in 1..Len(queue'[p]) : queue'[p][i] = queue[p][i + 1] /\ i + 1 \in 1..Len(queue[p])
        /\ Head(queue[p]) = queue[p][1]
    BY <2>1, <2>3, TailFacts
  <2>5. step[p] \in {"load", "rewrite"}
    BY <1>2, <2>1, <2>4 DEF Queued
  <2>6. \A i \in 1..Len(queue'[p]) : queue'[p][i] # "load" /\ queue'[p][i] # "rewrite"
    BY <1>2, <2>1, <2>4, <2>5 DEF Queued
  <2>7. Queued(p)' /\ Copied(p)' /\ Appending(p)'
    BY <1>2, <1>3, <1>4, <2>3, <2>4, <2>5, <2>6 DEF Queued, Copied, Appending
  <2> QED
    BY <1>1, <1>3, <2>2, <2>7, OwnStep
<1> QED
  BY <1>5, <1>6 DEF AppendFails

(* A failed read changes nothing in memory. *)
LEMMA StreamFailsInv ==
  ASSUME JournalInv, NEW p \in Process, StreamFails(p)
  PROVE  JournalInv'
<1>1. pc[p] = "open"
  BY DEF JournalInv, Local, AtRest, Idle, StreamFails, InLine
<1>2. Queued(p) /\ Copied(p) /\ Appending(p)
  BY <1>1 DEF JournalInv, Local
<1>q. /\ queue[p] # <<>> /\ queue[p] \in Seq({"read", "load", "rewrite"}) /\ Head(queue[p]) = "read"
      /\ faults' \in 0..MaxFaults
  BY LeaseAssumption DEF JournalInv, TypeOK, LeaseTypeOK, StreamFails, InLine, Fault
<1>3. TypeOK'
  BY <1>q, TailFacts, JournalAssumption DEF JournalInv, TypeOK, LeaseTypeOK, StreamFails, disk, history
<1>4. UNCHANGED <<file, pc, granted>> /\ Others(p)
  BY DEF JournalInv, TypeOK, Others, StreamFails, leaseVars
<1>5. /\ queue'[p] = Tail(queue[p]) /\ queue[p] # <<>> /\ reading'[p] = Unread
      /\ UNCHANGED <<entries, job, step, combined, journal>>
  BY <1>q DEF JournalInv, TypeOK, StreamFails, disk
<1>6. /\ Len(queue[p]) \in Nat /\ Len(queue[p]) > 0 /\ Len(queue'[p]) = Len(queue[p]) - 1
      /\ \A i \in 1..Len(queue'[p]) : queue'[p][i] = queue[p][i + 1] /\ i + 1 \in 1..Len(queue[p])
      /\ Head(queue[p]) = queue[p][1] /\ queue[p][1] \in {"read", "load", "rewrite"}
  BY <1>5, TailFacts DEF JournalInv, TypeOK
<1>7. Queued(p)'
  BY <1>q, <1>2, <1>5, <1>6 DEF Queued
<1>8. Copied(p)' /\ Appending(p)'
  BY <1>2, <1>5, <1>6 DEF Copied, Appending
<1>9. Queued(p)' /\ Copied(p)' /\ Appending(p)'
  BY <1>7, <1>8
<1> QED
  BY <1>1, <1>3, <1>4, <1>9, OwnStep

(* A step that changes nothing. *)
LEMMA StillInv == ASSUME JournalInv, UNCHANGED vars PROVE JournalInv'
<1>1. LeaseInv' /\ TypeOK'
  BY LeaseUnmoved DEF JournalInv, TypeOK, LeaseTypeOK, vars, leaseVars, disk, writer, history
<1> QED
  BY <1>1 DEF vars, leaseVars, disk, writer, JournalInv, Local, AtRest, Idle, Queued, Copied, Appending

(* Every step keeps the invariant. *)
LEMMA JournalStep ==
  ASSUME JournalInv, ~ForcedClose, [Next]_vars
  PROVE  JournalInv'
<1>1. CASE UNCHANGED vars
  BY <1>1, StillInv
<1>2. CASE CrashHost
  BY <1>2, HostInv
<1>3. ASSUME NEW p \in Process,
             \/ Acquire(p) \/ Drain(p) \/ CloseRegistry(p) \/ ExitProcess(p) \/ CrashProcess(p)
             \/ Accept(p) \/ StreamRead(p) \/ Serve(p) \/ AppendFails(p) \/ StreamFails(p)
      PROVE  JournalInv'
  BY <1>3, AcquireInv, DrainInv, CloseInv, EndsInv, AcceptInv, StreamReadInv, BeginAppendInv, BeginReadInv,
     EndReadInv, AlreadyStoredInv, CombineInv, RunRewriteInv, SyncDirectoryInv, RejectInv, AppendFailsInv,
     StreamFailsInv DEF Serve
<1> QED
  BY <1>1, <1>2, <1>3 DEF Next

(* The inductive invariant, when a shutdown waits for its connections. *)
THEOREM JournalInvariant == ~ForcedClose => (Spec => []JournalInv)
<1> SUFFICES ASSUME ~ForcedClose PROVE Spec => []JournalInv
  OBVIOUS
<1>1. JournalInv /\ [Next]_vars => JournalInv'
  BY JournalStep
<1> QED
  BY JournalInit, <1>1, PTL DEF Spec

(***************************************************************************)
(* The journal, the copies in memory, the queues and the flags keep their  *)
(* types (DurableJournalStore, FoldJournal).                               *)
(***************************************************************************)
THEOREM TypesHold == ~ForcedClose => (Spec => []TypeOK)
<1> SUFFICES ASSUME ~ForcedClose PROVE Spec => []TypeOK
  OBVIOUS
<1>1. JournalInv => TypeOK
  BY DEF JournalInv
<1> QED
  BY JournalInvariant, <1>1, PTL

----------------------------------------------------------------------------
(***************************************************************************)
(* Nothing that was reported is lost.  Both results have the same shape:   *)
(* the reports are in the journal (in everything that may survive a power  *)
(* loss) and in the copy from which the next replacement is made.          *)
(***************************************************************************)

Holds(s, reports) == \A a \in reports : a[1] \in Stored(s, a[2])

InCopies(reports) ==
  \A p \in Process : pc[p] = "open" /\ entries[p] # Unread => Holds(entries[p], reports)

AckedInv == Holds(journal, acked) /\ InCopies(acked)

UntilLost == lost \/ AckedInv

WrittenInv ==
  /\ Holds(journal, written) /\ InCopies(written)
  /\ \A s \in survivors : Holds(s, written)

(* A longer journal still holds what a shorter one did. *)
LEMMA HoldsLonger ==
  ASSUME NEW s \in Seq(Entry), NEW t \in Seq(Entry), Prefix(s, t), NEW reports, Holds(s, reports)
  PROVE  Holds(t, reports)
<1>1. Len(s) \in Nat /\ Len(t) \in Nat
  BY LenFacts
<1> QED
  BY <1>1 DEF Holds, Stored, Prefix

(* Steps that neither write nor report. *)
Quiet(p) ==
  \/ Acquire(p) \/ Drain(p) \/ CloseRegistry(p) \/ ExitProcess(p) \/ CrashProcess(p)
  \/ Accept(p) \/ StreamRead(p) \/ BeginAppend(p) \/ BeginRead(p) \/ EndRead(p)
  \/ Combine(p) \/ Reject(p) \/ AppendFails(p) \/ StreamFails(p)

(* They leave the copies as they are, or make one that is the journal. *)
CopiesKept ==
  \A q \in Process :
    pc'[q] = "open" /\ entries'[q] # Unread => entries'[q] = journal \/ (pc[q] = "open" /\ entries'[q] = entries[q])

(* What the steps that neither write nor report do to the copies. *)
LEMMA QuietStep ==
  ASSUME JournalInv, NEW p \in Process, Quiet(p)
  PROVE  UNCHANGED <<disk, history>> /\ CopiesKept
<1>1. CASE Acquire(p)
  <2>1. PICK label :
          /\ pc' = [pc EXCEPT ![p] = label]
          /\ pc[p] \in Holding \cup {"closed"} => label \in {"closing", "release", "closed"}
    BY <1>1, AcquireMoves
  <2>2. pc[p] \notin Holding \cup {"closed"} => entries[p] = Unread
    BY DEF JournalInv, Local
  <2>3. UNCHANGED <<disk, history, entries>> /\ pc'[p] = label /\ \A q \in Process \ {p} : pc'[q] = pc[q]
    BY <1>1, <2>1 DEF JournalInv, TypeOK, LeaseTypeOK, Acquire, writer
  <2> QED
    BY <2>1, <2>2, <2>3 DEF CopiesKept
<1>2. CASE ExitProcess(p) \/ CrashProcess(p)
  BY <1>2 DEF JournalInv, TypeOK, LeaseTypeOK, ExitProcess, CrashProcess, Exit, Crash, Leave, Goto, Forget, CopiesKept
<1>3. CASE CloseRegistry(p)
  BY <1>3 DEF JournalInv, TypeOK, LeaseTypeOK, CloseRegistry, Close, Goto, CopiesKept, writer
<1>4. CASE EndRead(p)
  <2>1. reading[p] = journal
    <3>1. pc[p] = "open"
      BY <1>4 DEF JournalInv, Local, AtRest, EndRead
    <3> QED
      BY <1>4, <3>1 DEF JournalInv, Local, Copied, EndRead
  <2> QED
    BY <1>4, <2>1 DEF JournalInv, TypeOK, EndRead, CopiesKept, leaseVars
<1>5. CASE \/ Drain(p) \/ Accept(p) \/ StreamRead(p) \/ BeginAppend(p) \/ BeginRead(p)
           \/ Combine(p) \/ Reject(p) \/ AppendFails(p) \/ StreamFails(p)
  <2>1. UNCHANGED <<pc, entries, disk, history>>
    BY <1>5 DEF Drain, Accept, StreamRead, BeginAppend, BeginRead, Combine, Reject, AppendFails, StreamFails, leaseVars
  <2> QED
    BY <2>1 DEF CopiesKept
<1> QED
  BY <1>1, <1>2, <1>3, <1>4, <1>5 DEF Quiet

(* What is known of an append at each of its steps. *)
LEMMA AtAppend ==
  ASSUME JournalInv, NEW p \in Process, step[p] \in {"ready", "rewrite", "sync"}
  PROVE  /\ pc[p] = "open" /\ \A q \in Process : pc[q] = "open" => q = p
         /\ entries[p] \in Seq(Entry) /\ entries[p] # Unread /\ job[p] \in Entry
         /\ journal \in Seq(Entry) /\ combined[p] \in Seq(Entry)
         /\ step[p] = "ready" => Prefix(entries[p], journal)
         /\ step[p] # "ready" => combined[p] = Append(entries[p], job[p]) /\ Prefix(entries[p], combined[p])
         /\ step[p] = "sync" => journal = combined[p]
<1>1. pc[p] = "open"
  BY DEF JournalInv, Local, AtRest
<1>2. \A q \in Process : pc[q] = "open" => q = p
  BY <1>1, OneOpen DEF JournalInv
<1>3. Copied(p) /\ Appending(p)
  BY <1>1 DEF JournalInv, Local
<1>4. entries[p] \in Seq(Entry) /\ entries[p] # Unread /\ job[p] \in Entry
  BY <1>3 DEF JournalInv, TypeOK, Appending
<1>5. journal \in Seq(Entry) /\ combined[p] \in Seq(Entry)
  BY DEF JournalInv, TypeOK
<1>6. step[p] = "ready" => Prefix(entries[p], journal)
  BY <1>3, <1>4 DEF Copied
<1>7. step[p] # "ready" => combined[p] = Append(entries[p], job[p]) /\ Prefix(entries[p], combined[p])
  BY <1>3, <1>4, PrefixFacts DEF Appending
<1> QED
  BY <1>1, <1>2, <1>3, <1>4, <1>5, <1>6, <1>7 DEF Appending

(* A replacement is the turn of a process that is about to make it. *)
LEMMA AtRewrite == ASSUME JournalInv, NEW p \in Process, RunRewrite(p) PROVE step[p] = "rewrite"
<1>1. queue[p] # <<>> /\ Head(queue[p]) = "rewrite"
  BY DEF RunRewrite, InLine
<1>2. 1 \in 1..Len(queue[p]) /\ queue[p][1] = "rewrite"
  BY <1>1, TailFacts DEF JournalInv, TypeOK
<1>3. pc[p] = "open"
  BY <1>1 DEF JournalInv, Local, AtRest, Idle
<1> QED
  BY <1>2, <1>3 DEF JournalInv, Local, Queued

(* Every step but a power loss keeps the acknowledged entries. *)
LEMMA AckedStep ==
  ASSUME JournalInv, AckedInv, ~CrashHost, [Next]_vars
  PROVE  AckedInv'
<1>1. CASE \E p \in Process : Quiet(p)
  <2>1. UNCHANGED <<journal, acked>> /\ CopiesKept
    BY <1>1, QuietStep DEF disk, history
  <2> QED
    BY <2>1 DEF AckedInv, InCopies, CopiesKept, Holds
<1>2. ASSUME NEW p \in Process, AlreadyStored(p) PROVE AckedInv'
  <2>1. step[p] = "ready" /\ acked' = acked \cup Acks(p, entries[p]) /\ UNCHANGED <<journal, entries, pc>>
    BY <1>2 DEF AlreadyStored, disk, leaseVars
  <2>2. Holds(entries[p], acked')
    BY <2>1, AtAppend, AcksFacts DEF AckedInv, InCopies, Holds
  <2>3. Holds(journal, acked')
    BY <2>1, <2>2, AtAppend, HoldsLonger
  <2> QED
    BY <2>1, <2>2, <2>3, AtAppend DEF AckedInv, InCopies, Holds
<1>3. ASSUME NEW p \in Process, RunRewrite(p) PROVE AckedInv'
  <2>1. step[p] = "rewrite" /\ journal' = combined[p] /\ UNCHANGED <<acked, entries, pc>>
    BY <1>3, AtRewrite DEF RunRewrite, leaseVars, history
  <2>2. Holds(combined[p], acked)
    BY <2>1, AtAppend, HoldsLonger DEF AckedInv, InCopies
  <2> QED
    BY <2>1, <2>2 DEF AckedInv, InCopies, Holds
<1>4. ASSUME NEW p \in Process, SyncDirectory(p) PROVE AckedInv'
  <2>1. /\ step[p] = "sync" /\ acked' = acked \cup Acks(p, combined[p]) /\ UNCHANGED <<journal, pc>>
        /\ entries'[p] = combined[p]
    BY <1>4 DEF JournalInv, TypeOK, SyncDirectory, leaseVars
  <2>2. Holds(journal, acked')
    BY <2>1, AtAppend, AcksFacts DEF AckedInv, Holds
  <2> QED
    BY <2>1, <2>2, AtAppend DEF AckedInv, InCopies, Holds
<1>5. CASE UNCHANGED vars
  BY <1>5 DEF vars, leaseVars, disk, writer, history, AckedInv, InCopies, Holds
<1> QED
  BY <1>1, <1>2, <1>3, <1>4, <1>5 DEF Next, Serve, Quiet

(* The host has lost power once it has. *)
LEMMA LostStep == ASSUME JournalInv, [Next]_vars PROVE (CrashHost => lost') /\ (lost => lost')
<1>1. CrashHost => lost'
  BY DEF CrashHost
<1>2. ASSUME NEW p \in Process, Quiet(p) PROVE lost' = lost
  BY <1>2, QuietStep DEF history
<1>3. ASSUME NEW p \in Process, AlreadyStored(p) \/ RunRewrite(p) \/ SyncDirectory(p) PROVE lost' = lost
  BY <1>3 DEF AlreadyStored, RunRewrite, SyncDirectory, history
<1>4. UNCHANGED vars => lost' = lost
  BY DEF vars, history
<1> QED
  BY <1>1, <1>2, <1>3, <1>4 DEF Next, Serve, Quiet

(***************************************************************************)
(* Until the host loses power, what a client was told is stored stays in   *)
(* the journal at its ordinal, while processes are started, stopped in     *)
(* order or killed, and reads and writes fail: no replacement is ever made *)
(* from a copy that lacks it.                                              *)
(***************************************************************************)
THEOREM AckedStaysHolds == ~ForcedClose => (Spec => []AckedStays)
<1> SUFFICES ASSUME ~ForcedClose PROVE Spec => []AckedStays
  OBVIOUS
<1>1. Init => UntilLost
  BY DEF Init, LeaseInit, UntilLost, AckedInv, InCopies, Holds
<1>2. JournalInv /\ UntilLost /\ [Next]_vars => UntilLost'
  BY AckedStep, LostStep DEF UntilLost
<1>3. UntilLost => AckedStays
  BY DEF UntilLost, AckedInv, AckedStays, Holds
<1>4. Spec => []JournalInv
  BY JournalInvariant
<1> QED
  BY <1>1, <1>2, <1>3, <1>4, PTL DEF Spec

(* Every step keeps the written entries in all that may survive. *)
LEMMA WrittenStep ==
  ASSUME JournalInv, WrittenInv, [Next]_vars
  PROVE  WrittenInv'
<1>1. CASE \E p \in Process : Quiet(p)
  <2>1. UNCHANGED <<journal, survivors, written>> /\ CopiesKept
    BY <1>1, QuietStep DEF disk, history
  <2> QED
    BY <2>1 DEF WrittenInv, InCopies, CopiesKept, Holds
<1>2. ASSUME NEW p \in Process, AlreadyStored(p) PROVE WrittenInv'
  BY <1>2 DEF AlreadyStored, disk, leaseVars, WrittenInv, InCopies, Holds
<1>3. ASSUME NEW p \in Process, RunRewrite(p) PROVE WrittenInv'
  <2>1. /\ step[p] = "rewrite" /\ journal' = combined[p] /\ survivors' = survivors \cup {combined[p]}
        /\ UNCHANGED <<written, entries, pc>>
    BY <1>3, AtRewrite DEF RunRewrite, leaseVars, history
  <2>2. Holds(combined[p], written)
    BY <2>1, AtAppend, HoldsLonger DEF WrittenInv, InCopies
  <2> QED
    BY <2>1, <2>2 DEF WrittenInv, InCopies, Holds
<1>4. ASSUME NEW p \in Process, SyncDirectory(p) PROVE WrittenInv'
  <2>1. /\ step[p] = "sync" /\ written' = written \cup Acks(p, combined[p]) /\ UNCHANGED <<journal, pc>>
        /\ entries'[p] = combined[p] /\ survivors' = {journal}
    BY <1>4 DEF JournalInv, TypeOK, SyncDirectory, leaseVars
  <2>2. Holds(journal, written')
    BY <2>1, AtAppend, AcksFacts DEF WrittenInv, Holds
  <2> QED
    BY <2>1, <2>2, AtAppend DEF WrittenInv, InCopies, Holds
<1>5. CASE CrashHost
  <2>1. /\ journal' \in survivors /\ survivors' = {journal'} /\ UNCHANGED written
        /\ \A p \in Process : pc'[p] = "down"
    BY <1>5 DEF CrashHost, PowerLoss, history
  <2> QED
    BY <2>1 DEF WrittenInv, InCopies, Holds
<1>6. CASE UNCHANGED vars
  BY <1>6 DEF vars, leaseVars, disk, writer, history, WrittenInv, InCopies, Holds
<1> QED
  BY <1>1, <1>2, <1>3, <1>4, <1>5, <1>6 DEF Next, Serve, Quiet

(***************************************************************************)
(* What a client was told after a write of its own is found again after a  *)
(* power loss at any later moment: the reply waits for the sync of the     *)
(* directory (DurableJournalStore.appendMany), and every later replacement *)
(* is made from a copy that holds it.                                      *)
(***************************************************************************)
THEOREM WrittenSurvivesHolds == ~ForcedClose => (Spec => []WrittenSurvives)
<1> SUFFICES ASSUME ~ForcedClose PROVE Spec => []WrittenSurvives
  OBVIOUS
<1>1. Init => WrittenInv
  BY DEF Init, LeaseInit, WrittenInv, InCopies, Holds
<1>2. JournalInv /\ WrittenInv /\ [Next]_vars => WrittenInv'
  BY WrittenStep
<1>3. WrittenInv => WrittenSurvives
  BY DEF WrittenInv, WrittenSurvives, Holds
<1>4. Spec => []JournalInv
  BY JournalInvariant
<1> QED
  BY <1>1, <1>2, <1>3, <1>4, PTL DEF Spec

(***************************************************************************)
(* With shutdowns that wait for their connections, what is reported as     *)
(* stored is kept, for any processes, entries, requests and failures.      *)
(***************************************************************************)
THEOREM JournalKeptHolds == ~ForcedClose => (Spec => []JournalKept)
<1>1. ~ForcedClose => (Spec => []AckedStays /\ []WrittenSurvives)
  BY AckedStaysHolds, WrittenSurvivesHolds
<1>2. AckedStays /\ WrittenSurvives => JournalKept
  BY DEF JournalKept
<1> QED
  BY <1>1, <1>2, PTL
============================================================================
