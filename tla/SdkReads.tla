------------------------------ MODULE SdkReads ------------------------------
(***************************************************************************)
(* The read caches of the Fold SDK over a PostgreSQL store. Every API      *)
(* process has one SDK for the workspace, which runs its operations one    *)
(* after another; other processes append in between the reads of one       *)
(* operation. A read of the store is a prefix of the log under its length  *)
(* as revision (SnapshotReads). The SDK keeps the last snapshot, memory    *)
(* projections and trajectory states per access context, each under the    *)
(* revision it believes it belongs to, and shares memory projections with  *)
(* other processes through checkpoints in the database. What a projection  *)
(* computes is abstracted to the events it replayed, in their order.       *)
(***************************************************************************)
EXTENDS Naturals, Sequences, FiniteSets, SequencesExt

CONSTANTS
  Processes,
  Accesses,    \* access contexts of callers
  Sees,        \* the spaces each of them sees
  Times,       \* event times
  Operations,  \* operations in use: "list", "recall", "trajectories", "command"
  CacheLimit,  \* events of a snapshot the SDK keeps (128 MiB)
  None,
  MaxLog       \* bound: events

SdkReadsAssumption ==
  /\ Operations \subseteq {"list", "recall", "trajectories", "command"}
  /\ CacheLimit \in Nat /\ MaxLog \in Nat /\ Times \subseteq Nat

VARIABLES
  log,            \* canonical events, by ingestion sequence
  checkpoints,    \* fold_projection_checkpoints, by the key of the access context
  storedEntries,  \* per process: length of the kept snapshot, or None
  storedRevision,
  sourceBytes,    \* sourceCacheBytes
  memories,       \* memoryProjections: by key, a set with at most one projection
  readMemories,   \* readProjections
  trajectories,   \* trajectoryProjections
  validated,      \* trajectoryValidation
  op              \* the operation that runs

sdkVars == <<storedEntries, storedRevision, sourceBytes, memories, readMemories,
             trajectories, validated>>
vars == <<log, checkpoints, sdkVars, op>>

Spaces == UNION {Sees[a] : a \in Accesses}
\* transcriptCatalogCacheKey
Key(a) == a

NoOp == [kind |-> "", step |-> "idle", access |-> None, start |-> 0, revision |-> 0,
         seen |-> <<>>]
Empty == [k \in Accesses |-> {}]
Init ==
  /\ log = <<>> /\ checkpoints = Empty
  /\ storedEntries = [p \in Processes |-> None] /\ storedRevision = [p \in Processes |-> None]
  /\ sourceBytes = [p \in Processes |-> 0]
  /\ memories = [p \in Processes |-> Empty] /\ readMemories = [p \in Processes |-> Empty]
  /\ trajectories = [p \in Processes |-> Empty] /\ validated = [p \in Processes |-> {}]
  /\ op = [p \in Processes |-> NoOp]

-----------------------------------------------------------------------------
(* entriesForAccess: what a caller sees of a snapshot, in canonical order  *)
Earlier(i, j) == log[i].t < log[j].t \/ (log[i].t = log[j].t /\ i < j)
View(S) == SetToSortSeq(S, Earlier)
Visible(a, n) == View({i \in 1..n : log[i].space \in Sees[a]})

\* readStoredEntries: the kept snapshot if it has the revision the store reports.
Hit(p) == storedEntries[p] # None /\ storedRevision[p] = Len(log)
Snapshot(p) == IF Hit(p) THEN storedEntries[p] ELSE Len(log)
Releases(p) == ~Hit(p) /\ sourceBytes[p] > CacheLimit

\* What reading does to the caches; a snapshot over the limit is not kept.
ReadSource(p) ==
  /\ storedRevision' = [storedRevision EXCEPT ![p] = Len(log)]
  /\ storedEntries' = [storedEntries EXCEPT ![p] =
       IF Hit(p) THEN @ ELSE IF Len(log) <= CacheLimit THEN Len(log)
       ELSE IF Releases(p) THEN None ELSE @]
  /\ sourceBytes' = [sourceBytes EXCEPT ![p] =
       IF Hit(p) \/ (~Releases(p) /\ @ > Len(log)) THEN @ ELSE Len(log)]
KeepProjections(p) ==
  /\ memories' = IF Releases(p) THEN [memories EXCEPT ![p] = Empty] ELSE memories
  /\ readMemories' = IF Releases(p) THEN [readMemories EXCEPT ![p] = Empty] ELSE readMemories
KeepTrajectories(p) ==
  /\ trajectories' = IF Releases(p) THEN [trajectories EXCEPT ![p] = Empty] ELSE trajectories
  /\ validated' = IF Releases(p) THEN [validated EXCEPT ![p] = {}] ELSE validated

Go(p, step, seen) == op' = [op EXCEPT ![p].step = step, ![p].seen = seen]
At(p, kind, step) == op[p].kind = kind /\ op[p].step = step

-----------------------------------------------------------------------------
\* enqueue: the operation starts when the one before it has ended.
Enqueue(p) ==
  /\ op[p].step \in {"idle", "done"}
  /\ \E k \in Operations, a \in Accesses :
       op' = [op EXCEPT ![p] = [NoOp EXCEPT !.kind = k, !.step = "begin", !.access = a,
                                            !.start = Len(log)]]
  /\ UNCHANGED <<log, checkpoints, sdkVars>>

listEntries(p) ==
  /\ At(p, "list", "begin")
  /\ ReadSource(p) /\ KeepProjections(p) /\ KeepTrajectories(p)
  /\ Go(p, "done", Visible(op[p].access, Snapshot(p)))
  /\ UNCHANGED <<log, checkpoints>>

\* readMemoryProjection: a projection in memory under the store's revision ...
RecallRevision(p) ==
  /\ At(p, "recall", "begin")
  /\ LET cached == {c \in readMemories[p][Key(op[p].access)] : c.revision = Len(log)}
     IN op' = [op EXCEPT ![p].revision = Len(log),
               ![p].step = IF cached # {} THEN "done" ELSE "checkpoint",
               ![p].seen = IF cached # {} THEN (CHOOSE c \in cached : TRUE).seen ELSE <<>>]
  /\ UNCHANGED <<log, checkpoints, sdkVars>>

\* ... or a checkpoint of the current head that decodes ...
Current(p) ==
  {c \in checkpoints[Key(op[p].access)] : c.revision = op[p].revision /\ c.revision = Len(log)}

readProjectionCheckpoint(p) ==
  /\ At(p, "recall", "checkpoint")
  /\ \E c \in Current(p) :
       /\ readMemories' = [readMemories EXCEPT ![p][Key(op[p].access)] =
                             {[revision |-> op[p].revision, seen |-> c.seen]}]
       /\ Go(p, "done", c.seen)
  /\ UNCHANGED <<log, checkpoints, storedEntries, storedRevision, sourceBytes, memories,
                 trajectories, validated>>

\* ... or else, also when the checkpoint cannot be read or decoded, a replay.
NoCheckpoint(p) ==
  /\ At(p, "recall", "checkpoint")
  /\ Go(p, "source", <<>>)
  /\ UNCHANGED <<log, checkpoints, sdkVars>>

\* memoryProjection: the first read decides whether the cached projection is current.
MemorySource(p) ==
  /\ At(p, "recall", "source")
  /\ ReadSource(p) /\ KeepProjections(p) /\ KeepTrajectories(p)
  /\ LET cached == {c \in memories[p][Key(op[p].access)] : c.revision = Len(log)}
     IN IF cached # {} THEN Go(p, "save", (CHOOSE c \in cached : TRUE).seen)
                       ELSE Go(p, "replay", <<>>)
  /\ UNCHANGED <<log, checkpoints>>

\* The second one is replayed and cached under the revision of that read.
MemoryReplay(p) ==
  /\ At(p, "recall", "replay")
  /\ ReadSource(p) /\ KeepTrajectories(p)
  /\ LET seen == Visible(op[p].access, Snapshot(p))
     IN /\ memories' = [memories EXCEPT ![p] = [(IF Releases(p) THEN Empty ELSE @) EXCEPT
                          ![Key(op[p].access)] = {[revision |-> Len(log), seen |-> seen]}]]
        /\ Go(p, "save", seen)
  /\ readMemories' = IF Releases(p) THEN [readMemories EXCEPT ![p] = Empty] ELSE readMemories
  /\ UNCHANGED <<log, checkpoints>>

\* The answer is kept, and saved unless the log has moved on (writeProjectionCheckpoint
\* compares the head under the workspace lock); a failed write is ignored.
writeProjectionCheckpoint(p) ==
  /\ At(p, "recall", "save")
  /\ LET row == [revision |-> storedRevision[p], seen |-> op[p].seen]
     IN /\ readMemories' = [readMemories EXCEPT ![p][Key(op[p].access)] = {row}]
        /\ \/ /\ storedRevision[p] = Len(log) /\ storedEntries[p] \notin {None, 0}
              /\ checkpoints' = [checkpoints EXCEPT ![Key(op[p].access)] = {row}]
           \/ UNCHANGED checkpoints
  /\ Go(p, "done", op[p].seen)
  /\ UNCHANGED <<log, storedEntries, storedRevision, sourceBytes, memories, trajectories,
                 validated>>

\* trajectoryProjection: the first read decides whether the cached state is current.
TrajectorySource(p) ==
  /\ At(p, "trajectories", "begin")
  /\ ReadSource(p) /\ KeepProjections(p) /\ KeepTrajectories(p)
  /\ LET cached == {c \in trajectories[p][Key(op[p].access)] : c.revision = Len(log)}
     IN IF cached # {} THEN Go(p, "done", (CHOOSE c \in cached : TRUE).seen)
                       ELSE Go(p, "fold", <<>>)
  /\ UNCHANGED <<log, checkpoints>>

\* Mutant: a state that folded no other events is extended.
ExtendsSet(prior, events) == ToSet(prior) \subseteq ToSet(events)
\* A state that folded a prefix of these events, in this order, is extended.
Extends(prior, events) == IsPrefix(prior, events)
Continue(prior, events) == prior \o SelectSeq(events, LAMBDA i : i \notin ToSet(prior))

TrajectoryFold(p) ==
  /\ At(p, "trajectories", "fold")
  /\ ReadSource(p) /\ KeepProjections(p) /\ KeepTrajectories(p)
  /\ LET events == Visible(op[p].access, Snapshot(p))
         kept(S) == {c \in S : ~Releases(p) /\ Extends(c.seen, events)}
         full == {c \in kept(validated[p]) : Len(c.seen) = Len(events)}
         prior == IF full # {} THEN full ELSE kept(trajectories[p][Key(op[p].access)])
     IN Go(p, "count", IF prior = {} THEN events
                       ELSE Continue((CHOOSE c \in prior : TRUE).seen, events))
  /\ UNCHANGED <<log, checkpoints>>

\* A third read counts the canonical events: a state of all of them serves every
\* caller. The state is cached under the revision of this read.
TrajectoryCount(p) ==
  /\ At(p, "trajectories", "count")
  /\ ReadSource(p) /\ KeepProjections(p)
  /\ LET row == [revision |-> Len(log), seen |-> op[p].seen]
     IN /\ trajectories' = [trajectories EXCEPT ![p] = [(IF Releases(p) THEN Empty ELSE @)
                              EXCEPT ![Key(op[p].access)] = {row}]]
        /\ validated' = [validated EXCEPT ![p] =
             IF Len(op[p].seen) = Snapshot(p) THEN {row} ELSE IF Releases(p) THEN {} ELSE @]
  /\ Go(p, "done", op[p].seen)
  /\ UNCHANGED <<log, checkpoints>>

\* A command pins one snapshot for all its checks ...
CommandPin(p) ==
  /\ At(p, "command", "begin")
  /\ ReadSource(p) /\ KeepProjections(p) /\ KeepTrajectories(p)
  /\ op' = [op EXCEPT ![p].step = "commit", ![p].revision = Len(log),
                      ![p].seen = View(1..Snapshot(p))]
  /\ UNCHANGED <<log, checkpoints>>

\* ... and commits if the log has not moved on; otherwise it starts again. Either
\* way the caches that a command may have filled are dropped.
DropCaches(p) ==
  /\ storedEntries' = [storedEntries EXCEPT ![p] = None]
  /\ storedRevision' = [storedRevision EXCEPT ![p] = None]
  /\ memories' = [memories EXCEPT ![p] = Empty]
  /\ readMemories' = [readMemories EXCEPT ![p] = Empty]
  /\ UNCHANGED <<sourceBytes, trajectories, validated>>

CommandCommit(p) ==
  /\ At(p, "command", "commit") /\ op[p].revision = Len(log) /\ Len(log) < MaxLog
  /\ \E t \in Times, s \in Sees[op[p].access] : log' = Append(log, [t |-> t, space |-> s])
  /\ op' = [op EXCEPT ![p].step = "done"]
  /\ DropCaches(p) /\ UNCHANGED checkpoints

CommandConflict(p) ==
  /\ At(p, "command", "commit") /\ op[p].revision # Len(log)
  /\ op' = [op EXCEPT ![p].step = "begin"]
  /\ DropCaches(p) /\ UNCHANGED <<log, checkpoints>>

\* Other writers of the workspace: raw appends, imports, selected SDKs.
ForeignAppend ==
  /\ Len(log) < MaxLog
  /\ \E t \in Times, s \in Spaces : log' = Append(log, [t |-> t, space |-> s])
  /\ UNCHANGED <<checkpoints, sdkVars, op>>

\* BoundedCache drops projections of callers that were not seen lately.
Evict(p) ==
  /\ memories' = [memories EXCEPT ![p] = Empty]
  /\ readMemories' = [readMemories EXCEPT ![p] = Empty]
  /\ UNCHANGED <<log, checkpoints, storedEntries, storedRevision, sourceBytes,
                 trajectories, validated, op>>

Next ==
  \/ ForeignAppend
  \/ \E p \in Processes :
       \/ Enqueue(p) \/ listEntries(p) \/ Evict(p)
       \/ RecallRevision(p) \/ readProjectionCheckpoint(p) \/ NoCheckpoint(p)
       \/ MemorySource(p) \/ MemoryReplay(p) \/ writeProjectionCheckpoint(p)
       \/ TrajectorySource(p) \/ TrajectoryFold(p) \/ TrajectoryCount(p)
       \/ CommandPin(p) \/ CommandCommit(p) \/ CommandConflict(p)

Spec == Init /\ [][Next]_vars

-----------------------------------------------------------------------------
(* Properties                                                              *)

\* A caller gets what it sees of the log, replayed in canonical order, and nothing that
\* was committed before it asked is missing, from whichever cache, checkpoint or
\* extended state the answer came (client.ts readMemoryProjection, trajectoryProjection).
AnswersFresh ==
  \A p \in Processes :
    (op[p].step = "done" /\ op[p].kind # "command") =>
      \E n \in op[p].start..Len(log) : op[p].seen = Visible(op[p].access, n)

\* Memory projections, in the process or saved for others, are the complete replay of
\* exactly the revision they are kept under (client.ts:840, store.ts readProjectionCheckpoint).
ProjectionsExact ==
  \A a \in Accesses :
    /\ \A c \in checkpoints[Key(a)] : c.seen = Visible(a, c.revision)
    /\ \A p \in Processes : \A c \in memories[p][Key(a)] \cup readMemories[p][Key(a)] :
         c.seen = Visible(a, c.revision)

\* A trajectory state, extended from whatever was cached before, has folded its events
\* in canonical order with none left out in between, also when one arrived late
\* (client.ts trajectoryProjection, continueTrajectories).
TrajectoriesReplay ==
  \A p \in Processes, a \in Accesses :
    \A c \in trajectories[p][Key(a)] \cup (IF Sees[a] = Spaces THEN validated[p] ELSE {}) :
      \E n \in 0..Len(log) : c.seen = Visible(a, n)

\* The snapshot a command is validated against is the log its compare-and-set accepts
\* (client.ts command, readStoredEntries).
CommandsSeeAll ==
  [][\A p \in Processes :
       CommandCommit(p) => op[p].seen = View(1..Len(log))]_vars
=============================================================================
