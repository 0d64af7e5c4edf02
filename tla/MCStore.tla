------------------------------ MODULE MCStore ------------------------------
(***************************************************************************)
(* The PostgreSQL store and the reads of it for TLC. An initial state picks *)
(* a scene: one component with the bounds of that scene. The others then    *)
(* stay as they are, so the state spaces of the scenes add up.              *)
(***************************************************************************)
EXTENDS FoldStore, TLC

CONSTANT Scenes

VARIABLES
  scene,
  srLog, srCache, active, srPc, minimum, behind, got, answer, slot, object, selPc, selHead,
  selObject, since, rows, selAnswer,
  sdkLog, checkpoints, storedEntries, storedRevision, sourceBytes, memories, readMemories,
  trajectories, validated, op

srVars == <<srLog, srCache, active, srPc, minimum, behind, got, answer, slot, object, selPc,
            selHead, selObject, since, rows, selAnswer>>
sdkVars == <<sdkLog, checkpoints, storedEntries, storedRevision, sourceBytes, memories,
             readMemories, trajectories, validated, op>>
mcVars == <<scene, vars, srVars, sdkVars>>

-----------------------------------------------------------------------------
(* Two commands race to propose the same candidate, evidence and decisions on
   it arrive as commands and as imports; plain events collide in time and id,
   a command identity is reused with other content. *)
AnEntry(id, t, kind, rev) ==
  [id |-> id, t |-> t, kind |-> kind, cand |-> IF kind = "plain" THEN None ELSE "k", rev |-> rev]
Proposal  == AnEntry(1, 1, "proposed", 0)
Evidence  == AnEntry(4, 2, "contributed", 0)
Decision  == AnEntry(5, 3, "decided", 0)
Note      == AnEntry(3, 2, "plain", 0)
LateNote  == AnEntry(7, 1, "plain", 0)

ACommand(c, es) == [op |-> "command", cmd |-> c, entries |-> es]
AnImport(es)    == [op |-> "import", cmd |-> None, entries |-> es]
AnAppend(es)    == [op |-> "append", cmd |-> None, entries |-> es]

CandidateRequests ==
  { ACommand("c1", <<Proposal>>), ACommand("c2", <<AnEntry(2, 2, "proposed", 0)>>),
    ACommand("c2", <<AnEntry(6, 3, "decided", 1)>>), ACommand("c1", <<Proposal, Decision>>),
    AnImport(<<Evidence>>), AnImport(<<Decision>>) }
PlainRequests ==
  { ACommand("c1", <<Note, LateNote>>), ACommand("c1", <<LateNote>>),
    AnImport(<<Note, LateNote>>), AnAppend(<<Proposal>>), AnAppend(<<LateNote, Note>>) }
AllRequests == CandidateRequests \cup PlainRequests

OfCandidates == INSTANCE FoldStore WITH
  Requests <- CandidateRequests, MaxSubmits <- 4, MaxForeign <- 0
OfPlain == INSTANCE FoldStore WITH Requests <- PlainRequests

(* Three requests share loads; two requests share the cache of one selection. *)
Shared == INSTANCE SnapshotReads WITH
  Readers <- {"r1", "r2", "r3"}, SelReaders <- {}, Kinds <- {"other"}, Groups <- {"g1"},
  Latest <- FALSE, PageSize <- 2, Objects <- {"o1"}, MaxLog <- 2,
  log <- srLog, cache <- srCache, pc <- srPc
OfRun == INSTANCE SnapshotReads WITH
  Readers <- {}, SelReaders <- {"s1", "s2"}, Kinds <- {"project", "run", "artifact"},
  Groups <- {"g1"}, Latest <- FALSE, PageSize <- 2, Objects <- {"o1", "o2", "o3"}, MaxLog <- 3,
  log <- srLog, cache <- srCache, pc <- srPc
OfLatest == INSTANCE SnapshotReads WITH
  Readers <- {}, SelReaders <- {"s1", "s2"}, Kinds <- {"run"},
  Groups <- {"g1", "g2"}, Latest <- TRUE, PageSize <- 2, Objects <- {"o1", "o2", "o3"}, MaxLog <- 3,
  log <- srLog, cache <- srCache, pc <- srPc

(* One process with two callers, of whom one sees a space less; two processes. *)
Nested == [a \in {"all", "some"} |-> IF a = "all" THEN {"shared", "space"} ELSE {"shared"}]
Callers == INSTANCE SdkReads WITH
  Processes <- {"p1"}, Accesses <- {"all", "some"}, Sees <- Nested, Times <- {1, 2},
  Operations <- {"list", "recall", "command"}, CacheLimit <- 3, MaxLog <- 3, log <- sdkLog
Orders == INSTANCE SdkReads WITH
  Processes <- {"p1"}, Accesses <- {"all", "some"}, Sees <- Nested, Times <- {1, 2},
  Operations <- {"trajectories"}, CacheLimit <- 3, MaxLog <- 3, log <- sdkLog
Peers == INSTANCE SdkReads WITH
  Processes <- {"p1", "p2"}, Accesses <- {"all"}, Sees <- [a \in {"all"} |-> {"shared"}],
  Times <- {1}, Operations <- {"list", "recall"}, CacheLimit <- 3, MaxLog <- 3, log <- sdkLog

ASSUME Shared!SnapshotReadsAssumption /\ OfRun!SnapshotReadsAssumption /\ OfLatest!SnapshotReadsAssumption
ASSUME Callers!SdkReadsAssumption /\ Orders!SdkReadsAssumption /\ Peers!SdkReadsAssumption

-----------------------------------------------------------------------------
MCInit ==
  /\ scene \in Scenes
  /\ Init
  /\ IF scene = "shared" THEN Shared!Init ELSE OfRun!Init
  /\ IF scene = "peers" THEN Peers!Init ELSE Callers!Init

InStore(A) == A /\ UNCHANGED <<scene, srVars, sdkVars>>
InReads(A) == A /\ UNCHANGED <<scene, vars, sdkVars>>
InSdk(A) == A /\ UNCHANGED <<scene, vars, srVars>>

MCNext ==
  \/ scene = "candidates" /\ InStore(OfCandidates!Next)
  \/ scene = "plain" /\ InStore(OfPlain!Next)
  \/ scene = "shared" /\ InReads(Shared!Next)
  \/ scene = "run" /\ InReads(OfRun!Next)
  \/ scene = "latest" /\ InReads(OfLatest!Next)
  \/ scene = "callers" /\ InSdk(Callers!Next)
  \/ scene = "orders" /\ InSdk(Orders!Next)
  \/ scene = "peers" /\ InSdk(Peers!Next)

(* A process with a request keeps running and waiters get the tenant lock in
   turn; callbacks that are due run. A behaviour stays in its scene, so one
   formula stands for a condition of each. *)
Reading(r) == Shared!Join(r) \/ Shared!Launch(r) \/ Shared!Proceed(r) \/ Shared!LoadPage(r) \/ Shared!LoadDone(r)
Runs(p, r) ==
  \/ scene = "plain" /\ InStore(OfPlain!Step(p))
  \/ scene = "shared" /\ InReads(Reading(r))
MCFairness ==
  /\ WF_mcVars(Runs("p1", "r1"))
  /\ WF_mcVars(Runs("p2", "r2"))
  /\ WF_mcVars(scene = "shared" /\ InReads(Reading("r3")))
  /\ \A p \in Processes : SF_mcVars(scene = "plain" /\ InStore(OfPlain!AcquireLock(p)))

MCSpec == MCInit /\ [][MCNext]_mcVars
MCFairSpec == MCSpec /\ MCFairness

-----------------------------------------------------------------------------
(* Every submitted request ends (FoldStore!RequestsEnd), whoever else waits
   for the tenant lock. *)
SubmittedEnd == scene = "plain" => RequestsEnd

(* A reader gets exactly the log up to the revision it is told, no older than
   the head when it asked, whichever load it joined or queued behind. *)
AnswersExact == scene = "shared" => Shared!AnswersExact

(* Unselected reads of a workspace load one at a time. *)
OneLoad == scene = "shared" => Shared!OneLoad

(* A request that has asked is answered or fails, also when the load it queued
   behind failed (store.ts:688). *)
ReadsEnd == \A r \in {"r1", "r2", "r3"} :
  (scene = "shared" /\ srPc[r] = "asked") ~> (scene = "shared" /\ srPc[r] \in {"done", "failed"})

(* What a selected read returns under a revision that is still the selection's
   head is what the selection selects. *)
SelectedExact ==
  /\ scene = "run" => OfRun!SelectedExact
  /\ scene = "latest" => OfLatest!SelectedExact

(* A caller gets what it sees of the log in canonical order, and nothing that
   was committed before it asked is missing. *)
AnswersFresh ==
  /\ scene = "callers" => Callers!AnswersFresh
  /\ scene = "peers" => Peers!AnswersFresh

(* Memory projections are the complete replay of the revision they are kept
   under, in the process and in checkpoints. *)
ProjectionsExact ==
  /\ scene = "callers" => Callers!ProjectionsExact
  /\ scene = "peers" => Peers!ProjectionsExact

(* A trajectory state has folded its events in canonical order with none left
   out in between, also when one arrived late. *)
TrajectoriesReplay == scene = "orders" => Orders!TrajectoriesReplay

(* The snapshot a command is validated against is the log its compare-and-set
   accepts. *)
CommandsSeeAll == [][scene = "callers" =>
  \A p \in {"p1"} : Callers!CommandCommit(p) => op[p].seen = Callers!View(1..Len(sdkLog))]_mcVars

(* What readers of the store get: the log at the revision they are told, in one load,
   for everything and for a selection (SqlFoldStore.readEvents, store.ts). *)
ReadsExact == AnswersExact /\ OneLoad /\ SelectedExact

(* What readers are answered, by the store or from the caches of the SDK, is the log at
   the revision they are told, or its replay; what commands are validated against is
   the log their compare-and-set accepts (client.ts). *)
AnswersReplay ==
  [](ReadsExact /\ AnswersFresh /\ ProjectionsExact /\ TrajectoriesReplay) /\ CommandsSeeAll

(* Requests end, of writers and of readers. *)
AllEnd == SubmittedEnd /\ ReadsEnd
=============================================================================
