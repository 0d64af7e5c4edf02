------------------------------ MODULE MCWorker ------------------------------
(***************************************************************************)
(* The memory worker, and the queue of the vector index that is worked off  *)
(* in the API, for TLC. An initial state picks a scene: one component with  *)
(* the bounds of that scene. The other components then stay as they are,    *)
(* so the state spaces of the scenes add up.                                *)
(***************************************************************************)
EXTENDS JobLedger, WindowScheduler, MemoryWorker, TLC

CONSTANTS Scenes, Nothing

VARIABLES
  scene,
  candidates, memories, pReceipts, pNow, pJob, attested, pWork, humans, pFaults,
  mJob, hidden, published, head, policy, revision, provider, synthesis, proposals, mLane, mFaults,
  refreshJobs, tries, later, batch, refreshBytes, refreshPlans, refreshTimer, refreshPump,
  pumpCall, providerWork, asking, index, ranker, everQueued, everDiscarded

pVars == <<candidates, memories, pReceipts, pNow, pJob, attested, pWork, humans, pFaults>>
mVars == <<mJob, hidden, published, head, policy, revision, provider, synthesis, proposals,
           mLane, mFaults>>
ixVars == <<refreshJobs, tries, later, batch, refreshBytes, refreshPlans, refreshTimer,
            refreshPump, pumpCall, providerWork, asking, index, ranker, everQueued, everDiscarded>>
mcVars == <<scene, vars, schedulerVars, workerVars, pVars, mVars, ixVars>>

-----------------------------------------------------------------------------
(* A run with a turn, a plan that leads to a synthesis, a window
   that is split in two. *)
Kinds == "run" :> "extract-run" @@ "turn" :> "extract-turn" @@
         "plan" :> "cognition-plan" @@ "synth" :> "synthesis" @@ "win" :> "episode" @@ "half" :> "episode"
After == "run" :> {"turn"} @@ "turn" :> {} @@ "plan" :> {"synth"} @@
         "synth" :> {} @@ "win" :> {"half"} @@ "half" :> {}
Few == {"run", "turn", "plan", "synth"}

AskedFor == <<{"run", "plan"}, {"win"}>>

(* Fewer of them, and a ledger with room for all. *)
FewKinds == [j \in Few |-> Kinds[j]]
AfterFew == [j \in Few |-> After[j] \cap Few]
AskedForFew == <<{"run", "plan"}>>

(* Two jobs make one claim in words of their own and derive the same candidate
   id; one has a human decision for it and one a checkpoint. In the second scene
   the claim is accepted already, in a memory that lacks evidence. *)
Proposing == INSTANCE Proposals WITH
  Jobs <- {"j1", "j2"}, Claim <- [j \in {"j1", "j2"} |-> "x"],
  Content <- "j1" :> "x" @@ "j2" :> "y", Evidence <- "j1" :> {"e1"} @@ "j2" :> {"e2"},
  OwnId <- [j \in {"j1", "j2"} |-> <<"own", "a">>], Sources <- [j \in {"j1", "j2"} |-> {}],
  Witness <- "j1" :> "human" @@ "j2" :> "checkpoint", Legacy <- {}, NoEvidence <- "e0",
  MaxTime <- 2, MaxHuman <- 1, MaxFaults <- 1,
  receipts <- pReceipts, now <- pNow, job <- pJob, w <- pWork, faults <- pFaults
Supporting == INSTANCE Proposals WITH
  Jobs <- {"j1", "j2"}, Claim <- [j \in {"j1", "j2"} |-> "x"],
  Content <- "j1" :> "x" @@ "j2" :> "y", Evidence <- "j1" :> {"e1"} @@ "j2" :> {"e2"},
  OwnId <- [j \in {"j1", "j2"} |-> <<"own", "a">>],
  Sources <- "j1" :> {} @@ "j2" :> {<<<<"legacy", "x">>, 1>>},
  Witness <- "j1" :> "human" @@ "j2" :> "checkpoint", Legacy <- {"x"}, NoEvidence <- "e0",
  MaxTime <- 2, MaxHuman <- 1, MaxFaults <- 1,
  receipts <- pReceipts, now <- pNow, job <- pJob, w <- pWork, faults <- pFaults

(* A window of three sources, the last too large by itself, and an operator who
   queues the first one; a synthesis that cites two memories. *)
Models == INSTANCE ModelJobs WITH
  Sources <- 3, Manual <- {<<1, 1>>}, Budget <- 2, Heavy <- {3}, MaxActive <- 3,
  MaxAttempts <- 2, Memories <- {"a", "b"}, MaxRevision <- 2, MaxHead <- 2, MaxFaults <- 1,
  job <- mJob, lane <- mLane, faults <- mFaults

(* Two revisions of a memory, and one call of the provider at a time. *)
Text(n, text) == [tenant |-> "t", memory |-> "m", revision |-> n, text |-> text, bytes |-> 1]
Old == Text(0, "x")
New == Text(1, "y")
Vectors == INSTANCE EmbeddingRefresh WITH
  Documents <- {Old, New}, Requests <- {{Old}, {New}}, Calls <- {"c"}, MaxJobs <- 2, MaxBytes <- 2,
  MaxDocument <- 1, MaxPlans <- 1, BatchSize <- 2, MaxAttempts <- 2,
  jobs <- refreshJobs, attempts <- tries, waiting <- later, running <- batch, bytes <- refreshBytes,
  plans <- refreshPlans, timer <- refreshTimer, pump <- refreshPump, call <- pumpCall,
  work <- providerWork, phase <- ranker, queued <- everQueued, discarded <- everDiscarded

-----------------------------------------------------------------------------
ASSUME Vectors!RefreshAssumption

MCInit ==
  /\ scene \in Scenes
  /\ Init
  /\ SchedulerInit
  /\ WorkerInit
  /\ IF scene = "supporting" THEN Supporting!Init ELSE Proposing!Init
  /\ Models!Init
  /\ Vectors!Init

InLedger(A) == A /\ UNCHANGED <<scene, schedulerVars, workerVars, pVars, mVars, ixVars>>
InScheduler(A) == A /\ UNCHANGED <<scene, vars, workerVars, pVars, mVars, ixVars>>
InWorker(A) == A /\ UNCHANGED <<scene, vars, schedulerVars, pVars, mVars, ixVars>>
InProposals(A) == A /\ UNCHANGED <<scene, vars, schedulerVars, workerVars, mVars, ixVars>>
InModels(A) == A /\ UNCHANGED <<scene, vars, schedulerVars, workerVars, pVars, ixVars>>
InIndex(A) == A /\ UNCHANGED <<scene, vars, schedulerVars, workerVars, pVars, mVars>>

(* No ranking takes the slot from the pump, and no operator starts over. *)
Refreshing ==
  \/ \E d \in {Old, New} : Vectors!EnqueueDocuments({d}) \/ Vectors!Elapse(d)
  \/ Vectors!Plan("t") \/ Vectors!Settle("c") \/ Vectors!TimerFires \/ Vectors!Pump
  \/ Vectors!RepairDiscard \/ Vectors!Close \/ Vectors!Closed

MCNext ==
  \/ scene = "ledger" /\ InLedger(Next)
  \/ scene = "windows" /\ InScheduler(SchedulerNext)
  \/ scene = "worker" /\ InWorker(WorkerNext)
  \/ scene = "proposing" /\ InProposals(Proposing!Next)
  \/ scene = "supporting" /\ InProposals(Supporting!Next)
  \/ scene = "episodes" /\ InModels(Models!EpisodeNext \/ Models!Restart)
  \/ scene = "synthesis" /\ InModels(Models!SynthesisNext \/ Models!Restart)
  \/ scene = "index" /\ InIndex(Refreshing)

(* The fairness of the three components. A behaviour stays in its scene, so one
   formula stands for a condition of each; a job has one lane that may start it. *)
OfWindows(A) == scene = "windows" /\ InScheduler(A)
OfWorker(A) == scene = "worker" /\ InWorker(A)
OfIndex(A) == scene = "index" /\ InIndex(A)
CallOf(j) == IF j \in {"run", "turn"} THEN "tick" ELSE "observe"
MCFairness ==
  /\ WF_mcVars(OfWindows(Step) \/ OfWorker(Start) \/ OfIndex(Vectors!Pump))
  /\ WF_mcVars(OfWindows(CallTick) \/ OfWorker(Intake) \/ OfIndex(Vectors!TimerFires))
  /\ WF_mcVars(OfWindows(\E w \in open : JobEnds(w)) \/ OfWorker(AcknowledgeWork)
                  \/ OfIndex(Vectors!Settle("c") \/ Vectors!Closed))
  /\ WF_mcVars(OfWindows(TimePasses) \/ OfWorker(Reconciling) \/ OfIndex(Vectors!Elapse(Old)))
  /\ WF_mcVars(OfWorker(FinishClose) \/ OfIndex(Vectors!Elapse(New)))
  /\ \A l \in {"drain", "models"} : WF_mcVars(OfWorker(Work(l))
                                         \/ (ranker # "open" /\ OfIndex(Vectors!Plan("t"))))
  /\ \A j \in Few : SF_mcVars(\/ OfWindows(Begin(CallOf(j)))
                              \/ OfWorker(StartJob(LaneOf(j), j)))

MCSpec == MCInit /\ [][MCNext]_mcVars
MCFairSpec == MCSpec /\ MCFairness

-----------------------------------------------------------------------------
(* What a completed proposal job had to say is with a candidate or memory of its claim,
   said once, and accepted only on a witness; no source of an episode window is dropped
   or published twice by splits, and a synthesis cites what was current when its answer
   came. No step of a job adds evidence to a memory that makes another claim by then, or
   gives a published window to the model again (applyProposal, applyEpisode). *)
ProposalsKept ==
  /\ scene = "proposing" => Proposing!ProposalsHold
  /\ scene = "supporting" => Supporting!ProposalsHold
ProposalsSound ==
  /\ []ProposalsKept
  /\ [](scene = "episodes" => Models!SourcesOwned /\ Models!PublishedDisjoint)
  /\ [](scene = "synthesis" => Models!ProposedCurrent)
  /\ [][scene = "supporting" => Supporting!SupportsSameClaim]_mcVars
  /\ [][scene = "episodes" => Models!NoSecondCall]_mcVars

(* Every queued document is indexed, or given up after its attempts. *)
QueueDrains == scene = "index" => Vectors!QueueDrains

(* Observed sources reach the ledger, admitted jobs are settled, and the vector index
   catches up. *)
WorkerProgress ==
  /\ scene = "windows" => EventuallyDelivered
  /\ scene = "worker" => JobsSettle
  /\ QueueDrains
=============================================================================
