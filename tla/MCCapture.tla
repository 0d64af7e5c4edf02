----------------------------- MODULE MCCapture -----------------------------
(***************************************************************************)
(* The capture daemon for TLC. An initial state picks a scene: the receipts *)
(* of hook occurrences, the delivery spool, the units of one session, the   *)
(* transcript import or the reprocessing of retained transcripts, with the  *)
(* bounds of that scene. The others then stay as they are, so the state     *)
(* spaces of the scenes add up.                                             *)
(***************************************************************************)
EXTENDS Importer, CaptureReceipts, CaptureSpool, TLC

CONSTANT Scenes, NoTask, NoRevision

VARIABLES scene, s, revision, jobs, up, restarts, verdicts

uniVars == <<s, revision, jobs, up, restarts, verdicts>>
mcVars == <<scene, receiptsVars, spoolAll, uniVars, importVars, reprocessVars>>

-----------------------------------------------------------------------------
(* Two occurrences with the bounds of the run; with failed writes; with a refused
   payload and a backup; one with a lost post and a backup. *)
Failing == INSTANCE CaptureReceipts WITH MaxCrashes <- 0, MaxFailures <- 1
Backups == INSTANCE CaptureReceipts WITH
  Invalid <- {2}, MaxSeals <- 1, MaxHeartbeats <- 0
Sealing == INSTANCE CaptureReceipts WITH
  N <- 1, Invalid <- {}, MaxLosses <- 1, MaxSeals <- 1, MaxHeartbeats <- 0

(* Two events around two snapshots of a task's tree with the bounds of the run, and,
   once these four were accepted, an event between two transcripts. *)
SpoolKinds == <<"event", "tree", "tree", "event", "transcript", "event", "transcript">>
TreeNodes == <<{}, {"a"}, {"b"}, {}, {}, {}, {}>>
Contents == <<"none", "none", "none", "none", "s", "none", "t">>
Transcripts == INSTANCE CaptureSpool WITH
  BatchSize <- 1, MaxDeaths <- 1, MaxRepairs <- 1, SourcesVanish <- TRUE
Draining == INSTANCE CaptureSpool WITH
  BatchSize <- 1, MaxDeaths <- 1, MaxRepairs <- 0, SourcesVanish <- TRUE
TreesAccepted ==
  /\ queued = 1..4 /\ pending = {} /\ failed = {} /\ resolved = {} /\ reissued = {} /\ sent = 1..4
  /\ tree = Nodes /\ remote = {"a", "b"} /\ owned = {} /\ snaps = {}
  /\ natives = Of("transcript") /\ refusing \in {{}, {6}} /\ expired = {}
  /\ list = <<>> /\ current = 0 /\ stage = "idle" /\ attempted = 0 /\ deferred = {} /\ waited = {}
  /\ outages = 0 /\ deaths = 0 /\ repairs = 0 /\ requeued = {}

(* A session with a tool and verdicts, and one that an older version left. *)
LegacySteps ==
  {<<"start">> \o l : l \in UNION {[1..n -> {"prompt", "done", "failed", "call"}] : n \in 0..3}}
Verdicts == INSTANCE CaptureUnits WITH
  Tasks <- {"t1"}, Tools <- {"c1"}, Revisions <- {"r1", "r2"}, Reports <- {FALSE},
  TreeEvery <- 2, MaxSteps <- 6, MaxRestarts <- 0, Legacy <- {}
Upgrades == INSTANCE CaptureUnits WITH
  Tasks <- {"t1"}, Tools <- {}, Revisions <- {"r1"}, Reports <- {FALSE, TRUE},
  TreeEvery <- 2, MaxSteps <- 6, MaxRestarts <- 2, Legacy <- LegacySteps

(* The importers and the runners take their bounds from the run. Earlier releases
   left nothing, the session with the old parser, or the session without a
   checksum; two runners share a state directory and one has its own. *)
Old(content, version) ==
  [id |-> <<"run">>, content |-> content, version |-> version, policy |-> "redact", sum |-> 0]
Releases == {{}, {Old(1, 1)}, {Old(1, 2)}}
Shared == [p \in Runners |-> IF p = "p3" THEN "d2" ELSE "d1"]

ASSUME Verdicts!UnitsAssumption /\ Upgrades!UnitsAssumption

-----------------------------------------------------------------------------
MCInit ==
  /\ scene \in Scenes
  /\ IF scene = "sealing" THEN Sealing!ReceiptsInit ELSE ReceiptsInit
  /\ IF scene \in {"transcripts", "draining"} THEN TreesAccepted ELSE SpoolInit
  /\ IF scene = "legacy" THEN Upgrades!Init ELSE Verdicts!Init
  /\ ImporterInit
  /\ scene = "imports" \/ catalog = {}
  /\ scene \in {"transcripts", "draining"} \/ refusing \subseteq (IF scene = "trees" THEN 1..4 ELSE {})
  /\ scene = "verdicts" \/ revision = "r1"

InReceipts(A) == A /\ UNCHANGED <<scene, spoolAll, uniVars, importVars, reprocessVars>>
InSpool(A) == A /\ UNCHANGED <<scene, receiptsVars, uniVars, importVars, reprocessVars>>
InUnits(A) == A /\ UNCHANGED <<scene, receiptsVars, spoolAll, importVars, reprocessVars>>
InImport(A) == A /\ UNCHANGED <<scene, receiptsVars, spoolAll, uniVars, reprocessVars>>
InReprocessing(A) == A /\ UNCHANGED <<scene, receiptsVars, spoolAll, uniVars, importVars>>

MCNext ==
  \/ scene = "crashes" /\ InReceipts(ReceiptsNext)
  \/ scene = "closing" /\ InReceipts(ReceiptsNext)
  \/ scene = "failures" /\ InReceipts(Failing!ReceiptsNext)
  \/ scene = "backups" /\ InReceipts(Backups!ReceiptsNext)
  \/ scene = "sealing" /\ InReceipts(Sealing!ReceiptsNext)
  \/ scene = "trees" /\ InSpool(SpoolNext /\ queued' \subseteq 1..4)
  \/ scene = "transcripts" /\ InSpool(Transcripts!SpoolNext)
  \/ scene = "draining" /\ InSpool(Draining!SpoolNext)
  \/ scene = "verdicts" /\ InUnits(Verdicts!Next)
  \/ scene = "legacy" /\ InUnits(Upgrades!Next)
  \/ scene = "imports" /\ InImport(ImportNext)
  \/ scene = "runners" /\ InReprocessing(ReprocessNext)
  \/ scene = "ending" /\ InReprocessing(ReprocessNext)

(* The service manager restarts the daemon, its timers drain, post and retry, the
   backup releases its seal, every wait of a runner has a deadline. A behaviour
   stays in its scene, so one formula stands for a condition of each. *)
Receipts(A, B) == (scene = "closing" /\ InReceipts(A)) \/ (scene = "sealing" /\ InReceipts(B))
Spool(A) == scene = "draining" /\ InSpool(A)
Runner(A) == scene = "ending" /\ InReprocessing(A)
MCFairness ==
  /\ WF_mcVars(Receipts(Engine, Sealing!Engine) \/ Spool(Draining!Processor)
              \/ Runner(RunnerStep("p1")))
  /\ WF_mcVars(Receipts(Reconcile, Sealing!Reconcile) \/ Spool(Draining!RetryDue(5))
              \/ Runner(RunnerStep("p3")))
  /\ WF_mcVars(Receipts(FALSE, Sealing!Backup) \/ Spool(Draining!RetryDue(6)))
  /\ WF_mcVars(Receipts(PostOccurrence(1), Sealing!PostOccurrence(1)) \/ Spool(Draining!RetryDue(7)))
  /\ WF_mcVars(Receipts(PostOccurrence(2), FALSE))
  /\ WF_mcVars(Receipts(Acknowledge(1), Sealing!Acknowledge(1)))
  /\ WF_mcVars(Receipts(Acknowledge(2), FALSE))
  /\ SF_mcVars(Receipts(AcceptOccurrence(1), Sealing!AcceptOccurrence(1)))
  /\ SF_mcVars(Receipts(AcceptOccurrence(2), FALSE))

MCSpec == MCInit /\ [][MCNext]_mcVars
MCFairSpec == MCSpec /\ MCFairness

-----------------------------------------------------------------------------
(* A trajectory is a success only if the operator's last verdict approved the
   very revision it ended with. *)
SuccessVerified == scene = "verdicts" => Verdicts!SuccessVerified

(* A named unit of a live session has regular snapshots of its tree. *)
SnapshotsRegular == scene = "verdicts" => Verdicts!SnapshotsRegular

(* Trajectories number the attempts without gap and never share a step, also
   across restarts and upgrades. *)
UnitsDisjoint == scene = "legacy" => Upgrades!UnitsDisjoint

(* No prompt is lost: a trajectory covers it once something has followed it. *)
PromptsCovered == scene = "legacy" => Upgrades!PromptsCovered

(* Every reprocessing command ends, even if the API never answers. *)
CommandsEnd ==
  \A p \in {"p1", "p3"} :
    scene = "ending" /\ runner[p].phase # "idle" ~> runner[p].phase = "idle"

(* The units of a session cover its prompts, never share a step, and succeed only
   when verified (trajectory.ts). *)
UnitsFaithful == SuccessVerified /\ SnapshotsRegular /\ UnitsDisjoint /\ PromptsCovered

(* Occurrences are closed, jobs delivered and commands ended. *)
CaptureProgress == EventuallyClosed /\ OthersDelivered /\ CommandsEnd
=============================================================================
