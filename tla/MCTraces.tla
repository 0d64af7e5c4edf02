------------------------------ MODULE MCTraces ------------------------------
(***************************************************************************)
(* Trajectories, task evidence, the fleet and the terminal tracker for     *)
(* TLC. An initial state picks a scene: one component with the bounds of   *)
(* that scene; the other components stay as they are.                      *)
(***************************************************************************)
EXTENDS Naturals, Sequences, FiniteSets

CONSTANTS Scenes, NoTime

VARIABLES
  scene,
  log, stored, walk,
  evidence,
  records, wire, sent, now, real,
  normalizedTail, current, geminiReadySignals, geminiPendingActive, raw, feeds

trajVars == <<log, stored, walk>>
fleetVars == <<records, wire, sent, now, real>>
termVars == <<normalizedTail, current, geminiReadySignals, geminiPendingActive, raw, feeds>>
mcVars == <<scene, trajVars, evidence, fleetVars, termVars>>

-----------------------------------------------------------------------------
(* Small trees and runs.  The base tree has a root and one outcome; the    *)
(* revisions add a second route, in two conflicting ways, and one renames  *)
(* an edge.                                                                *)
Node(id, kind) == [id |-> id, kind |-> kind]
Edge(id, from, to) == [id |-> id, from |-> from, to |-> to]
Base == [root |-> 1, nodes |-> <<Node(1, "decision"), Node(2, "outcome")>>, edges |-> <<Edge("a", 1, 2)>>]
Longer == [Base EXCEPT !.nodes = @ \o <<Node(3, "decision")>>, !.edges = @ \o <<Edge("b", 1, 3)>>]
Joined == [Longer EXCEPT !.edges = @ \o <<Edge("c", 3, 2)>>]
Forked == [Longer EXCEPT !.nodes[3].kind = "outcome"]
Renamed == [Longer EXCEPT !.edges = <<Edge("z", 1, 2), Edge("b", 1, 3)>>]
On(n) == [kind |-> "mapped", node |-> n]
Off(kind) == [kind |-> kind, node |-> 0]
Run(id, outcome, steps) == [id |-> id, outcome |-> outcome, steps |-> steps]
Short == Run("p", "success", <<On(1), On(2)>>)

Trees == INSTANCE Trajectories WITH
  Tasks <- {"t"}, TreeInputs <- {Base, Longer, Joined, Forked, Renamed},
  RunInputs <- {Short, Run("q", "failure", <<On(1), On(3)>>)}, Verdicts <- {"failure"},
  MaxKey <- 4, MaxEvents <- 4, Writers <- {"member", "outsider"}, RawAppend <- {"tree"}, Limit <- 0
Reviews == INSTANCE Trajectories WITH
  Tasks <- {"t"}, TreeInputs <- {Joined}, RunInputs <- {Short},
  Verdicts <- {"failure", "unknown"}, MaxKey <- 6, MaxEvents <- 5,
  Writers <- {"member", "outsider"}, RawAppend <- {"outcome"}, Limit <- 0
Routes == INSTANCE Trajectories WITH
  Tasks <- {"t"}, TreeInputs <- {Joined},
  RunInputs <- {Run(id, outcome, steps) :
                  id \in {"p", "q"}, outcome \in {"success", "failure"},
                  steps \in {<<On(1), On(1), On(2)>>, <<On(1), On(3), On(2)>>,
                             <<On(1), Off("ambiguous"), On(2)>>,
                             <<On(1), On(3), Off("unmapped"), On(2)>>,
                             <<Off("unmapped"), On(1), On(2)>>}},
  Verdicts <- {"success", "unknown"}, MaxKey <- 4, MaxEvents <- 4,
  Writers <- {"member"}, RawAppend <- {}, Limit <- 0
Counts == INSTANCE Trajectories WITH
  Tasks <- {1}, TreeInputs <- {Base, Joined}, RunInputs <- {Short},
  Verdicts <- {"failure", "unknown"}, MaxKey <- 6, MaxEvents <- 5,
  Writers <- {"member", "outsider"}, RawAppend <- {}, Limit <- 0
Walk == INSTANCE Trajectories WITH
  Tasks <- {1, 2, 3}, TreeInputs <- {Joined}, RunInputs <- {Short}, Verdicts <- {"failure"},
  MaxKey <- 4, MaxEvents <- 5, Writers <- {"outsider"}, RawAppend <- {}, Limit <- 1

(* One attempt that people accept and reject; two attempts that are        *)
(* recorded again.                                                         *)
Acceptance == INSTANCE TaskEvidence WITH
  Versions <- {"v1"}, Specs <- {"s1"}, Attempts <- {"a"}, Revisions <- {"r1"},
  MaxKey <- 6, MaxEvents <- 6, Writers <- {"outsider"}, log <- evidence
Attempted == INSTANCE TaskEvidence WITH
  Versions <- {"v1", "v2"}, Specs <- {"s1", "s2"}, Attempts <- {"a", "b"},
  Revisions <- {"r1", "r2"}, MaxKey <- 4, MaxEvents <- 3,
  Writers <- {"member", "outsider"}, log <- evidence

(* Two sensors, some records of which are about the other session; one     *)
(* that falls silent; one that knows more or less of its task.             *)
TwoSensors == INSTANCE Fleet WITH
  Sessions <- {"s1", "s2"}, Tasks <- {"unknown"}, Branches <- {"unknown"},
  Signals <- {"session_started", "session_stopped", "heartbeat", "sensor_degraded", "sees_done"},
  Foreign <- TRUE, AfterStop <- FALSE, Unknown <- "unknown", None <- NoTime, Window <- 1,
  OrphanAfter <- 2, MaxTime <- 2, MaxSignals <- 3, log <- records
Orphans == INSTANCE Fleet WITH
  Sessions <- {"s1"}, Tasks <- {"unknown"}, Branches <- {"unknown"},
  Signals <- {"session_started", "session_stopped", "session_error", "heartbeat",
              "blocking_prompt", "task_complete", "tool_running", "sees_busy"},
  Foreign <- FALSE, AfterStop <- FALSE, Unknown <- "unknown", None <- NoTime, Window <- 1,
  OrphanAfter <- 2, MaxTime <- 4, MaxSignals <- 3, log <- records
Identified == INSTANCE Fleet WITH
  Sessions <- {"s1"}, Tasks <- {"unknown", "a", "b"}, Branches <- {"unknown", "main"},
  Signals <- {"heartbeat", "session_ready", "login_required", "stall_detected", "output"},
  Foreign <- FALSE, AfterStop <- FALSE, Unknown <- "unknown", None <- NoTime, Window <- 1,
  OrphanAfter <- 1, MaxTime <- 0, MaxSignals <- 3, log <- records

Gemini == INSTANCE TerminalTracker WITH
  source <- "gemini", RecentTail <- 4, ConflictTail <- 2, MaxFeeds <- 7,
  Marks <- {"text", "cancelled", "ready_prompt_gemini", "busy_status_line",
            "awaiting_approval_gemini", "awaiting_input_shell", "completed_claude_duration"}

-----------------------------------------------------------------------------
ASSUME TwoSensors!FleetConstants /\ Orphans!FleetConstants /\ Identified!FleetConstants
ASSUME Gemini!TrackerConstants

MCInit ==
  /\ scene \in Scenes
  /\ Trees!Init
  /\ Acceptance!Init
  /\ IF scene = "sessions" THEN TwoSensors!Init ELSE Orphans!Init
  /\ Gemini!Init

InTrajectories(A) == A /\ UNCHANGED <<scene, evidence, fleetVars, termVars>>
Replayed(A) == InTrajectories(A /\ UNCHANGED <<stored, walk>>)
InEvidence(A) == A /\ UNCHANGED <<scene, trajVars, fleetVars, termVars>>
InFleet(A) == A /\ UNCHANGED <<scene, trajVars, evidence, termVars>>
InTerminal(A) == A /\ UNCHANGED <<scene, trajVars, evidence, fleetVars>>

MCNext ==
  \/ scene = "trees" /\ Replayed(Trees!Next)
  \/ scene = "reviews" /\ Replayed(Reviews!Next)
  \/ scene = "routes" /\ Replayed(Routes!Next)
  \/ scene = "counts" /\ InTrajectories(Counts!NextQ)
  \/ scene = "walk" /\ InTrajectories(Walk!NextQ)
  \/ scene = "acceptance" /\ InEvidence(Acceptance!Next)
  \/ scene = "attempts" /\ InEvidence(Attempted!Next)
  \/ scene = "sessions" /\ InFleet(TwoSensors!Next)
  \/ scene = "orphans" /\ InFleet(Orphans!Next)
  \/ scene = "identified" /\ InFleet(Identified!Next)
  \/ scene = "gemini" /\ InTerminal(Gemini!Next)

MCSpec == MCInit /\ [][MCNext]_mcVars

-----------------------------------------------------------------------------
\* Every stored run still fits the current tree of its task, whatever
\* revisions were recorded since, also between older ones: a report of the
\* task never fails on a run that was accepted.
RunsFit == scene = "trees" => Trees!RunsFit

\* A verdict corrects the one before it and none is ever inserted into the
\* history of a run, although the log is ordered by source time: the history
\* only grows at its end, and no two reviews correct the same one.
VerdictsChain == [][scene = "reviews" => Reviews!VerdictsExtended]_log

\* Everyone who sees a run sees the same reviews of it and so the same
\* outcome: a review inherits the run's visibility.
SameVerdict == scene = "reviews" => Reviews!SameVerdict

\* A run is reported as aligned with the consensus path only if an unbroken
\* stretch of mapped steps follows it from its first node to its last, and a
\* run whose whole route is the path always is: gaps are never bridged.
ConsensusFollowed == scene = "routes" => Routes!ConsensusFollowed

\* The SQL summaries list the tasks that replay lists and count each run once
\* under the outcome that replay gives it, for every reader and whatever the
\* order in which backdated trees, runs and reviews were stored.
SummariesAgree == scene = "counts" => Counts!SummariesAgree

\* A task that nothing was recorded for during the walk over the pages is met
\* exactly once, although other tasks move to the front meanwhile.
WalkMeets == scene = "walk" => Walk!WalkMeets

\* The report shows a conflict exactly when humans gave both verdicts on a
\* revision, in whatever order and number.
ConflictsShown == scene = "acceptance" => Acceptance!ConflictsShown

\* What is known of an attempt never changes, whatever arrives late and is
\* inserted before it: its baseline and scope stay, and so do its final
\* revision and its acceptance once they are recorded.
AttemptsFixed == [][scene = "attempts" => Attempted!AttemptsKept]_evidence

\* Whatever the order of arrival, a session whose records have arrived shows
\* what its sensor last said, and nothing that another sensor said of it.
Converged == scene = "sessions" => TwoSensors!Converged

\* The two implementations of sensor health agree.
SensorsAgree == scene = "sessions" => TwoSensors!SensorsAgree

\* Recovery is planned for exactly the sessions that fell silent while they
\* were active: never for one that said it stopped.
OrphansSilent == scene = "orphans" => Orphans!OrphansSilent

\* What is known of a session's identity stays as it is while records arrive
\* in any order; a contradiction fails the snapshot and never replaces it.
IdentityKept == [][scene = "identified" => Identified!KnownKept]_records

\* Gemini repaints its prompt while it works: what is shown turns from active
\* to ready only after three prompts in a row or a cancelled request, and back
\* only after the same active reading twice in a row.
StableSwitch == Gemini!StableSwitch

\* Stabilising only delays: what is read three times in a row is shown.
Settles == scene = "gemini" => Gemini!Settles

\* Stored runs fit their trees, everyone sees the same verdicts, and reports, summaries
\* and pages agree with replay.
TracesAgree ==
  /\ RunsFit /\ SameVerdict /\ ConsensusFollowed /\ SummariesAgree /\ WalkMeets
  /\ ConflictsShown

\* What sensors and terminals report converges to what was last said.
SensorsConverge == Converged /\ SensorsAgree /\ OrphansSilent /\ Settles

\* No late record changes a verdict's history, an attempt, a session's identity, or
\* the shown state before it is stable.
HistoriesKept == VerdictsChain /\ AttemptsFixed /\ IdentityKept /\ StableSwitch
=============================================================================
