------------------------------- MODULE MCApi --------------------------------
(***************************************************************************)
(* The fence around private directories, and what the API serves: requests, *)
(* identities and memberships, intentions and drives. An initial state     *)
(* picks a scene: one component with the bounds of that scene. The other    *)
(* components then stay as they are.                                        *)
(***************************************************************************)
EXTENDS PrivateFence, ApiRequests, Identity

CONSTANT Scenes

VARIABLES
  scene,
  decisions, work,
  elapsed, level, below, above, load, sample, healed

stVars == <<decisions, work>>
drVars == <<elapsed, level, below, above, load, sample, healed>>
mcVars == <<scene, vars, apiVars, identityVars, stVars, drVars>>

-----------------------------------------------------------------------------
(* Three tasks of three processes on one root, of which one seals it; with *)
(* the constants of the run itself two of them on two roots.               *)
Apart == [t1 |-> "p1", t2 |-> "p2", t3 |-> "p3"]
Reaping == INSTANCE PrivateFence WITH Roots <- {1}
OneSealer == \A t \in {"t1", "t2"} : kind'[t] = "write"
OnlyTwo == pc'["t3"] = "idle" /\ "p3" \in alive'

(* An operator without a list of capabilities, a reading agent, a writing  *)
(* capture service, a diagnostics credential and platform support.         *)
Reads == {"events:read", "memories:read", "reasoning:read", "trajectories:read",
          "transcripts:read", "consumers:read", "fleet:read", "steering:read"}
Capabilities ==
  [operator |-> Unscoped, reader |-> Reads,
   writer |-> {"events:write", "transcripts:write", "consumers:write", "memories:read",
               "memories:write", "trajectories:write", "task-outcomes:write"},
   probe |-> {"operations:read"}, support |-> {"platform:data-read"}]
Some(who) == [p \in who |-> Capabilities[p]]
Everyone == {"operator", "reader", "writer", "support"}
EveryCapability == Some(Everyone)
EveryRoute == DOMAIN Routes
Callers == {"operator", "probe"}
Providers == INSTANCE ApiRequests WITH
  Principals <- Callers, Scopes <- Some(Callers), Active <- {"operations", "synthesize", "revise"},
  MaxChanges <- 2

(* A bootstrap document that binds organizations and users, with some of   *)
(* them members; webhooks of two users; credentials of two machines. The    *)
(* constants of the run hold those of all three scenes.                    *)
Document(exts, users, people) ==
  [organizations |-> {[ext |-> x, org |-> <<"custom", x>>] : x \in exts},
   principals |-> {[ext |-> u, principal |-> <<"custom", u>>] : u \in users},
   memberships |-> {[org |-> <<"custom", x>>, ws |-> "w1", principal |-> <<"custom", u>>,
                     role |-> "admin"] : x \in exts, u \in people}]
Given(x) == <<"ext", x>>
TwoOrganizations == {Given("x1"), Given("x2")}
ThreeDocuments == {Document(TwoOrganizations, Users, Users),
                   Document(TwoOrganizations, Users, {}),
                   Document({Given("x1")}, Users, Users)}
Webhooks == INSTANCE Identity WITH
  Exts <- {Given("x1")}, Machines <- {}, Workspaces <- {"w1"}, Documents <- {}, MaxTime <- 1,
  MaxAdmin <- 0
Credentials == INSTANCE Identity WITH
  Exts <- {Given("x1")}, Users <- {}, Documents <- {}, MaxEvents <- 3, MaxInFlight <- 1
Documented == INSTANCE Identity WITH
  Machines <- {"m1"}, Workspaces <- {"w1"}, MaxEvents <- 2, MaxTime <- 1, MaxAdmin <- 1,
  MaxInFlight <- 1

(* Two drives of different tiers with the two kinds of drift; a meal feeds  *)
(* only the first.                                                         *)
Drives == [hunger |-> [tier |-> 1, level |-> 6, drift |-> "linear", rate |-> -3,
                       amount |-> [meal |-> 5, rest |-> 1]],
           calm |-> [tier |-> 2, level |-> 8, drift |-> "exponential", rate |-> 1,
                     amount |-> [meal |-> 0, rest |-> 6]]]
Entries == {"meal", "rest"}
Full == 10
Critical == 2
Recovery == 4
Saturation == 4
Horizon == 2
MaxElapsed == 4
MaxStep == 2

(* Two commands that race for one decision log.                            *)
Decisions == INSTANCE Steering WITH
  Actors <- {"a1"}, Candidates <- {"c1", "c2"}, Intentions <- {"i1", "i2"}, Commands <- {"x"},
  MaxCommitted <- 1, MaxTime <- 3, MaxEvents <- 4, log <- decisions
Race == INSTANCE Steering WITH
  Actors <- {"a1", "a2"}, Candidates <- {"c1", "c2"}, Intentions <- {"i1"}, Commands <- {"x", "y"},
  MaxCommitted <- 1, MaxTime <- 2, MaxEvents <- 3, log <- decisions

-----------------------------------------------------------------------------
ASSUME Reaping!FenceAssumption
ASSUME ApiAssumption /\ Providers!ApiAssumption
ASSUME /\ IdentityAssumption /\ Webhooks!IdentityAssumption
       /\ Credentials!IdentityAssumption /\ Documented!IdentityAssumption
ASSUME Decisions!SteeringAssumption /\ Race!SteeringAssumption /\ Decisions!ValidConfig

MCInit ==
  /\ scene \in Scenes
  /\ IF scene = "two roots" THEN Init ELSE Reaping!Init
  /\ IF scene = "routes" THEN ApiInit ELSE Providers!ApiInit
  /\ scene \in {"routes", "providers"} \/ \A p \in DOMAIN membership : membership[p] = NoAccess
  /\ IF scene = "documents" THEN Documented!IdentityInit ELSE Webhooks!IdentityInit
  /\ IF scene = "race" THEN Race!Init ELSE Decisions!Init
  /\ Decisions!DriveInit

InFence(A) == A /\ UNCHANGED <<scene, apiVars, identityVars, stVars, drVars>>
InApi(A) == A /\ UNCHANGED <<scene, vars, identityVars, stVars, drVars>>
InIdentity(A) == A /\ UNCHANGED <<scene, vars, apiVars, stVars, drVars>>
InSteering(A) == A /\ UNCHANGED <<scene, vars, apiVars, identityVars, drVars>>
InDrives(A) == A /\ UNCHANGED <<scene, vars, apiVars, identityVars, stVars>>

MCNext ==
  \/ scene = "reaping" /\ InFence(Reaping!Next) /\ OneSealer
  \/ scene = "two roots" /\ InFence(Next) /\ OnlyTwo
  \/ scene = "providers" /\ InApi(Providers!ApiNext)
  \/ scene = "routes" /\ InApi(ApiNext)
  \/ scene = "webhooks" /\ InIdentity(Webhooks!IdentityNext)
  \/ scene = "credentials" /\ InIdentity(Credentials!IdentityNext)
  \/ scene = "documents" /\ InIdentity(Documented!IdentityNext)
  \/ scene = "decisions" /\ InSteering(Decisions!Next)
  \/ scene = "race" /\ InSteering(Race!Next)
  \/ scene = "drives" /\ InDrives(Decisions!DriveNext)

MCSpec == MCInit /\ [][MCNext]_mcVars

-----------------------------------------------------------------------------
\* Every actor's stored decisions replay without an error, whoever recorded them in
\* whatever order and under whatever stamps: no accepted command makes steering
\* unreadable for the others (rebuildIntentions throws on the first bad event).
StoredReplays ==
  /\ scene = "decisions" => Decisions!StoredReplays
  /\ scene = "race" => Race!StoredReplays

\* What was decided stays decided: a candidate keeps its resolution, an intention that
\* has ended does not come back, and recorded actions are never lost, even when events
\* are later inserted before them.
DecisionsFinal == [][scene = "decisions" => Decisions!DecisionsKept]_decisions

\* The load that samples carry is the load of the trackers beside it: a runtime that
\* resumes from a sample reports what it would have computed.
LoadIsCurrent == scene = "drives" => Decisions!LoadIsCurrent

\* A drive's time in need is forgotten only after a whole recovery horizon in comfort
\* with no time in need between, however the comfort was interrupted.
WearForgiven == Decisions!WearForgiven

\* While time passes the chronic load goes down only by the comfort of some drive, and
\* goes up only by the need of some drive.
LoadHasCause == Decisions!LoadHasCause

\* What is stored of steering and drives replays to what was computed; decisions stay,
\* and wear and load change only for a cause.
DrivesReplay == [](StoredReplays /\ LoadIsCurrent) /\ DecisionsFinal /\ WearForgiven /\ LoadHasCause
=============================================================================
