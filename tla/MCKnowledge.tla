---------------------------- MODULE MCKnowledge -----------------------------
(***************************************************************************)
(* Memories and their vector index, work episodes, reviewed identities and *)
(* the transcript catalogue for TLC. An initial state picks a scene: one   *)
(* component with the bounds of that scene; the other components stay as   *)
(* they are.                                                               *)
(***************************************************************************)
EXTENDS EmbeddingRefresh, Sequences

CONSTANT Scenes

VARIABLES
  scene,
  log, pager, stayed, ranking, rows,
  members, memory, windows, drafts,
  revisions, facts, dialogs, shown,
  catalog, imported

memVars == <<log, pager, stayed, ranking, rows>>
epiVars == <<members, memory, windows, drafts>>
idVars == <<revisions, facts, dialogs, shown>>
trVars == <<catalog, imported>>
mcVars == <<scene, vars, memVars, epiVars, idVars, trVars>>

-----------------------------------------------------------------------------
(* Memories: two that may cite each other at three times; a memory that    *)
(* two candidates compete for; candidates proposed and accepted in         *)
(* batches; two memories with readers; the stored rows.                     *)
Two == {"alice", "bob"}
Graph == INSTANCE Memories WITH
  NMemories <- 2, NCandidates <- 0, Principals <- Two, Scopes <- {"shared", "alice"},
  Shared <- "shared", Reviewers <- {"bob"}, Times <- {1, 2}, Relations <- {"source"},
  Signals <- {"judged"}, Commands <- {"record", "revise", "contribute", "forget"}, MaxLog <- 3
Candidates == INSTANCE Memories WITH
  NMemories <- 1, NCandidates <- 2, Principals <- Two, Scopes <- {"shared", "alice"},
  Shared <- "shared", Reviewers <- {"bob"}, Times <- {1, 2}, Relations <- {},
  Signals <- {"judged"}, MaxLog <- 4,
  Commands <- {"record", "propose", "candidate-support", "candidate-contribute", "accept",
               "reject", "forget", "feedback"}
Readers == INSTANCE Memories WITH
  NMemories <- 2, NCandidates <- 0, Principals <- {"alice"}, Scopes <- {"shared"},
  Shared <- "shared", Reviewers <- {"alice"}, Times <- {1, 2},
  Relations <- {"supersedes"},
  Signals <- {"judged"}, Commands <- {"record", "revise", "forget", "page", "rank"}, MaxLog <- 3
Batches == INSTANCE Memories WITH
  NMemories <- 2, NCandidates <- 2, Principals <- Two, Scopes <- {"shared", "alice"},
  Shared <- "shared", Reviewers <- {"bob"}, Times <- {1, 2}, Relations <- {},
  Signals <- {"judged"}, MaxLog <- 3, Commands <- {"batches", "record", "reject", "forget"}
Lists == INSTANCE Memories WITH
  NMemories <- 1, NCandidates <- 2, Principals <- Two, Scopes <- {"shared", "alice"},
  Shared <- "shared", Reviewers <- {"bob"}, Times <- {1, 2}, Relations <- {},
  Signals <- {"offered", "judged"}, MaxLog <- 3,
  Commands <- {"record", "revise", "contribute", "propose", "candidate-support", "accept",
               "reject", "forget"}

(* Episodes: memories of a space that are revised and forgotten while a    *)
(* window is synthesised; windows of two scopes by two writers.            *)
Open == [project |-> "p", space |-> "none", owner |-> "none"]
Space == [Open EXCEPT !.space = "s"]
Ann == [Open EXCEPT !.owner = "ann"]
Source(id, scope, m) == [id |-> id, scope |-> scope, memory |-> m]
Evidence == INSTANCE Episodes WITH
  Actors <- {"ann"}, Sources <- {Source("m", Space, "m")},
  Scopes <- {Space}, Windows <- {1, 2}, Routes <- {"synthesis"}, MaxRevision <- 2, log <- windows
Scoped == INSTANCE Episodes WITH
  Actors <- {"ann", "bob"}, Sources <- {Source("o", Open, "none"), Source("a", Ann, "none")},
  Scopes <- {Open, Ann}, Windows <- {1, 2}, Routes <- {"direct"}, MaxRevision <- 1, log <- windows

(* Identities: a person and its accounts under disagreeing clocks; aliases *)
(* that could close a circle while others record memories.                 *)
Entity(id, as, source, active) ==
  [kind |-> "entity", id |-> id, as |-> as, source |-> source, active |-> active, evidence |-> {}]
Attribution(active) ==
  [kind |-> "attribution", entity |-> "acc", person |-> "ada", active |-> active, evidence |-> {}]
Alias(alias, canonical, active) ==
  [kind |-> "alias", alias |-> alias, canonical |-> canonical, active |-> active, evidence |-> {}]
Project(id, shared) == [type |-> "project", id |-> id, project |-> id, shared |-> shared]
Mem(id, project, shared) == [type |-> "memory", id |-> id, project |-> project, shared |-> shared]
People == INSTANCE IdentityRevisions WITH
  Actors <- {"ann", "bob"}, Inside <- {"ann"}, Projects <- {}, Facts <- {}, Given <- {},
  Operations <- {Entity("ada", "person", "none", TRUE), Entity("ada", "person", "none", FALSE),
                 Entity("acc", "account", "github", TRUE), Entity("bot", "agent", "github", TRUE),
                 Attribution(TRUE), Attribution(FALSE)},
  MaxRevisions <- 3, MaxClock <- 1, log <- revisions
Aliases == INSTANCE IdentityRevisions WITH
  Actors <- {"ann", "bob"}, Inside <- {"ann"}, Projects <- {"p", "q", "r"},
  Given <- {Project("p", TRUE), Project("q", TRUE), Project("r", FALSE)},
  Facts <- {Mem("m", "p", FALSE), Mem("n", "q", TRUE)},
  Operations <- {Alias("p", "q", TRUE), Alias("q", "r", TRUE), Alias("r", "p", TRUE),
                 [Alias("p", "q", FALSE) EXCEPT !.evidence = {"n"}]},
  MaxRevisions <- 3, MaxClock <- 0, log <- revisions

(* Transcripts: chains of interpretations, true and forged; derivations of *)
(* two runs; a session that grew twice.                                    *)
Bundle(run, sha, parser, previous, root) ==
  [run |-> <<run>>, native |-> "n", sha |-> sha, parser |-> parser, project |-> "p", chunks |-> 1,
   previous |-> previous, root |-> root]
First == Bundle("r", "s1", "v1", <<>>, <<>>)
Chains == INSTANCE Transcripts WITH
  Bundles <- {First, Bundle("q", "s1", "v2", <<"r">>, <<"s1", "v1">>),
              Bundle("q", "s2", "v2", <<"r">>, <<"s1", "v1">>),
              Bundle("w", "s1", "v3", <<"q">>, <<"s1", "v1">>),
              Bundle("w", "s1", "v3", <<"q">>, <<"s1", "v2">>)},
  MaxChunks <- 0, MaxKey <- 11, MaxImports <- 4, Writers <- {"member"}, log <- catalog
Derivations == INSTANCE Transcripts WITH
  Bundles <- {First}, MaxChunks <- 2, MaxKey <- 8, MaxImports <- 2, Writers <- {"member", "outsider"}, log <- catalog
Snapshots == INSTANCE Transcripts WITH
  Bundles <- {First, Bundle("r", "s2", "v1", <<>>, <<>>)},
  MaxChunks <- 0, MaxKey <- 8, MaxImports <- 3, Writers <- {"member", "outsider"}, log <- catalog

(* The vector index: a memory with two revisions, one that does not fit    *)
(* beside them, and a provider with one slot.                              *)
Text(m, n, text, size) == [tenant |-> "t", memory |-> m, revision |-> n, text |-> text, bytes |-> size]
SomeTexts == {Text("a", 0, "x", 1), Text("a", 1, "y", 2), Text("b", 0, "z", 1)}
Ranked == {{Text("a", 0, "x", 1), Text("b", 0, "z", 1)}, {Text("a", 1, "y", 2)}}

-----------------------------------------------------------------------------
ASSUME Graph!MemoriesAssumption /\ Candidates!MemoriesAssumption
ASSUME Readers!MemoriesAssumption /\ Lists!MemoriesAssumption /\ Batches!MemoriesAssumption
ASSUME RefreshAssumption

MCInit ==
  /\ scene \in Scenes
  /\ Graph!Init
  /\ IF scene = "scopes" THEN Scoped!Init ELSE Evidence!Init
  /\ IF scene = "people" THEN People!Init ELSE Aliases!Init
  /\ Chains!Init
  /\ Init

(* Two writers race for the first window; later there is one draft at a time. *)
FewDrafts ==
  \A a, b \in DOMAIN drafts :
    a # b /\ windows # {} /\ drafts[a] = Scoped!None /\ drafts'[a] # Scoped!None => drafts[b] = Scoped!None

InMemories(A) == A /\ UNCHANGED <<scene, vars, epiVars, idVars, trVars>>
InEpisodes(A) == A /\ UNCHANGED <<scene, vars, memVars, idVars, trVars>>
InIdentities(A) == A /\ UNCHANGED <<scene, vars, memVars, epiVars, trVars>>
InTranscripts(A) == A /\ UNCHANGED <<scene, vars, memVars, epiVars, idVars>>
InIndex(A) == A /\ UNCHANGED <<scene, memVars, epiVars, idVars, trVars>>

MCNext ==
  \/ scene = "graph" /\ InMemories(Graph!Next /\ UNCHANGED rows)
  \/ scene = "candidates" /\ InMemories(Candidates!Next /\ UNCHANGED rows)
  \/ scene = "batches" /\ InMemories(Batches!Next /\ UNCHANGED rows)
  \/ scene = "readers" /\ InMemories(Readers!Next /\ UNCHANGED rows)
  \/ scene = "lists" /\ InMemories(Lists!NextStored)
  \/ scene = "evidence" /\ InEpisodes(Evidence!Next)
  \/ scene = "scopes" /\ InEpisodes(Scoped!Next) /\ FewDrafts
  \/ scene = "people" /\ InIdentities(People!Next)
  \/ scene = "aliases" /\ InIdentities(Aliases!Next)
  \/ scene = "chains" /\ InTranscripts(Chains!Next)
  \/ scene = "derivations" /\ InTranscripts(Derivations!Next)
  \/ scene = "snapshots" /\ InTranscripts(Snapshots!Next)
  \/ scene = "index" /\ InIndex(Next)

MCSpec == MCInit /\ [][MCNext]_mcVars

-----------------------------------------------------------------------------
\* No committed command makes a replay throw, neither of the whole log nor of the part
\* one principal sees: candidate commands replay only the candidates, and commands are
\* checked against one view (client.ts 594-606).
ViewsReplayable == scene \in {"graph", "candidates", "batches"} => Candidates!ViewsReplayable

\* Memories whose source references are all up to date never depend on each other in a
\* circle: currentness ends at the same answer from wherever it starts (project.ts 109-123).
NoDependencyCycle == scene = "graph" => Graph!NoDependencyCycle

\* A revision of a memory keeps its content once it exists: a citation (memory, revision)
\* means the same for ever, also when events are inserted before it (project.ts 22-26).
HistoryFixed == [][scene = "graph" => Graph!HistoryKept]_log

\* A forgotten memory stays forgotten and its id is never active again, not even through
\* the acceptance of a candidate, which does not look at forgotten ids (client.ts 1811).
ForgottenForever == [][(scene \in {"candidates", "batches"}) => Candidates!ForgottenKept]_log

\* A walk over the pages meets no memory twice, and meets every memory that could be
\* recalled all along, whatever is written meanwhile (client.ts 2162-2196).
PagesComplete == scene = "readers" => Readers!PagesComplete

\* No ranking returns a memory that was revised, forgotten, superseded or put in doubt
\* while the ranker ran (client.ts 2261-2266).
RankedFresh == Readers!RankedFresh

\* What the API lists is what is active in replay: no list shows a forgotten
\* memory, a decided candidate as pending, or a row of somebody else, although
\* the rows are read in ingestion order and replay sorts them by source time.
ListsActive == scene = "lists" => Lists!ListsActive

\* Both implementations of the data quality report count the same memories and
\* candidates.
ReportsAgree == scene = "lists" => Lists!ReportsAgree

\* An episode is shown only while every source that it, its earlier revisions
\* and the episodes they used or continue rest on is visible to the reader,
\* not forgotten, and the text that was summarised.
EvidenceCurrent == scene = "evidence" => Evidence!EvidenceCurrent

\* Whoever reads, and whatever they may not see, the windows they see replay:
\* no link leads from a scope into a narrower one.
VisibleReplays == scene = "scopes" => Scoped!VisibleReplays

\* Whatever the clocks of the processes that wrote them, the stored revisions
\* replay: rebuildIdentities never refuses the log, so no reader is locked out.
ChainReplays == scene = "people" => People!ChainReplays

\* An active attribution joins an active account, agent or machine to an
\* active person, however entities and attributions were revised since; and
\* an account is represented once.
AttributionsHold == scene = "people" => People!AttributionsHold

\* An alias moves exactly the projects and the memories that its administrator
\* was shown, although others record memories and revise aliases meanwhile.
PreviewHeld == scene = "aliases" => Aliases!PreviewHeld

\* All interpretations of a transcript, however long the chain, are of the
\* same source family: reprocessing cannot corroborate itself.
OneFamily == scene = "chains" => Chains!OneFamily

\* Whoever sees a derivation sees a gapless beginning of its chunks, so that
\* reading it never fails its integrity check.
DerivationsReadable == scene = "derivations" => Derivations!DerivationsReadable

\* An import that was answered is a no-op when it is repeated, whatever was
\* imported meanwhile, also of a session that grew and was imported again.
RetryNoop == scene = "snapshots" => Snapshots!RetryNoop

\* Whoever reads whatever part of the log, memories replay, depend on each other without
\* a circle, and are listed, counted and paged as replay has them; and so is what the
\* vector index of them still has to embed.
MemoriesReplay ==
  ViewsReplayable /\ NoDependencyCycle /\ PagesComplete /\ ListsActive /\ ReportsAgree /\ QueueAccounted

\* Episodes replay for every reader and rest on evidence that is still there; reviewed
\* identities replay, and mean what their administrator was shown.
ReviewedReplay ==
  EvidenceCurrent /\ VisibleReplays /\ ChainReplays /\ AttributionsHold /\ PreviewHeld

\* Transcripts keep their family, are readable, and retries store nothing new.
TranscriptsHold == OneFamily /\ DerivationsReadable /\ RetryNoop

\* What a memory was, and that it was forgotten, never changes; no ranking is stale.
PastKept == HistoryFixed /\ ForgottenForever /\ RankedFresh
=============================================================================
