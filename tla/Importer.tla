------------------------------ MODULE Importer ------------------------------
(***************************************************************************)
(* The importer (apps/importer/src).  Its first half is the transcript      *)
(* import: a session file is parsed, its redacted copy is published in the  *)
(* vault, and its metadata is delivered to the API, while the session still *)
(* grows, other importers run, answers are lost and processes die.  One     *)
(* session; its file is the number of its last append, and a hash is the    *)
(* value it stands for.  The catalogue behind the API is module             *)
(* Transcripts; here it is what the delivery code sees of it.               *)
(*                                                                         *)
(* Its second half is the historical reprocessing of retained transcripts   *)
(* (reprocess.ts): a runner locks its state directory, stages the derived   *)
(* evidence of each retained archive and posts a manifest and its chunks,   *)
(* starting after those that the API already holds.  Runners with           *)
(* directories of their own may work on the same runs; requests are handled *)
(* late or never, and runners die.  A derivation is named by the run and    *)
(* the two halves of the archive that its staging read.                     *)
(***************************************************************************)
EXTENDS Naturals, FiniteSets

CONSTANTS
  Importers,     \* import processes
  Policies,      \* redaction and reasoning options
  Legacy,        \* what earlier releases left: sets of entries
  MaxContent,    \* appends to the session file
  maxAttempts,   \* requests per delivery
  MaxImports     \* import commands
CONSTANTS
  Runners, Directories,    \* runners and their state directories
  Directory,     \* runner -> directory
  Runs,          \* 1..n: imported runs, in page order
  Chunks,        \* chunks of a derivation
  MaxVersion,    \* versions of an archive file
  MaxAttempts,   \* requests per record
  MaxCommands,
  NoRunner

\* Earlier releases recorded no checksums.
ASSUME ImporterAssumption ==
  /\ MaxContent \in Nat \ {0}
  /\ \A entries \in Legacy : \A e \in entries : e.content \in 1..MaxContent /\ e.policy \in Policies /\ e.sum = 0
  /\ Directory \in [Runners -> Directories] /\ NoRunner \notin Runners
  /\ Runs \subseteq Nat \ {0} /\ Chunks \in Nat \ {0}

VARIABLES
  source,      \* the session file
  vault,       \* content -> published copies (at most one)
  published,   \* files written so far: makes every ciphertext distinct
  catalog,     \* entries [id, content, version, policy, sum]
  importer,    \* importer -> its state
  posted,      \* requests the API has not handled yet
  results,     \* history: what the commands reported
  started      \* import commands so far
importVars == <<source, vault, published, catalog, importer, posted, results, started>>

VARIABLES
  retained,    \* run -> version of its retained file
  locks,       \* directory -> runner whose lock file it holds, or NoRunner
  runner,      \* runner -> its state
  manifests,   \* derivations whose manifest is recorded
  chunks,      \* <<derivation, sequence>>: chunks recorded
  wire,        \* <<derivation, sequence>> requests; sequence 0: the manifest
  completed,   \* history: derivations reported complete
  commands
reprocessVars == <<retained, locks, runner, manifests, chunks, wire, completed, commands>>

-----------------------------------------------------------------------------
(* Importing                                                               *)
PARSER_VERSION == 2
Base == <<"run">>
NoSum == 0
IdleImporter == [phase |-> "idle", content |-> 0, policy |-> "none", resume |-> FALSE, body |-> 0, sum |-> NoSum, attempt |-> 0, reply |-> "none"]
\* What an earlier release left in the vault for its entries.
LegacyVault(entries) ==
  [c \in 1..MaxContent |-> {[body |-> e.content, policy |-> e.policy, nonce |-> 0] : e \in {x \in entries : x.content = c}}]
ImportInit ==
  /\ source = 1 /\ published = 0 /\ posted = {} /\ results = {} /\ started = 0
  /\ \E entries \in Legacy : catalog = entries /\ vault = LegacyVault(entries)
  /\ importer = [p \in Importers |-> IdleImporter]

Report(p, verdict) ==
  /\ results' = results \cup {[content |-> importer[p].content, policy |-> importer[p].policy, verdict |-> verdict]}
  /\ importer' = [importer EXCEPT ![p] = IdleImporter]
ImporterGoes(p, phase) == importer' = [importer EXCEPT ![p].phase = phase]

\* The session is resumed and grows.
Grow == source < MaxContent /\ source' = source + 1 /\ UNCHANGED <<vault, published, catalog, importer, posted, results, started>>

-----------------------------------------------------------------------------
(* Scan and vault                                                          *)
\* The file is parsed; then size and time must not have changed around the hash.
scanTranscripts(p, policy, resume) ==
  /\ importer[p].phase = "idle" /\ started < MaxImports /\ started' = started + 1
  /\ importer' = [importer EXCEPT ![p] = [IdleImporter EXCEPT !.phase = "parsed", !.content = source, !.policy = policy, !.resume = resume]]
  /\ UNCHANGED <<source, vault, published, catalog, posted, results>>
artifactFor(p) ==
  /\ importer[p].phase = "parsed"
  /\ IF source = importer[p].content THEN ImporterGoes(p, "scanned") /\ UNCHANGED results ELSE Report(p, "changed")
  /\ UNCHANGED <<source, vault, published, catalog, posted, started>>
\* --resume: runs whose id is in the catalogue are skipped.
Resume(p) ==
  /\ importer[p].phase = "scanned"
  /\ IF importer[p].resume /\ \E e \in catalog : e.id = Base THEN Report(p, "skipped") ELSE ImporterGoes(p, "storing") /\ UNCHANGED results
  /\ UNCHANGED <<source, vault, published, catalog, posted, started>>
\* storeRedactedArtifact: the hash of the source is verified again ...
VerifySource(p) ==
  /\ importer[p].phase = "storing"
  /\ IF source = importer[p].content THEN ImporterGoes(p, "copying") /\ UNCHANGED results ELSE Report(p, "changed")
  /\ UNCHANGED <<source, vault, published, catalog, posted, started>>
\* ... its lines are redacted into a temporary file ...
CopyLines(p) ==
  /\ importer[p].phase = "copying"
  /\ importer' = [importer EXCEPT ![p].phase = "copied", ![p].body = source]
  /\ UNCHANGED <<source, vault, published, catalog, posted, results, started>>
\* ... which counts only if the source is still the same.
StillSame(p) == source = importer[p].content
\* The published bytes are hashed: an existing file keeps its own.
StoredSum(copy, mine) == copy.nonce
\* decryptedVaultSha256: the plain contents are compared.
Agree(copy, mine) == copy.body = mine.body /\ copy.policy = mine.policy
\* ... and it is linked to its final name unless that is taken.
publish(p) ==
  /\ importer[p].phase = "copied"
  /\ published' = published + 1
  /\ \E mine \in {[body |-> importer[p].body, policy |-> importer[p].policy, nonce |-> published + 1]} :
       LET there == vault[importer[p].content]
       IN \/ ~StillSame(p) /\ Report(p, "changed") /\ UNCHANGED vault
          \/ StillSame(p) /\ (\E copy \in there : ~Agree(copy, mine)) /\ Report(p, "other-copy") /\ UNCHANGED vault
          \/ /\ StillSame(p) /\ \A copy \in there : Agree(copy, mine)
             /\ vault' = [vault EXCEPT ![importer[p].content] = IF there = {} THEN {mine} ELSE there]
             /\ \E copy \in vault'[importer[p].content] :
                  importer' = [importer EXCEPT ![p].phase = "send", ![p].sum = StoredSum(copy, mine), ![p].attempt = 1]
             /\ UNCHANGED results
  /\ UNCHANGED <<source, catalog, posted, started>>

-----------------------------------------------------------------------------
(* Delivery                                                                *)
Bundle(p) == [from |-> p, content |-> importer[p].content, version |-> PARSER_VERSION, policy |-> importer[p].policy, sum |-> importer[p].sum,
              attempt |-> importer[p].attempt]
\* deliverTranscriptBundle: one request after another.
post(p) ==
  /\ importer[p].phase = "send"
  /\ posted' = posted \cup {Bundle(p)}
  /\ ImporterGoes(p, "waiting") /\ UNCHANGED <<source, vault, published, catalog, results, started>>
\* importTranscript, as module Transcripts has it: a run that changed becomes
\* a snapshot if its artifact is another one, and conflicts otherwise.
Entry(b, id) == [id |-> id, content |-> b.content, version |-> b.version, policy |-> b.policy, sum |-> b.sum]
SameRun(e, b) == e.content = b.content /\ e.version = b.version
SnapshotId(b) == <<"run", b.content>>
TargetId(b) == IF \E e \in catalog : e.id = Base /\ ~SameRun(e, b) THEN SnapshotId(b) ELSE Base
Conflicts(b) ==
  \/ \E e \in catalog : e.id = Base /\ ~SameRun(e, b) /\ e.content = b.content
  \/ \E e \in catalog : e.content = b.content /\ Entry(b, e.id) # e
  \/ \E e \in catalog : e.id = TargetId(b) /\ ~SameRun(e, b)
\* Mutant: other metadata for known bytes is no conflict.
AnswerLenient(b) == IF \E e \in catalog : e.content = b.content THEN "unchanged" ELSE "imported"
Answer(b) == IF Conflicts(b) THEN "conflict" ELSE IF Entry(b, TargetId(b)) \in catalog THEN "unchanged" ELSE "imported"
Waiting(b) == importer[b.from].phase = "waiting" /\ Bundle(b.from) = b
importTranscript(b) ==
  /\ catalog' = IF Answer(b) = "imported" THEN catalog \cup {Entry(b, TargetId(b))} ELSE catalog
  /\ posted' = posted \ {b}
  /\ importer' = IF Waiting(b) THEN [importer EXCEPT ![b.from].phase = "answered", ![b.from].reply = Answer(b)] ELSE importer
  /\ UNCHANGED <<source, vault, published, results, started>>
\* A timeout, a lost answer or a transient error: try again, a few times.
retry(p) ==
  /\ importer[p].phase \in {"waiting", "lookup"}
  /\ IF importer[p].attempt < maxAttempts
     THEN importer' = [importer EXCEPT ![p].phase = "send", ![p].attempt = @ + 1] /\ UNCHANGED results
     ELSE Report(p, "unreachable")
  /\ UNCHANGED <<source, vault, published, catalog, posted, started>>
answered(p) ==
  /\ importer[p].phase = "answered"
  /\ IF importer[p].reply = "conflict" THEN ImporterGoes(p, "lookup") /\ UNCHANGED results ELSE Report(p, importer[p].reply)
  /\ UNCHANGED <<source, vault, published, catalog, posted, started>>
\* An older interpretation of the same bytes, or the same one from before
\* checksums were recorded.
Retained(e, p) ==
  /\ e.content = importer[p].content
  /\ \/ e.version < PARSER_VERSION
     \/ e.version = PARSER_VERSION /\ e.sum = NoSum /\ importer[p].sum # NoSum /\ e.policy = importer[p].policy
\* retainedInterpretation: the run is looked up under the id it was sent with.
retainedInterpretation(p) ==
  /\ importer[p].phase = "lookup"
  /\ Report(p, IF \E e \in catalog : e.id = Base /\ Retained(e, p) THEN "retained" ELSE "conflict")
  /\ UNCHANGED <<source, vault, published, catalog, posted, started>>
ImporterDies(p) == importer[p].phase # "idle" /\ importer' = [importer EXCEPT ![p] = IdleImporter] /\ UNCHANGED <<source, vault, published, catalog, posted, results, started>>

ImportStep(p) ==
  \/ \E policy \in Policies, resume \in BOOLEAN : scanTranscripts(p, policy, resume)
  \/ artifactFor(p) \/ Resume(p) \/ VerifySource(p) \/ CopyLines(p) \/ publish(p)
  \/ post(p) \/ answered(p) \/ retry(p) \/ retainedInterpretation(p) \/ ImporterDies(p)
ImportNext ==
  \/ Grow
  \/ \E p \in Importers : ImportStep(p)
  \/ \E b \in posted : importTranscript(b)

-----------------------------------------------------------------------------
(* Reprocessing                                                            *)
IdleRunner == [phase |-> "idle", run |-> 0, first |-> 0, second |-> 0, sequence |-> 0, attempt |-> 0]
ReprocessInit ==
  /\ retained = [r \in Runs |-> 1] /\ locks = [d \in Directories |-> NoRunner] /\ runner = [p \in Runners |-> IdleRunner]
  /\ manifests = {} /\ chunks = {} /\ wire = {} /\ completed = {} /\ commands = 0

Derivation(p) == [run |-> runner[p].run, first |-> runner[p].first, second |-> runner[p].second]
RunnerGoes(p, phase) == runner' = [runner EXCEPT ![p].phase = phase]

\* The lock file is created exclusively.
reprocessTranscripts(p) ==
  /\ runner[p].phase = "idle" /\ commands < MaxCommands /\ commands' = commands + 1
  /\ locks[Directory[p]] = NoRunner /\ locks' = [locks EXCEPT ![Directory[p]] = p]
  /\ runner' = [runner EXCEPT ![p] = [IdleRunner EXCEPT !.phase = "next"]]
  /\ UNCHANGED <<retained, manifests, chunks, wire, completed>>
\* The next source of the page, or the end of the command.
NextSource(p) ==
  /\ runner[p].phase = "next"
  /\ \/ /\ runner[p].run + 1 \in Runs
        /\ runner' = [runner EXCEPT ![p] = [IdleRunner EXCEPT !.phase = "opened", !.run = runner[p].run + 1]]
        /\ UNCHANGED locks
     \/ /\ runner[p].run + 1 \notin Runs
        /\ runner' = [runner EXCEPT ![p] = IdleRunner] /\ locks' = [locks EXCEPT ![Directory[p]] = NoRunner]
  /\ UNCHANGED <<retained, manifests, chunks, wire, completed, commands>>
\* stageDerivation: the file is read line by line between two stats.
StageFirst(p) == /\ runner[p].phase = "opened"
                 /\ runner' = [runner EXCEPT ![p].phase = "half", ![p].first = retained[runner[p].run]]
                 /\ UNCHANGED <<retained, locks, manifests, chunks, wire, completed, commands>>
StageSecond(p) == /\ runner[p].phase = "half"
                  /\ runner' = [runner EXCEPT ![p].phase = "staged", ![p].second = retained[runner[p].run]]
                  /\ UNCHANGED <<retained, locks, manifests, chunks, wire, completed, commands>>
Stable(p) == retained[runner[p].run] = runner[p].first
stageDerivation(p) == /\ runner[p].phase = "staged"
                      /\ RunnerGoes(p, IF Stable(p) THEN "existing" ELSE "next")
                      /\ UNCHANGED <<retained, locks, manifests, chunks, wire, completed, commands>>

Stored(d) == {s \in 1..Chunks : <<d, s>> \in chunks}
Complete(d) == d \in manifests /\ Stored(d) = 1..Chunks
\* The chunks that the API holds are skipped.
FirstMissing(d) == Cardinality(Stored(d))
existing(p) ==
  /\ runner[p].phase = "existing"
  /\ \E d \in {Derivation(p)} :
       IF Complete(d)
       THEN completed' = completed \cup {d} /\ RunnerGoes(p, "next")
       ELSE UNCHANGED completed /\ runner' = [runner EXCEPT ![p].phase = "manifest", ![p].sequence = FirstMissing(d), ![p].attempt = 0]
  /\ UNCHANGED <<retained, locks, manifests, chunks, wire, commands>>

AllPosted(p) == runner[p].sequence >= Chunks
\* The request a runner is working on.
Request(p) == <<Derivation(p), IF runner[p].phase \in {"manifest", "wait-manifest"} THEN 0 ELSE runner[p].sequence + 1>>
request(p) ==
  /\ \/ runner[p].phase = "manifest" /\ RunnerGoes(p, "wait-manifest")
     \/ runner[p].phase = "chunk" /\ ~AllPosted(p) /\ RunnerGoes(p, "wait-chunk")
  /\ wire' = wire \cup {Request(p)}
  /\ UNCHANGED <<retained, locks, manifests, chunks, completed, commands>>
NextAttempt(p) == runner[p].attempt + 1
LastAttempt(p) == NextAttempt(p) >= MaxAttempts
\* A deadline, a lost answer or a transient error: again, or the run fails.
again(p) ==
  /\ runner[p].phase \in {"wait-manifest", "wait-chunk"}
  /\ runner' = [runner EXCEPT ![p].phase = IF LastAttempt(p) THEN "next" ELSE IF @ = "wait-manifest" THEN "manifest" ELSE "chunk",
                          ![p].attempt = IF LastAttempt(p) THEN 0 ELSE NextAttempt(p)]
  /\ UNCHANGED <<retained, locks, manifests, chunks, wire, completed, commands>>
\* recordTranscriptDerivation: a chunk needs its manifest and every earlier one.
Acceptable(q) == q[2] > 0 => q[1] \in manifests /\ \A s \in 1..q[2] - 1 : <<q[1], s>> \in chunks
Waits(p, q) == runner[p].phase \in {"wait-manifest", "wait-chunk"} /\ Request(p) = q
Answered(p, q) == IF ~Waits(p, q) THEN runner[p]
                  ELSE IF ~Acceptable(q) THEN [runner[p] EXCEPT !.phase = "next"]
                  ELSE [runner[p] EXCEPT !.phase = "chunk", !.attempt = 0, !.sequence = IF q[2] = 0 THEN @ ELSE @ + 1]
recordTranscriptDerivation(q) ==
  /\ wire' = wire \ {q}
  /\ IF Acceptable(q) THEN /\ manifests' = IF q[2] = 0 THEN manifests \cup {q[1]} ELSE manifests
                           /\ chunks' = IF q[2] > 0 THEN chunks \cup {q} ELSE chunks
     ELSE UNCHANGED <<manifests, chunks>>
  /\ runner' = [p \in Runners |-> Answered(p, q)]
  /\ UNCHANGED <<retained, locks, completed, commands>>
\* After the last chunk the run is reported complete.
Done(p) == /\ runner[p].phase = "chunk" /\ AllPosted(p)
           /\ completed' = completed \cup {Derivation(p)} /\ RunnerGoes(p, "next")
           /\ UNCHANGED <<retained, locks, manifests, chunks, wire, commands>>

Replace(r) == /\ retained[r] < MaxVersion /\ retained' = [retained EXCEPT ![r] = @ + 1]
              /\ UNCHANGED <<locks, runner, manifests, chunks, wire, completed, commands>>
\* A runner that dies leaves its lock; the operator removes it once the
\* process is gone.
RunnerDies(p) == /\ runner[p].phase # "idle" /\ runner' = [runner EXCEPT ![p] = IdleRunner]
          /\ UNCHANGED <<retained, locks, manifests, chunks, wire, completed, commands>>
RemoveLock(d) == /\ locks[d] # NoRunner /\ runner[locks[d]].phase = "idle" /\ locks' = [locks EXCEPT ![d] = NoRunner]
                 /\ UNCHANGED <<retained, runner, manifests, chunks, wire, completed, commands>>
RunnerStep(p) ==
  \/ NextSource(p) \/ StageFirst(p) \/ StageSecond(p) \/ stageDerivation(p)
  \/ existing(p) \/ request(p) \/ again(p) \/ Done(p)
ReprocessNext ==
  \/ \E p \in Runners : reprocessTranscripts(p) \/ RunnerStep(p) \/ RunnerDies(p)
  \/ \E q \in wire : recordTranscriptDerivation(q)
  \/ \E r \in Runs : Replace(r)
  \/ \E d \in Directories : RemoveLock(d)

-----------------------------------------------------------------------------
ImporterInit == ImportInit /\ ReprocessInit
ImporterNext == (ImportNext /\ UNCHANGED reprocessVars) \/ (ReprocessNext /\ UNCHANGED importVars)
ImporterSpec == ImporterInit /\ [][ImporterNext]_<<importVars, reprocessVars>>

-----------------------------------------------------------------------------
(* Properties                                                              *)
\* Every catalogued artifact with a checksum is in the vault: the very file
\* that was hashed, with exactly the bytes of the source that were hashed and
\* the policy that the catalogue claims for it.
VaultMatches ==
  \A e \in catalog : e.sum # NoSum =>
    \E copy \in vault[e.content] : copy.nonce = e.sum /\ copy.policy = e.policy /\ copy.body = e.content

\* A command that reports its session as delivered finds those bytes in the
\* catalogue, whoever delivered them and however many answers were lost.
ReportedStored ==
  \A r \in results :
    /\ r.verdict \in {"imported", "unchanged"} =>
         \E e \in catalog : e.content = r.content /\ e.version = PARSER_VERSION /\ e.policy = r.policy
    /\ r.verdict = "retained" => \E e \in catalog : e.content = r.content

\* A run reported complete has its manifest and all its chunks at the API,
\* whichever runner posted them and however often requests were repeated.
CompleteStored == \A d \in completed : Complete(d)

\* No recorded derivation mixes two versions of an archive.
OneArchive == \A d \in manifests : d.first = d.second

\* What importers and runners report is stored, whole and of one source.
ImportsStored == VaultMatches /\ ReportedStored /\ CompleteStored /\ OneArchive
=============================================================================
