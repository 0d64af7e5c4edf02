--------------------------- MODULE CaptureProofs ---------------------------
(***************************************************************************)
(* Proofs about the capture tools: what importers and runners report is    *)
(* stored (Importer), the fence around private directories excludes writers*)
(* from what a backup copies (PrivateFence), no acknowledged occurrence is *)
(* lost and each is applied once, in order (CaptureReceipts), and the spool*)
(* loses no job and keeps the order of events (CaptureSpool).              *)
(***************************************************************************)
EXTENDS Importer, PrivateFence, CaptureReceipts, CaptureSpool,
        FiniteSetsExt, FiniteSetTheorems, SequenceTheorems, WellFoundedInduction, TLAPS

-----------------------------------------------------------------------------
(***************************************************************************)
(* The transcript import.  An artifact is held if the vault has the very    *)
(* file whose checksum it was given, with its bytes and its policy.  What   *)
(* an importer copied lies between the bytes it hashed and the session      *)
(* file; so the copy has the hashed bytes when the file is still the same.  *)
(***************************************************************************)
ImporterState ==
  [phase : {"idle", "parsed", "scanned", "storing", "copying", "copied", "send", "waiting", "answered", "lookup"},
   content : Nat, policy : Policies \cup {"none"}, resume : BOOLEAN, body : Nat, sum : Nat, attempt : Nat,
   reply : {"none", "conflict", "unchanged", "imported"}]

Held(r) ==
  /\ r.content \in 1..MaxContent
  /\ r.sum # NoSum => \E copy \in vault[r.content] : copy.nonce = r.sum /\ copy.policy = r.policy /\ copy.body = r.content
InCatalog(content, policy) ==
  \E e \in catalog : e.content = content /\ e.version = PARSER_VERSION /\ e.policy = policy

ImportTypes ==
  /\ source \in 1..MaxContent /\ published \in Nat
  /\ vault \in [1..MaxContent -> SUBSET [body : Nat, policy : Policies, nonce : Nat]]
  /\ importer \in [Importers -> ImporterState]

ImporterOK(p) ==
  /\ importer[p].phase # "idle" =>
       importer[p].content \in 1..source /\ importer[p].policy \in Policies
  /\ importer[p].phase = "copied" => importer[p].content <= importer[p].body /\ importer[p].body <= source
  /\ importer[p].phase \in {"send", "waiting", "answered", "lookup"} => Held(importer[p])
  /\ importer[p].phase = "answered" /\ importer[p].reply \in {"imported", "unchanged"} =>
       InCatalog(importer[p].content, importer[p].policy)

ResultOK(r) ==
  /\ r.verdict \in {"imported", "unchanged"} => InCatalog(r.content, r.policy)
  /\ r.verdict = "retained" => \E e \in catalog : e.content = r.content

ImportInv ==
  /\ ImportTypes
  /\ \A e \in catalog : Held(e)
  /\ \A b \in posted : b.from \in Importers /\ Held(b)
  /\ \A p \in Importers : ImporterOK(p)
  /\ \A r \in results : ResultOK(r)

\* The initial state satisfies the invariant.
LEMMA InitImport == ASSUME ImporterAssumption, ImportInit PROVE ImportInv
<1>1. PICK entries \in Legacy : catalog = entries /\ vault = LegacyVault(entries)
    BY DEF ImportInit
<1>2. vault \in [1..MaxContent -> SUBSET [body : Nat, policy : Policies, nonce : Nat]]
    BY <1>1 DEF LegacyVault, ImporterAssumption
<1>3. \A e \in catalog : Held(e)
    BY <1>1 DEF ImporterAssumption, Held, NoSum
<1>4. QED
    BY <1>2, <1>3 DEF ImportInit, ImportInv, ImportTypes, ImporterState, ImporterOK, IdleImporter, ImporterAssumption, NoSum

\* The session, the vault and the catalogue only grow.
Grew ==
  /\ source <= source' /\ catalog \subseteq catalog'
  /\ \A c \in 1..MaxContent : vault[c] \subseteq vault'[c]

\* What is in the vault and in the catalogue stays there.
LEMMA HeldStays == ASSUME Grew, NEW r, Held(r) PROVE Held(r)'
    BY DEF Grew, Held
LEMMA CatalogStays == ASSUME Grew, NEW c, NEW y, InCatalog(c, y) PROVE InCatalog(c, y)'
    BY DEF Grew, InCatalog
LEMMA ResultStays == ASSUME Grew, NEW r, ResultOK(r) PROVE ResultOK(r)'
    BY DEF Grew, ResultOK, InCatalog
LEMMA ImporterStays ==
    ASSUME Grew, ImportTypes, ImportTypes', NEW p \in Importers, ImporterOK(p), importer'[p] = importer[p]
    PROVE  ImporterOK(p)'
    BY DEF Grew, ImportTypes, ImporterState, ImporterOK, Held, InCatalog

\* A step of one importer that leaves the catalogue.
LEMMA StepKeeps ==
    ASSUME ImportInv, Grew, ImportTypes', catalog' = catalog, NEW p \in Importers,
           \A x \in Importers : x # p => importer'[x] = importer[x], ImporterOK(p)',
           \A b \in posted' : b \in posted \/ (b.from \in Importers /\ Held(b)),
           \A r \in results' : r \in results \/ ResultOK(r)
    PROVE  ImportInv'
<1>1. \A e \in catalog' : Held(e)'
    BY HeldStays DEF ImportInv
<1>2. \A b \in posted' : b.from \in Importers /\ Held(b)'
    BY HeldStays DEF ImportInv
<1>3. \A x \in Importers : ImporterOK(x)'
    BY ImporterStays DEF ImportInv
<1>4. \A r \in results' : ResultOK(r)'
    BY ResultStays DEF ImportInv
<1>5. QED
    BY <1>1, <1>2, <1>3, <1>4 DEF ImportInv

\* A report that is true, and the end of the command.
LEMMA ReportKeeps ==
    ASSUME ImportInv, NEW p \in Importers, NEW verdict, Report(p, verdict),
           verdict \in {"imported", "unchanged"} => InCatalog(importer[p].content, importer[p].policy),
           verdict = "retained" => \E e \in catalog : e.content = importer[p].content,
           Grew, catalog' = catalog, source' = source, vault' = vault, published' \in Nat, posted' = posted
    PROVE  ImportInv'
<1>1. importer' = [importer EXCEPT ![p] = IdleImporter] /\ IdleImporter \in ImporterState
    BY DEF Report, IdleImporter, ImporterState, NoSum
<1>2. ImportTypes'
    BY <1>1 DEF ImportInv, ImportTypes
<1>3. ImporterOK(p)'
    BY <1>1 DEF ImporterOK, IdleImporter, ImportInv, ImportTypes
<1>4. \A r \in results' : r \in results \/ ResultOK(r)
    BY DEF Report, ResultOK
<1>5. \A x \in Importers : x # p => importer'[x] = importer[x]
    BY <1>1 DEF ImportInv, ImportTypes
<1>6. QED
    BY <1>2, <1>3, <1>4, <1>5, StepKeeps DEF ImportInv

\* A step to another phase that promises nothing new.
LEMMA GoesKeeps ==
    ASSUME ImportInv, NEW p \in Importers, NEW to \in {"scanned", "storing", "copying", "waiting", "lookup"},
           ImporterGoes(p, to), importer[p].phase # "idle",
           to \in {"waiting", "lookup"} => importer[p].phase \in {"send", "answered"},
           \A b \in posted' : b \in posted \/ (b.from \in Importers /\ Held(b)),
           UNCHANGED <<source, vault, published, catalog, results>>
    PROVE  ImportInv'
<1>1. importer' = [importer EXCEPT ![p].phase = to]
    BY DEF ImporterGoes
<1>2. importer'[p] = [importer[p] EXCEPT !.phase = to] /\ importer[p] \in ImporterState
    BY <1>1 DEF ImportInv, ImportTypes
<1>3. Grew
    BY DEF Grew, ImportInv, ImportTypes
<1>4. ImportTypes'
    BY <1>1, <1>2 DEF ImportInv, ImportTypes, ImporterState
<1>5. ImporterOK(p)'
    BY <1>2 DEF ImporterOK, ImportInv, ImporterState, Held
<1>6. \A x \in Importers : x # p => importer'[x] = importer[x]
    BY <1>1 DEF ImportInv, ImportTypes
<1>7. QED
    BY <1>3, <1>4, <1>5, <1>6, StepKeeps DEF ImportInv

\* The session grows.
LEMMA GrowImport == ASSUME ImportInv, ImporterAssumption, Grow PROVE ImportInv'
<1>1. Grew /\ ImportTypes'
    BY DEF Grow, Grew, ImportInv, ImportTypes, ImporterAssumption
<1>2. \A e \in catalog' : Held(e)'
    BY <1>1, HeldStays DEF ImportInv, Grow
<1>3. \A b \in posted' : b.from \in Importers /\ Held(b)'
    BY <1>1, HeldStays DEF ImportInv, Grow
<1>4. \A x \in Importers : ImporterOK(x)'
    BY <1>1, ImporterStays DEF ImportInv, Grow
<1>5. \A r \in results' : ResultOK(r)'
    BY <1>1, ResultStays DEF ImportInv, Grow
<1>6. QED
    BY <1>1, <1>2, <1>3, <1>4, <1>5 DEF ImportInv

\* A command parses the session.
LEMMA ScanImport ==
    ASSUME ImportInv, NEW p \in Importers, NEW policy \in Policies, NEW resume \in BOOLEAN, scanTranscripts(p, policy, resume)
    PROVE  ImportInv'
<1>1. importer' = [importer EXCEPT ![p] = [IdleImporter EXCEPT !.phase = "parsed", !.content = source, !.policy = policy, !.resume = resume]]
    BY DEF scanTranscripts
<1>2. Grew /\ UNCHANGED <<source, vault, published, catalog, posted, results>>
    BY DEF scanTranscripts, Grew, ImportInv, ImportTypes
<1>3. ImportTypes'
  <2>1. source \in Nat
      BY DEF ImportInv, ImportTypes
  <2>2. [IdleImporter EXCEPT !.phase = "parsed", !.content = source, !.policy = policy, !.resume = resume] \in ImporterState
      BY <2>1 DEF ImporterState, IdleImporter, NoSum
  <2>3. QED
      BY <1>1, <1>2, <2>2 DEF ImportInv, ImportTypes
<1>4. ImporterOK(p)'
    BY <1>1, <1>2 DEF ImporterOK, IdleImporter, ImportInv, ImportTypes
<1>5. \A x \in Importers : x # p => importer'[x] = importer[x]
    BY <1>1 DEF ImportInv, ImportTypes
<1>6. QED
    BY <1>2, <1>3, <1>4, <1>5, StepKeeps DEF ImportInv

\* The hashes around the scan and before the copy.
LEMMA CheckImport ==
    ASSUME ImportInv, NEW p \in Importers, artifactFor(p) \/ Resume(p) \/ VerifySource(p)
    PROVE  ImportInv'
<1>1. UNCHANGED <<source, vault, published, catalog, posted>>
    BY DEF artifactFor, Resume, VerifySource
<1>2. Grew /\ published' \in Nat
    BY <1>1 DEF Grew, ImportInv, ImportTypes
<1>3. \/ \E verdict \in {"changed", "skipped"} : Report(p, verdict)
      \/ \E to \in {"scanned", "storing", "copying"} : ImporterGoes(p, to) /\ importer[p].phase # "idle" /\ UNCHANGED results
    BY DEF artifactFor, Resume, VerifySource
<1>4. QED
    BY <1>1, <1>2, <1>3, ReportKeeps, GoesKeeps DEF ImportInv

\* The lines are copied from what the session file is now.
LEMMA CopyImport == ASSUME ImportInv, NEW p \in Importers, CopyLines(p) PROVE ImportInv'
<1>1. importer' = [importer EXCEPT ![p].phase = "copied", ![p].body = source]
    BY DEF CopyLines
<1>2. importer'[p] = [importer[p] EXCEPT !.phase = "copied", !.body = source] /\ importer[p] \in ImporterState
    BY <1>1 DEF ImportInv, ImportTypes
<1>3. Grew /\ UNCHANGED <<source, vault, published, catalog, posted, results>>
    BY DEF CopyLines, Grew, ImportInv, ImportTypes
<1>4. ImportTypes'
  <2>1. source \in Nat
      BY DEF ImportInv, ImportTypes
  <2>2. [importer[p] EXCEPT !.phase = "copied", !.body = source] \in ImporterState
      BY <1>2, <2>1 DEF ImporterState
  <2>3. QED
      BY <1>1, <1>2, <1>3, <2>2 DEF ImportInv, ImportTypes
<1>5. ImporterOK(p)'
  <2>1. /\ importer'[p].phase = "copied" /\ importer'[p].body = source
        /\ importer'[p].content = importer[p].content /\ importer'[p].policy = importer[p].policy
      BY <1>2 DEF ImporterState
  <2>2. importer[p].phase = "copying"
      BY DEF CopyLines
  <2>3. importer[p].content \in 1..source /\ importer[p].policy \in Policies
      BY <2>2 DEF ImportInv, ImporterOK
  <2>4. source \in Nat
      BY DEF ImportInv, ImportTypes
  <2>5. QED
      BY <1>3, <2>1, <2>3, <2>4 DEF ImporterOK
<1>6. \A x \in Importers : x # p => importer'[x] = importer[x]
    BY <1>1 DEF ImportInv, ImportTypes
<1>7. QED
    BY <1>3, <1>4, <1>5, <1>6, StepKeeps DEF ImportInv

\* The copy is published if the source is still the same: then it has the
\* bytes that were hashed, and so has a copy that is there already.
LEMMA PublishImport == ASSUME ImportInv, NEW p \in Importers, publish(p) PROVE ImportInv'
<1> DEFINE mine == [body |-> importer[p].body, policy |-> importer[p].policy, nonce |-> published + 1]
           there == vault[importer[p].content]
<1>1. importer[p] \in ImporterState /\ importer[p].content \in 1..source /\ importer[p].policy \in Policies
      /\ importer[p].content <= importer[p].body /\ importer[p].body <= source
    BY DEF ImportInv, ImportTypes, ImporterOK, publish
<1>2. UNCHANGED <<source, catalog, posted, started>> /\ published' = published + 1
    BY DEF publish
<1>20. published' \in Nat
    BY <1>2 DEF ImportInv, ImportTypes
<1>3. CASE \E verdict \in {"changed", "other-copy"} : Report(p, verdict) /\ UNCHANGED vault
  <2>1. Grew
      BY <1>2, <1>3 DEF Grew, ImportInv, ImportTypes
  <2>2. QED
      BY <1>20, <1>2, <1>3, <2>1, ReportKeeps
<1>4. CASE /\ StillSame(p) /\ \A copy \in there : Agree(copy, mine)
           /\ vault' = [vault EXCEPT ![importer[p].content] = IF there = {} THEN {mine} ELSE there]
           /\ \E copy \in vault'[importer[p].content] :
                importer' = [importer EXCEPT ![p].phase = "send", ![p].sum = StoredSum(copy, mine), ![p].attempt = 1]
           /\ UNCHANGED results
  <2>1. importer[p].content \in 1..MaxContent /\ importer[p].body = importer[p].content
      BY <1>1, <1>4 DEF StillSame, ImportInv, ImportTypes, ImporterState
  <2>2. mine \in [body : Nat, policy : Policies, nonce : Nat]
      BY <1>1 DEF ImportInv, ImportTypes, ImporterState
  <2>3. vault'[importer[p].content] = IF there = {} THEN {mine} ELSE there
      BY <1>4, <2>1 DEF ImportInv, ImportTypes
  <2>4. PICK copy \in vault'[importer[p].content] :
          importer' = [importer EXCEPT ![p].phase = "send", ![p].sum = copy.nonce, ![p].attempt = 1]
      BY <1>4 DEF StoredSum
  <2>5. copy \in [body : Nat, policy : Policies, nonce : Nat] /\ Agree(copy, mine)
      BY <1>4, <2>1, <2>2, <2>3 DEF Agree, ImportInv, ImportTypes
  <2>6. importer'[p] = [importer[p] EXCEPT !.phase = "send", !.sum = copy.nonce, !.attempt = 1]
      BY <2>4 DEF ImportInv, ImportTypes
  <2>7. Grew
      BY <1>2, <1>4, <2>1 DEF Grew, ImportInv, ImportTypes
  <2>8. vault' \in [1..MaxContent -> SUBSET [body : Nat, policy : Policies, nonce : Nat]]
      BY <1>4, <2>1, <2>2 DEF ImportInv, ImportTypes
  <2>9. importer' \in [Importers -> ImporterState]
      BY <1>1, <2>4, <2>5 DEF ImportInv, ImportTypes, ImporterState
  <2>10. Held(importer[p])'
      BY <1>1, <2>1, <2>5, <2>6 DEF Held, Agree, ImporterState
  <2>11. ImporterOK(p)'
      BY <1>1, <1>2, <2>6, <2>10 DEF ImporterOK, ImporterState
  <2>12. \A x \in Importers : x # p => importer'[x] = importer[x]
      BY <2>4 DEF ImportInv, ImportTypes
  <2>13. QED
      BY <1>20, <1>2, <1>4, <2>7, <2>8, <2>9, <2>11, <2>12, StepKeeps DEF ImportInv, ImportTypes
<1>5. QED
    BY <1>3, <1>4 DEF publish

\* A request carries what its importer holds.
LEMMA PostImport == ASSUME ImportInv, NEW p \in Importers, post(p) PROVE ImportInv'
<1>1. Held(Bundle(p)) /\ Bundle(p).from = p
    BY DEF post, Bundle, ImportInv, ImporterOK, Held
<1>2. QED
    BY <1>1, GoesKeeps DEF post, ImportInv

\* The API catalogues what a request holds; who waits for it learns the answer.
LEMMA StoreImport == ASSUME ImportInv, NEW b \in posted, importTranscript(b) PROVE ImportInv'
<1>1. b.from \in Importers /\ Held(b) /\ UNCHANGED <<source, vault, published, results>> /\ Grew
    BY DEF ImportInv, ImportTypes, importTranscript, Grew
<1>2. Answer(b) \in {"conflict", "unchanged", "imported"}
    BY DEF Answer
<1>3. Answer(b) # "conflict" => Entry(b, TargetId(b)) \in catalog'
    BY DEF importTranscript, Answer
<1>4. \/ importer' = [importer EXCEPT ![b.from].phase = "answered", ![b.from].reply = Answer(b)] /\ Waiting(b)
      \/ importer' = importer
    BY DEF importTranscript
<1>5. ImportTypes'
  <2>1. importer[b.from] \in ImporterState
      BY <1>1 DEF ImportInv, ImportTypes
  <2>2. [importer[b.from] EXCEPT !.phase = "answered", !.reply = Answer(b)] \in ImporterState
      BY <1>2, <2>1 DEF ImporterState
  <2>3. QED
      BY <1>1, <1>4, <2>2 DEF ImportInv, ImportTypes
<1>6. \A e \in catalog' : Held(e)'
  <2>1. Held(Entry(b, TargetId(b)))
      BY <1>1 DEF Held, Entry
  <2>2. \A e \in catalog' : Held(e)
      BY <2>1 DEF importTranscript, ImportInv
  <2>3. QED
      BY <2>2, <1>1, HeldStays
<1>7. \A c \in posted' : c.from \in Importers /\ Held(c)'
    BY <1>1, HeldStays DEF ImportInv, importTranscript
<1>8. \A r \in results' : ResultOK(r)'
    BY <1>1, ResultStays DEF ImportInv
<1>9. ASSUME NEW p \in Importers PROVE ImporterOK(p)'
  <2>1. CASE importer'[p] = importer[p]
      BY <2>1, <1>1, <1>5, <1>9, ImporterStays DEF ImportInv
  <2>2. CASE p = b.from /\ importer'[p] = [importer[p] EXCEPT !.phase = "answered", !.reply = Answer(b)] /\ Waiting(b)
    <3>1. importer[p].phase = "waiting" /\ importer[p] \in ImporterState /\ Held(importer[p]) /\ ImporterOK(p)
        BY <2>2, <1>9 DEF Waiting, ImportInv, ImportTypes, ImporterOK
    <3>2. b.content = importer[p].content /\ b.policy = importer[p].policy /\ b.version = PARSER_VERSION
        BY <2>2 DEF Waiting, Bundle
    <3>3. Answer(b) # "conflict" => InCatalog(importer[p].content, importer[p].policy)'
        BY <1>3, <2>2, <3>1, <3>2 DEF InCatalog, Entry, ImporterState
    <3>4. Held(importer[p])'
        BY <1>1, <2>2, <3>1 DEF Held, ImporterState
    <3>5. QED
        BY <1>1, <1>2, <2>2, <3>1, <3>3, <3>4 DEF ImporterOK, ImporterState
  <2>3. QED
      BY <1>4, <2>1, <2>2 DEF ImportInv, ImportTypes
<1>10. QED
    BY <1>5, <1>6, <1>7, <1>8, <1>9 DEF ImportInv

\* An importer tries again, or gives up.
LEMMA RetryImport == ASSUME ImportInv, NEW p \in Importers, retry(p) PROVE ImportInv'
<1>1. Grew /\ UNCHANGED <<source, vault, published, catalog, posted>> /\ published' \in Nat
    BY DEF retry, Grew, ImportInv, ImportTypes
<1>2. CASE importer' = [importer EXCEPT ![p].phase = "send", ![p].attempt = @ + 1] /\ UNCHANGED results
  <2>1. importer'[p] = [importer[p] EXCEPT !.phase = "send", !.attempt = @ + 1] /\ importer[p] \in ImporterState
      BY <1>2 DEF ImportInv, ImportTypes
  <2>2. ImportTypes'
      BY <1>1, <1>2, <2>1 DEF ImportInv, ImportTypes, ImporterState
  <2>3. ImporterOK(p)'
      BY <1>1, <2>1 DEF ImporterOK, ImportInv, ImporterState, Held, retry
  <2>4. \A x \in Importers : x # p => importer'[x] = importer[x]
      BY <1>2 DEF ImportInv, ImportTypes
  <2>5. QED
      BY <1>1, <1>2, <2>2, <2>3, <2>4, StepKeeps DEF ImportInv
<1>3. CASE Report(p, "unreachable")
    BY <1>1, <1>3, ReportKeeps
<1>4. QED
    BY <1>2, <1>3 DEF retry

\* An answer is reported, or a conflict looked into.
LEMMA AnsweredImport == ASSUME ImportInv, NEW p \in Importers, answered(p) PROVE ImportInv'
<1>1. Grew /\ UNCHANGED <<source, vault, published, catalog, posted>> /\ published' \in Nat
    BY DEF answered, Grew, ImportInv, ImportTypes
<1>2. CASE ImporterGoes(p, "lookup") /\ UNCHANGED results
    BY <1>1, <1>2, GoesKeeps DEF answered, ImportInv
<1>3. CASE Report(p, importer[p].reply)
  <2>1. importer[p].reply \in {"imported", "unchanged"} => InCatalog(importer[p].content, importer[p].policy)
      BY DEF answered, ImportInv, ImporterOK
  <2>2. importer[p].reply # "retained"
      BY DEF ImportInv, ImportTypes, ImporterState
  <2>3. QED
      BY <1>1, <1>3, <2>1, <2>2, ReportKeeps
<1>4. QED
    BY <1>2, <1>3 DEF answered

\* A conflict with an older interpretation of the same bytes.
LEMMA RetainedImport == ASSUME ImportInv, NEW p \in Importers, retainedInterpretation(p) PROVE ImportInv'
<1>1. Grew /\ UNCHANGED <<source, vault, published, catalog, posted>> /\ published' \in Nat
    BY DEF retainedInterpretation, Grew, ImportInv, ImportTypes
<1>2. CASE Report(p, "conflict")
    BY <1>1, <1>2, ReportKeeps
<1>3. CASE Report(p, "retained") /\ \E e \in catalog : e.content = importer[p].content
    BY <1>1, <1>3, ReportKeeps
<1>4. QED
    BY <1>2, <1>3 DEF retainedInterpretation, Retained

\* An importer dies; what it did stays.
LEMMA DieImport == ASSUME ImportInv, NEW p \in Importers, ImporterDies(p) PROVE ImportInv'
<1>1. importer' = [importer EXCEPT ![p] = IdleImporter] /\ IdleImporter \in ImporterState
    BY DEF ImporterDies, IdleImporter, ImporterState, NoSum
<1>2. Grew /\ UNCHANGED <<source, vault, published, catalog, posted, results>>
    BY DEF ImporterDies, Grew, ImportInv, ImportTypes
<1>3. ImportTypes'
    BY <1>1, <1>2 DEF ImportInv, ImportTypes
<1>4. ImporterOK(p)'
    BY <1>1 DEF ImporterOK, IdleImporter, ImportInv, ImportTypes
<1>5. \A x \in Importers : x # p => importer'[x] = importer[x]
    BY <1>1 DEF ImportInv, ImportTypes
<1>6. QED
    BY <1>2, <1>3, <1>4, <1>5, StepKeeps DEF ImportInv

\* Every step of the import preserves the invariant.
LEMMA NextImport ==
    ASSUME ImportInv, ImporterAssumption, ImportNext \/ UNCHANGED importVars PROVE ImportInv'
<1>1. CASE UNCHANGED importVars
    BY <1>1 DEF importVars, ImportInv, ImportTypes, ImporterOK, Held, InCatalog, ResultOK
<1>2. CASE Grow
    BY <1>2, GrowImport
<1>3. CASE \E b \in posted : importTranscript(b)
    BY <1>3, StoreImport
<1>4. ASSUME NEW p \in Importers, ImportStep(p) PROVE ImportInv'
    BY <1>4, ScanImport, CheckImport, CopyImport, PublishImport, PostImport, AnsweredImport, RetryImport,
       RetainedImport, DieImport DEF ImportStep
<1>5. QED
    BY <1>1, <1>2, <1>3, <1>4 DEF ImportNext

-----------------------------------------------------------------------------
(***************************************************************************)
(* The reprocessing.  The API holds a prefix of the chunks of a derivation  *)
(* whose manifest it has, and a runner that posts a derivation knows of a   *)
(* prefix of it.  A derivation that is posted was staged from one version:  *)
(* versions only grow, and the last one read is the first one again.        *)
(***************************************************************************)
RunnerState ==
  [phase : {"idle", "next", "opened", "half", "staged", "existing", "manifest", "wait-manifest", "chunk", "wait-chunk"},
   run : Nat, first : Nat, second : Nat, sequence : Nat, attempt : Nat]
Derivations == [run : Nat, first : Nat, second : Nat]
Posting == {"manifest", "wait-manifest", "chunk", "wait-chunk"}

ReprocessTypes ==
  /\ retained \in [Runs -> Nat] /\ runner \in [Runners -> RunnerState]
  /\ manifests \subseteq Derivations /\ chunks \subseteq Derivations \X Nat /\ wire \subseteq Derivations \X Nat

Prefix(d, n) == \A s \in 1..n : <<d, s>> \in chunks
RunnerOK(p) ==
  /\ runner[p].phase \notin {"idle", "next"} => runner[p].run \in Runs
  /\ runner[p].phase = "half" => runner[p].first <= retained[runner[p].run]
  /\ runner[p].phase = "staged" => runner[p].first <= runner[p].second /\ runner[p].second <= retained[runner[p].run]
  /\ runner[p].phase \in Posting \cup {"existing"} => runner[p].first = runner[p].second
  /\ runner[p].phase \in Posting => Prefix(Derivation(p), runner[p].sequence)
  /\ runner[p].phase \in {"chunk", "wait-chunk"} => Derivation(p) \in manifests

ReprocessInv ==
  /\ ReprocessTypes
  /\ \A q \in wire : q[1].first = q[1].second
  /\ \A q \in chunks : Prefix(q[1], q[2])
  /\ \A p \in Runners : RunnerOK(p)
  /\ CompleteStored
  /\ OneArchive

\* The initial state satisfies the invariant.
LEMMA InitReprocess == ASSUME ReprocessInit PROVE ReprocessInv
    BY DEF ReprocessInit, ReprocessInv, ReprocessTypes, RunnerState, RunnerOK, IdleRunner, CompleteStored, OneArchive, Posting

\* The chunks of a derivation are counted: so many of its first are there.
LEMMA FirstMissingPrefix ==
    ASSUME ReprocessInv, ImporterAssumption, NEW d PROVE FirstMissing(d) \in Nat /\ Prefix(d, FirstMissing(d))
<1> DEFINE n == FirstMissing(d)
<1>1. IsFiniteSet(1..Chunks) /\ Stored(d) \subseteq 1..Chunks
    BY FS_Interval DEF ImporterAssumption, Stored
<1>2. IsFiniteSet(Stored(d)) /\ n \in Nat
    BY <1>1, FS_Subset, FS_CardinalityType DEF FirstMissing
<1>3. ASSUME NEW j \in 1..n, <<d, j>> \notin chunks PROVE FALSE
  <2>1. \A s \in Stored(d) : s < j
      BY <1>2, <1>3 DEF Stored, ReprocessInv, Prefix
  <2>2. Stored(d) \subseteq 1..(j - 1)
      BY <2>1, <1>2, <1>3 DEF Stored
  <2>3. IsFiniteSet(1..(j - 1)) /\ Cardinality(1..(j - 1)) = j - 1
    <3> DEFINE m == j - 1
    <3>1. m \in Nat
        BY <1>2, <1>3
    <3> HIDE DEF m
    <3>2. IsFiniteSet(1..m) /\ Cardinality(1..m) = m
        BY <3>1, FS_Interval
    <3>3. QED
        BY <3>2 DEF m
  <2>4. n <= j - 1
      BY <2>2, <2>3, FS_Subset DEF FirstMissing
  <2>5. QED
      BY <2>4, <1>2, <1>3
<1>4. QED
    BY <1>2, <1>3 DEF Prefix

\* A runner that posted all chunks has completed its derivation.
LEMMA AllPostedComplete ==
    ASSUME ReprocessInv, ImporterAssumption, NEW p \in Runners, runner[p].phase = "chunk", AllPosted(p)
    PROVE  Complete(Derivation(p))
    BY DEF ReprocessInv, ReprocessTypes, RunnerState, RunnerOK, Posting, AllPosted, Complete, Stored, Prefix, ImporterAssumption

\* What the API holds and the versions of the archives only grow.
Recorded ==
  /\ manifests \subseteq manifests' /\ chunks \subseteq chunks'
  /\ \A r \in Runs : retained[r] <= retained'[r]
LEMMA RunnerStays ==
    ASSUME Recorded, ReprocessTypes, ReprocessTypes', NEW p \in Runners, RunnerOK(p), runner'[p] = runner[p]
    PROVE  RunnerOK(p)'
    BY DEF Recorded, ReprocessTypes, RunnerState, RunnerOK, Prefix, Derivation, Posting
LEMMA CompleteStays == ASSUME Recorded, NEW d, Complete(d) PROVE Complete(d)'
    BY DEF Recorded, Complete, Stored

\* A step of one runner that leaves what the API holds.
LEMMA RunnerKeeps ==
    ASSUME ReprocessInv, NEW p \in Runners, NEW q \in RunnerState, runner' = [runner EXCEPT ![p] = q],
           UNCHANGED <<retained, manifests, chunks>>, RunnerOK(p)',
           wire' \subseteq Derivations \X Nat, \A x \in wire' : x[1].first = x[1].second,
           \A d \in completed' : d \in completed \/ Complete(d)
    PROVE  ReprocessInv'
<1>1. ReprocessTypes'
    BY DEF ReprocessInv, ReprocessTypes
<1>2. Recorded
    BY DEF Recorded, ReprocessInv, ReprocessTypes
<1>3. ASSUME NEW x \in Runners PROVE RunnerOK(x)'
  <2>1. x # p => runner'[x] = runner[x]
      BY DEF ReprocessInv, ReprocessTypes
  <2>2. QED
      BY <1>1, <1>2, <1>3, <2>1, RunnerStays DEF ReprocessInv
<1>4. CompleteStored'
    BY <1>2, CompleteStays DEF CompleteStored, ReprocessInv
<1>5. QED
    BY <1>1, <1>3, <1>4 DEF ReprocessInv, Prefix, OneArchive

\* A runner starts, takes its next run, or dies.
LEMMA TurnReprocess ==
    ASSUME ReprocessInv, NEW p \in Runners, reprocessTranscripts(p) \/ NextSource(p) \/ RunnerDies(p)
    PROVE  ReprocessInv'
<1> DEFINE begun == [IdleRunner EXCEPT !.phase = "next"]
           opened == [IdleRunner EXCEPT !.phase = "opened", !.run = runner[p].run + 1]
<1>1. PICK q : /\ runner' = [runner EXCEPT ![p] = q]
               /\ q = IdleRunner \/ q = begun \/ (runner[p].run + 1 \in Runs /\ q = opened)
    BY DEF reprocessTranscripts, NextSource, RunnerDies
<1>2. IdleRunner \in RunnerState /\ begun \in RunnerState /\ opened \in RunnerState
  <2>1. runner[p].run + 1 \in Nat
      BY DEF RunnerState, ReprocessInv, ReprocessTypes
  <2>2. QED
      BY <2>1 DEF IdleRunner, RunnerState
<1>3. UNCHANGED <<retained, manifests, chunks, wire, completed>>
    BY DEF reprocessTranscripts, NextSource, RunnerDies
<1>4. runner'[p] = q
    BY <1>1 DEF ReprocessInv, ReprocessTypes
<1>5. \/ q.phase \in {"idle", "next"}
      \/ q.phase = "opened" /\ q.run \in Runs
  <2>1. /\ IdleRunner.phase = "idle" /\ begun.phase = "next"
        /\ opened.phase = "opened" /\ opened.run = runner[p].run + 1
      BY DEF IdleRunner
  <2>2. QED
      BY <1>1, <2>1
<1>6. RunnerOK(p)'
    BY <1>4, <1>5 DEF RunnerOK, Posting
<1>7. QED
    BY <1>1, <1>2, <1>3, <1>6, RunnerKeeps DEF ReprocessInv, ReprocessTypes

\* A runner reads the archive line by line, and again its version.
LEMMA StageReprocess ==
    ASSUME ReprocessInv, NEW p \in Runners, StageFirst(p) \/ StageSecond(p) \/ stageDerivation(p)
    PROVE  ReprocessInv'
<1> DEFINE version == retained[runner[p].run]
<1>1. runner[p] \in RunnerState /\ RunnerOK(p) /\ UNCHANGED <<retained, manifests, chunks, wire, completed>>
    BY DEF ReprocessInv, ReprocessTypes, StageFirst, StageSecond, stageDerivation
<1>2. runner[p].phase \in {"opened", "half", "staged"} /\ runner[p].run \in Runs /\ version \in Nat
    BY <1>1 DEF RunnerOK, StageFirst, StageSecond, stageDerivation, ReprocessInv, ReprocessTypes
<1> DEFINE Becomes(q) == runner' = [runner EXCEPT ![p] = q]
           half == [runner[p] EXCEPT !.phase = "half", !.first = version]
           staged == [runner[p] EXCEPT !.phase = "staged", !.second = version]
           next == [runner[p] EXCEPT !.phase = "next"]
           stable == [runner[p] EXCEPT !.phase = "existing"]
<1>3. half \in RunnerState /\ staged \in RunnerState /\ next \in RunnerState /\ stable \in RunnerState
    BY <1>1, <1>2 DEF RunnerState
<1>4. ASSUME NEW q \in RunnerState, Becomes(q), RunnerOK(p)' PROVE ReprocessInv'
    BY <1>1, <1>4, RunnerKeeps DEF ReprocessInv, ReprocessTypes
<1>5. ASSUME NEW q \in RunnerState, Becomes(q) PROVE runner'[p] = q
    BY <1>5 DEF ReprocessInv, ReprocessTypes
<1>6. CASE StageFirst(p)
  <2>1. Becomes(half)
      BY <1>6 DEF StageFirst
  <2>2. runner'[p] = half
      BY <1>3, <1>5, <2>1
  <2>3. RunnerOK(p)'
      BY <1>1, <1>2, <2>2 DEF RunnerOK, RunnerState, Posting
  <2>4. QED
      BY <1>3, <1>4, <2>1, <2>3
<1>7. CASE StageSecond(p)
  <2>1. Becomes(staged) /\ runner[p].phase = "half"
      BY <1>7 DEF StageSecond
  <2>2. runner'[p] = staged
      BY <1>3, <1>5, <2>1
  <2>3. RunnerOK(p)'
      BY <1>1, <1>2, <2>1, <2>2 DEF RunnerOK, RunnerState, Posting
  <2>4. QED
      BY <1>3, <1>4, <2>1, <2>3
<1>8. CASE stageDerivation(p)
  <2>1. runner[p].phase = "staged" /\ (Becomes(next) \/ (Becomes(stable) /\ Stable(p)))
      BY <1>8 DEF stageDerivation, RunnerGoes
  <2>2. CASE Becomes(next)
    <3>1. runner'[p] = next
        BY <1>3, <1>5, <2>2
    <3>2. RunnerOK(p)'
        BY <1>1, <3>1 DEF RunnerOK, RunnerState, Posting
    <3>3. QED
        BY <1>3, <1>4, <2>2, <3>2
  <2>3. CASE Becomes(stable) /\ Stable(p)
    <3>1. runner'[p] = stable
        BY <1>3, <1>5, <2>3
    <3>2. runner[p].first = runner[p].second
        BY <1>1, <1>2, <2>1, <2>3 DEF RunnerOK, RunnerState, Stable
    <3>3. RunnerOK(p)'
        BY <1>1, <1>2, <3>1, <3>2 DEF RunnerOK, RunnerState, Posting
    <3>4. QED
        BY <1>3, <1>4, <2>3, <3>3
  <2>4. QED
      BY <2>1, <2>2, <2>3
<1>9. QED
    BY <1>6, <1>7, <1>8

\* A runner asks what is there, and skips it.
LEMMA ExistingReprocess ==
    ASSUME ReprocessInv, ImporterAssumption, NEW p \in Runners, existing(p) PROVE ReprocessInv'
<1> DEFINE d == Derivation(p)
<1>1. runner[p] \in RunnerState /\ RunnerOK(p) /\ UNCHANGED <<retained, manifests, chunks, wire>>
    BY DEF ReprocessInv, ReprocessTypes, existing
<1>2. CASE Complete(d) /\ completed' = completed \cup {d} /\ RunnerGoes(p, "next")
  <2> DEFINE q == [runner[p] EXCEPT !.phase = "next"]
  <2>1. runner' = [runner EXCEPT ![p] = q] /\ q \in RunnerState
      BY <1>1, <1>2 DEF RunnerGoes, RunnerState
  <2>2. runner'[p] = q
      BY <2>1 DEF ReprocessInv, ReprocessTypes
  <2>3. RunnerOK(p)'
      BY <1>1, <2>2 DEF RunnerOK, RunnerState, Posting
  <2>4. QED
      BY <1>1, <1>2, <2>1, <2>3, RunnerKeeps DEF ReprocessInv, ReprocessTypes
<1>3. CASE UNCHANGED completed /\ runner' = [runner EXCEPT ![p].phase = "manifest", ![p].sequence = FirstMissing(d), ![p].attempt = 0]
  <2> DEFINE q == [runner[p] EXCEPT !.phase = "manifest", !.sequence = FirstMissing(d), !.attempt = 0]
  <2>1. FirstMissing(d) \in Nat /\ Prefix(d, FirstMissing(d))
      BY FirstMissingPrefix
  <2>2. runner' = [runner EXCEPT ![p] = q] /\ q \in RunnerState
      BY <1>1, <1>3, <2>1 DEF RunnerState
  <2>3. runner'[p] = q
      BY <2>2 DEF ReprocessInv, ReprocessTypes
  <2>4. Derivation(p)' = d
      BY <1>1, <2>3 DEF Derivation, RunnerState
  <2>5. runner'[p].sequence = FirstMissing(d) /\ runner'[p].phase = "manifest" /\ runner'[p].run = runner[p].run
        /\ runner'[p].first = runner[p].first /\ runner'[p].second = runner[p].second
      BY <1>1, <2>3 DEF RunnerState
  <2>6. Prefix(Derivation(p), runner[p].sequence)'
      BY <1>1, <2>1, <2>4, <2>5 DEF Prefix
  <2>7. RunnerOK(p)'
      BY <1>1, <2>5, <2>6 DEF RunnerOK, Posting, existing
  <2>8. QED
      BY <1>1, <1>3, <2>2, <2>7, RunnerKeeps DEF ReprocessInv, ReprocessTypes
<1>4. QED
    BY <1>2, <1>3 DEF existing

\* A request is sent, and again.
LEMMA RequestReprocess ==
    ASSUME ReprocessInv, NEW p \in Runners, request(p) \/ again(p) PROVE ReprocessInv'
<1>1. runner[p] \in RunnerState /\ RunnerOK(p) /\ UNCHANGED <<retained, manifests, chunks, completed>>
      /\ runner[p].phase \in Posting
    BY DEF ReprocessInv, ReprocessTypes, request, again, Posting
<1>2. PICK to, n : runner' = [runner EXCEPT ![p].phase = to, ![p].attempt = n] /\ n \in Nat
                   /\ \/ to = "next"
                      \/ to \in {"manifest", "wait-manifest"}
                      \/ to \in {"chunk", "wait-chunk"} /\ runner[p].phase \in {"chunk", "wait-chunk"}
  <2>1. CASE runner[p].phase = "manifest" /\ RunnerGoes(p, "wait-manifest")
    <3>1. runner' = [runner EXCEPT ![p].phase = "wait-manifest", ![p].attempt = runner[p].attempt]
        BY <2>1, <1>1 DEF RunnerGoes, RunnerState, ReprocessInv, ReprocessTypes
    <3>2. QED
        BY <1>1, <3>1 DEF RunnerState
  <2>2. CASE runner[p].phase = "chunk" /\ RunnerGoes(p, "wait-chunk")
    <3>1. runner' = [runner EXCEPT ![p].phase = "wait-chunk", ![p].attempt = runner[p].attempt]
        BY <2>2, <1>1 DEF RunnerGoes, RunnerState, ReprocessInv, ReprocessTypes
    <3>2. QED
        BY <1>1, <2>2, <3>1 DEF RunnerState
  <2>3. CASE again(p)
    <3>1. NextAttempt(p) \in Nat
        BY <1>1 DEF NextAttempt, RunnerState
    <3>2. CASE LastAttempt(p)
        BY <2>3, <3>2 DEF again
    <3>3. CASE ~LastAttempt(p) /\ runner[p].phase = "wait-manifest"
        BY <2>3, <3>1, <3>3 DEF again
    <3>4. CASE ~LastAttempt(p) /\ runner[p].phase = "wait-chunk"
        BY <2>3, <3>1, <3>4 DEF again
    <3>5. QED
        BY <2>3, <3>2, <3>3, <3>4 DEF again
  <2>4. QED
      BY <2>1, <2>2, <2>3 DEF request
<1> DEFINE q == [runner[p] EXCEPT !.phase = to, !.attempt = n]
<1>3. q \in RunnerState /\ runner' = [runner EXCEPT ![p] = q]
    BY <1>1, <1>2 DEF RunnerState
<1>4. runner'[p] = q
    BY <1>3 DEF ReprocessInv, ReprocessTypes
<1>5. /\ runner'[p].phase = to /\ runner'[p].run = runner[p].run /\ runner'[p].first = runner[p].first
      /\ runner'[p].second = runner[p].second /\ runner'[p].sequence = runner[p].sequence
    BY <1>1, <1>4 DEF RunnerState
<1>6. RunnerOK(p)'
  <2>1. Derivation(p)' = Derivation(p)
      BY <1>5 DEF Derivation
  <2>2. /\ runner[p].run \in Runs /\ runner[p].first = runner[p].second
        /\ Prefix(Derivation(p), runner[p].sequence)
        /\ to \in {"chunk", "wait-chunk"} => Derivation(p) \in manifests
      BY <1>1, <1>2 DEF RunnerOK, Posting
  <2>3. Prefix(Derivation(p), runner[p].sequence)'
      BY <1>1, <1>5, <2>1, <2>2 DEF Prefix
  <2>4. to \notin {"half", "staged"}
      BY <1>2
  <2>5. QED
      BY <1>1, <1>5, <2>1, <2>2, <2>3, <2>4 DEF RunnerOK, Posting
<1>7. Request(p) \in Derivations \X Nat /\ Request(p)[1].first = Request(p)[1].second
    BY <1>1 DEF Request, Derivation, Derivations, RunnerState, RunnerOK, Posting
<1>8. \A x \in wire' : x \in wire \/ x = Request(p)
    BY DEF request, again
<1>9. QED
    BY <1>1, <1>3, <1>6, <1>7, <1>8, RunnerKeeps DEF ReprocessInv, ReprocessTypes

\* After the last chunk.
LEMMA DoneReprocess ==
    ASSUME ReprocessInv, ImporterAssumption, NEW p \in Runners, Done(p) PROVE ReprocessInv'
<1> DEFINE q == [runner[p] EXCEPT !.phase = "next"]
<1>1. runner[p] \in RunnerState /\ RunnerOK(p) /\ UNCHANGED <<retained, manifests, chunks, wire>>
    BY DEF ReprocessInv, ReprocessTypes, Done
<1>2. runner' = [runner EXCEPT ![p] = q] /\ q \in RunnerState
    BY <1>1 DEF Done, RunnerGoes, RunnerState
<1>3. runner'[p] = q
    BY <1>2 DEF ReprocessInv, ReprocessTypes
<1>4. RunnerOK(p)'
    BY <1>1, <1>3 DEF RunnerOK, RunnerState, Posting
<1>5. Complete(Derivation(p))
    BY AllPostedComplete DEF Done
<1>6. QED
    BY <1>1, <1>2, <1>4, <1>5, RunnerKeeps DEF ReprocessInv, ReprocessTypes, Done

\* The API records what it may; who waits for it goes on or gives up.
LEMMA RecordReprocess ==
    ASSUME ReprocessInv, NEW q \in wire, recordTranscriptDerivation(q) PROVE ReprocessInv'
<1>1. /\ q[1] \in Derivations /\ q[2] \in Nat /\ q = <<q[1], q[2]>> /\ q[1].first = q[1].second
      /\ UNCHANGED <<retained, locks, completed>> /\ wire' = wire \ {q}
      /\ runner' = [p \in Runners |-> Answered(p, q)]
    BY DEF ReprocessInv, ReprocessTypes, recordTranscriptDerivation
<1>2. \/ /\ Acceptable(q) /\ q[2] = 0 /\ manifests' = manifests \cup {q[1]} /\ chunks' = chunks
      \/ /\ Acceptable(q) /\ q[2] > 0 /\ manifests' = manifests /\ chunks' = chunks \cup {q}
      \/ ~Acceptable(q) /\ UNCHANGED <<manifests, chunks>>
    BY <1>1 DEF recordTranscriptDerivation
<1>3. Recorded
    BY <1>1, <1>2 DEF Recorded, ReprocessInv, ReprocessTypes
<1>4. ASSUME NEW p \in Runners PROVE Answered(p, q) \in RunnerState
  <2>1. runner[p] \in RunnerState
      BY <1>4 DEF ReprocessInv, ReprocessTypes
  <2>2. [runner[p] EXCEPT !.phase = "next"] \in RunnerState
      BY <2>1 DEF RunnerState
  <2>3. [runner[p] EXCEPT !.phase = "chunk", !.attempt = 0, !.sequence = IF q[2] = 0 THEN @ ELSE @ + 1] \in RunnerState
    <3>1. (IF q[2] = 0 THEN runner[p].sequence ELSE runner[p].sequence + 1) \in Nat
        BY <2>1 DEF RunnerState
    <3>2. QED
        BY <2>1, <3>1 DEF RunnerState
  <2>4. QED
      BY <2>1, <2>2, <2>3 DEF Answered
<1>5. ReprocessTypes'
    BY <1>1, <1>2, <1>4 DEF ReprocessInv, ReprocessTypes
<1>6. \A x \in chunks' : Prefix(x[1], x[2])'
  <2>1. ASSUME NEW x \in chunks PROVE Prefix(x[1], x[2])'
      BY <2>1, <1>3 DEF Prefix, Recorded, ReprocessInv
  <2>2. ASSUME q \in chunks', Acceptable(q) PROVE Prefix(q[1], q[2])'
      BY <2>2, <1>1, <1>3 DEF Prefix, Recorded, Acceptable
  <2>3. QED
      BY <2>1, <2>2, <1>2
<1>7. ASSUME NEW p \in Runners PROVE RunnerOK(p)'
  <2>1. runner'[p] = Answered(p, q) /\ runner[p] \in RunnerState /\ RunnerOK(p)
      BY <1>1, <1>7 DEF ReprocessInv, ReprocessTypes
  <2>2. CASE runner'[p] = runner[p]
      BY <2>1, <2>2, <1>3, <1>5, RunnerStays DEF ReprocessInv
  <2>3. CASE Waits(p, q) /\ ~Acceptable(q) /\ runner'[p] = [runner[p] EXCEPT !.phase = "next"]
      BY <2>1, <2>3 DEF RunnerOK, RunnerState, Posting
  <2>4. CASE /\ Waits(p, q) /\ Acceptable(q)
             /\ runner'[p] = [runner[p] EXCEPT !.phase = "chunk", !.attempt = 0, !.sequence = IF q[2] = 0 THEN @ ELSE @ + 1]
    <3>1. runner[p].phase \in {"wait-manifest", "wait-chunk"} /\ Derivation(p) = q[1] /\ Derivation(p)' = q[1]
        BY <1>1, <2>1, <2>4 DEF Waits, Request, Derivation, RunnerState
    <3>2. Prefix(q[1], runner[p].sequence)
        BY <2>1, <3>1 DEF RunnerOK, Posting
    <3>3. runner'[p].sequence = IF q[2] = 0 THEN runner[p].sequence ELSE runner[p].sequence + 1
        BY <2>1, <2>4 DEF RunnerState
    <3>4. q[2] = IF runner[p].phase = "wait-manifest" THEN 0 ELSE runner[p].sequence + 1
        BY <1>1, <2>1, <2>4, <3>1 DEF Waits, Request
    <3>5. Prefix(q[1], runner[p].sequence)'
      <4>1. CASE q[2] = 0
          BY <4>1, <3>2, <3>3, <1>3 DEF Prefix, Recorded
      <4>2. CASE q[2] # 0
        <5>1. q[2] = runner[p].sequence + 1 /\ q \in chunks'
            BY <4>2, <3>4, <1>1, <1>2, <2>4
        <5>2. \A s \in 1..q[2] : <<q[1], s>> \in chunks'
            BY <5>1, <1>1, <1>3, <1>6 DEF Prefix
        <5>3. QED
            BY <5>1, <5>2, <3>3, <4>2 DEF Prefix
      <4>3. QED
          BY <4>1, <4>2
    <3>6. q[1] \in manifests'
        BY <1>1, <1>2, <2>4 DEF Acceptable
    <3>7. runner'[p].phase = "chunk" /\ runner'[p].run = runner[p].run
          /\ runner'[p].first = runner[p].first /\ runner'[p].second = runner[p].second
        BY <2>1, <2>4 DEF RunnerState
    <3>8. QED
        BY <2>1, <3>1, <3>5, <3>6, <3>7 DEF RunnerOK, Posting
  <2>5. QED
      BY <2>1, <2>2, <2>3, <2>4 DEF Answered
<1>8. CompleteStored'
    BY <1>1, <1>3, CompleteStays DEF CompleteStored, ReprocessInv
<1>9. OneArchive'
    BY <1>1, <1>2 DEF OneArchive, ReprocessInv
<1>10. QED
    BY <1>1, <1>5, <1>6, <1>7, <1>8, <1>9 DEF ReprocessInv

\* An archive is replaced by a later version, or a lock is removed.
LEMMA OutsideReprocess ==
    ASSUME ReprocessInv, (\E r \in Runs : Replace(r)) \/ (\E d \in Directories : RemoveLock(d)) PROVE ReprocessInv'
<1>1. UNCHANGED <<runner, manifests, chunks, wire, completed>>
    BY DEF Replace, RemoveLock
<1>2. Recorded /\ ReprocessTypes'
  <2>1. CASE \E r \in Runs : Replace(r)
      BY <2>1 DEF Replace, Recorded, ReprocessInv, ReprocessTypes
  <2>2. CASE \E d \in Directories : RemoveLock(d)
      BY <2>2 DEF RemoveLock, Recorded, ReprocessInv, ReprocessTypes
  <2>3. QED
      BY <2>1, <2>2
<1>3. \A p \in Runners : RunnerOK(p)'
    BY <1>1, <1>2, RunnerStays DEF ReprocessInv
<1>4. QED
    BY <1>1, <1>2, <1>3 DEF ReprocessInv, Prefix, CompleteStored, Complete, Stored, OneArchive

\* Every step of the reprocessing preserves the invariant.
LEMMA NextReprocess ==
    ASSUME ReprocessInv, ImporterAssumption, ReprocessNext \/ UNCHANGED reprocessVars PROVE ReprocessInv'
<1>1. CASE UNCHANGED reprocessVars
    BY <1>1 DEF reprocessVars, ReprocessInv, ReprocessTypes, RunnerOK, Prefix, Derivation, CompleteStored, Complete,
       Stored, OneArchive
<1>2. ASSUME NEW p \in Runners, reprocessTranscripts(p) \/ RunnerStep(p) \/ RunnerDies(p) PROVE ReprocessInv'
    BY <1>2, TurnReprocess, StageReprocess, ExistingReprocess, RequestReprocess, DoneReprocess DEF RunnerStep
<1>3. CASE \E q \in wire : recordTranscriptDerivation(q)
    BY <1>3, RecordReprocess
<1>4. CASE (\E r \in Runs : Replace(r)) \/ (\E d \in Directories : RemoveLock(d))
    BY <1>4, OutsideReprocess
<1>5. QED
    BY <1>1, <1>2, <1>3, <1>4 DEF ReprocessNext

-----------------------------------------------------------------------------
\* What importers and runners report is stored, whole and of one source: a
\* catalogued checksum is that of the vault's file, which has the bytes that
\* were hashed; a delivered session is in the catalogue; a completed run has its
\* manifest and all its chunks; no derivation mixes two versions of an archive.
THEOREM ImportsStoredHolds == ASSUME ImporterAssumption PROVE ImporterSpec => []ImportsStored
<1> DEFINE I == ImportInv /\ ReprocessInv
<1>1. ImporterInit => I
    BY InitImport, InitReprocess, ImporterAssumption DEF ImporterInit
<1>2. I /\ [ImporterNext]_<<importVars, reprocessVars>> => I'
    BY NextImport, NextReprocess, ImporterAssumption DEF ImporterNext
<1>3. I => ImportsStored
    BY DEF ImportInv, ReprocessInv, ImportsStored, VaultMatches, ReportedStored, Held, ResultOK, InCatalog
<1> HIDE DEF I
<1>4. QED
    BY <1>1, <1>2, <1>3, PTL DEF ImporterSpec

-----------------------------------------------------------------------------
(***************************************************************************)
(* PrivateFence for any number of tasks, processes and roots: the mutex    *)
(* excludes, and nothing writes below the roots of a running backup.       *)
(***************************************************************************)

HasLock == {"locking", "crit", "cleared", "published", "leave"}

\* The mutex file of a task inside the mutex is its own.
LockOwned == \A t \in Tasks : At(t, HasLock) => lock[root[t]] = t

\* So is the reaper of a task that uses it.
ReaperOwned == \A t \in Tasks : At(t, {"reaping", "unlink", "unreap"}) => reaper[root[t]] = t

PrevIsTask == \A t \in Tasks : pc[t] \in {"stale", "reaping", "unlink"} => prev[t] \in Tasks

\* Between its check and its unlink the mutex stays that of the dead owner.
UnlinkDead ==
    \A t \in Tasks : At(t, {"unlink"}) => lock[root[t]] = prev[t] /\ ~Live(prev[t])

Wants == {"want", "stale", "reaping", "unlink", "unreap", "locking", "crit"}

\* Where a task can be in each of its roles.
Roles ==
    \A t \in Tasks :
        /\ pc[t] = "idle" => held[t] = {} /\ clear[t] = {}
        /\ pc[t] \in {"cleared", "published"} => kind[t] # "unseal"
        /\ kind[t] = "unseal" /\ pc[t] \in Wants => root[t] \in held[t]
        /\ pc[t] = "work" => kind[t] = "write"
        /\ pc[t] \in {"drain", "backup"} => kind[t] = "seal"
        /\ pc[t] = "backup" => clear[t] = held[t]
        /\ clear[t] # {} => /\ kind[t] # "write"
                            /\ kind[t] = "seal" => pc[t] \in {"drain", "backup", "release"}

ClaimHeld ==
    \A t \in Tasks, r \in Roots :
        Live(t) /\ kind[t] = "write" /\ r \in held[t] => t \in claims[r]

SealHeld ==
    \A t \in Tasks, r \in Roots :
        Live(t) /\ kind[t] # "write" /\ r \in held[t] => seal[r] = t

RefsHeld ==
    \A t \in Tasks, r \in Roots :
        refs[t][r] > 0 => kind[t] = "write" /\ r \in held[t]

\* No seal appears between a task's look at it and what it publishes.
StillUnsealed == \A t \in Tasks : At(t, {"cleared"}) => seal[root[t]] = NoTask

\* A sealed root that was found without claims stays without.
ClearQuiet ==
    \A t \in Tasks, r \in Roots :
        Live(t) /\ r \in clear[t] /\ r \in held[t] => claims[r] = {}

IInv ==
    /\ TypeOK
    /\ LockOwned
    /\ ReaperOwned
    /\ PrevIsTask
    /\ UnlinkDead
    /\ Roles
    /\ ClaimHeld
    /\ SealHeld
    /\ RefsHeld
    /\ StillUnsealed
    /\ ClearQuiet

\* The initial state satisfies the invariant.
LEMMA InitIInv == Init => IInv
<1> SUFFICES ASSUME Init PROVE IInv
    OBVIOUS
<1> USE FenceAssumption DEF Init
<1>1. TypeOK
    BY DEF TypeOK
<1>2. QED
    BY <1>1 DEF IInv, LockOwned, ReaperOwned, PrevIsTask, UnlinkDead, Roles, ClaimHeld, SealHeld,
       RefsHeld, StillUnsealed, ClearQuiet, At, Live, HasLock

\* Only a sealer that drains has cleared roots.
LEMMA ClearRole ==
    ASSUME TypeOK, Roles, NEW t \in Tasks
    PROVE  /\ clear[t] # {} => kind[t] # "write"
           /\ pc[t] = "cleared" => clear[t] = {}
    BY DEF TypeOK, Roles

\* The death of a process preserves the invariant.
LEMMA CrashIInv ==
    ASSUME NEW p \in Procs, IInv, Crash(p) PROVE IInv'
<1> USE FenceAssumption DEF IInv, Crash, TypeOK, task, files, Goto, At, Live
<1> QED
    BY DEF LockOwned, UnlinkDead, HasLock, ReaperOwned, PrevIsTask, Roles, Wants, ClaimHeld, SealHeld, StillUnsealed, RefsHeld, ClearQuiet

\* Creating the mutex file preserves the invariant.
LEMMA CreateLockIInv ==
    ASSUME NEW t \in Tasks, IInv, CreateLock(t) PROVE IInv'
<1> USE FenceAssumption DEF IInv, CreateLock, TypeOK, task, files, Goto, At, Live
<1>1. TypeOK'
    OBVIOUS
<1>2. LockOwned'
    BY DEF LockOwned, UnlinkDead, HasLock
<1>3. ReaperOwned'
    BY DEF ReaperOwned
<1>4. PrevIsTask'
    BY DEF PrevIsTask
<1>5. UnlinkDead'
    BY DEF UnlinkDead, LockOwned, ReaperOwned, PrevIsTask, HasLock
<1>6. Roles'
    BY DEF Roles, Wants
<1>7. StillUnsealed'
    BY DEF StillUnsealed, LockOwned, HasLock
<1>8. ClaimHeld' /\ SealHeld' /\ RefsHeld' /\ ClearQuiet'
    BY DEF ClaimHeld, SealHeld, RefsHeld, ClearQuiet
<1>9. QED
    BY <1>1, <1>2, <1>3, <1>4, <1>5, <1>6, <1>7, <1>8

\* Filling the mutex file preserves the invariant.
LEMMA WriteLockIInv ==
    ASSUME NEW t \in Tasks, IInv, WriteLock(t) PROVE IInv'
<1> USE FenceAssumption DEF IInv, WriteLock, TypeOK, task, files, Goto, At, Live
<1>1. TypeOK'
    OBVIOUS
<1>2. LockOwned'
    BY DEF LockOwned, UnlinkDead, HasLock
<1>3. ReaperOwned'
    BY DEF ReaperOwned
<1>4. PrevIsTask'
    BY DEF PrevIsTask
<1>5. UnlinkDead'
    BY DEF UnlinkDead, LockOwned, ReaperOwned, PrevIsTask, HasLock
<1>6. Roles'
    BY DEF Roles, Wants
<1>7. StillUnsealed'
    BY DEF StillUnsealed, LockOwned, HasLock
<1>8. ClaimHeld' /\ SealHeld' /\ RefsHeld' /\ ClearQuiet'
    BY DEF ClaimHeld, SealHeld, RefsHeld, ClearQuiet
<1>9. QED
    BY <1>1, <1>2, <1>3, <1>4, <1>5, <1>6, <1>7, <1>8

\* Finding a dead owner preserves the invariant.
LEMMA SeeStaleIInv ==
    ASSUME NEW t \in Tasks, IInv, SeeStale(t) PROVE IInv'
<1> USE FenceAssumption DEF IInv, SeeStale, TypeOK, task, files, Goto, At, Live
<1>1. TypeOK'
    OBVIOUS
<1>2. LockOwned'
    BY DEF LockOwned, UnlinkDead, HasLock
<1>3. ReaperOwned'
    BY DEF ReaperOwned
<1>4. PrevIsTask'
    BY DEF PrevIsTask
<1>5. UnlinkDead'
    BY DEF UnlinkDead, LockOwned, ReaperOwned, PrevIsTask, HasLock
<1>6. Roles'
    BY DEF Roles, Wants
<1>7. StillUnsealed'
    BY DEF StillUnsealed, LockOwned, HasLock
<1>8. ClaimHeld' /\ SealHeld' /\ RefsHeld' /\ ClearQuiet'
    BY DEF ClaimHeld, SealHeld, RefsHeld, ClearQuiet
<1>9. QED
    BY <1>1, <1>2, <1>3, <1>4, <1>5, <1>6, <1>7, <1>8

\* Creating the reaper preserves the invariant.
LEMMA CreateReaperIInv ==
    ASSUME NEW t \in Tasks, IInv, CreateReaper(t) PROVE IInv'
<1> USE FenceAssumption DEF IInv, CreateReaper, TypeOK, task, files, Goto, At, Live
<1>1. TypeOK'
    OBVIOUS
<1>2. LockOwned'
    BY DEF LockOwned, UnlinkDead, HasLock
<1>3. ReaperOwned'
    BY DEF ReaperOwned
<1>4. PrevIsTask'
    BY DEF PrevIsTask
<1>5. UnlinkDead'
    BY DEF UnlinkDead, LockOwned, ReaperOwned, PrevIsTask, HasLock
<1>6. Roles'
    BY DEF Roles, Wants
<1>7. StillUnsealed'
    BY DEF StillUnsealed, LockOwned, HasLock
<1>8. ClaimHeld' /\ SealHeld' /\ RefsHeld' /\ ClearQuiet'
    BY DEF ClaimHeld, SealHeld, RefsHeld, ClearQuiet
<1>9. QED
    BY <1>1, <1>2, <1>3, <1>4, <1>5, <1>6, <1>7, <1>8

\* Meeting another reaper preserves the invariant.
LEMMA ReaperBusyIInv ==
    ASSUME NEW t \in Tasks, IInv, ReaperBusy(t) PROVE IInv'
<1> USE FenceAssumption DEF IInv, ReaperBusy, TypeOK, task, files, Goto, At, Live
<1>1. TypeOK'
    OBVIOUS
<1>2. LockOwned'
    BY DEF LockOwned, UnlinkDead, HasLock
<1>3. ReaperOwned'
    BY DEF ReaperOwned
<1>4. PrevIsTask'
    BY DEF PrevIsTask
<1>5. UnlinkDead'
    BY DEF UnlinkDead, LockOwned, ReaperOwned, PrevIsTask, HasLock
<1>6. Roles'
    BY DEF Roles, Wants
<1>7. StillUnsealed'
    BY DEF StillUnsealed, LockOwned, HasLock
<1>8. ClaimHeld' /\ SealHeld' /\ RefsHeld' /\ ClearQuiet'
    BY DEF ClaimHeld, SealHeld, RefsHeld, ClearQuiet
<1>9. QED
    BY <1>1, <1>2, <1>3, <1>4, <1>5, <1>6, <1>7, <1>8

\* Checking the owner again preserves the invariant.
LEMMA CheckStaleIInv ==
    ASSUME NEW t \in Tasks, IInv, CheckStale(t) PROVE IInv'
<1> USE FenceAssumption DEF IInv, CheckStale, TypeOK, task, files, Goto, At, Live
<1>1. TypeOK'
    OBVIOUS
<1>2. LockOwned'
    BY DEF LockOwned, UnlinkDead, HasLock
<1>3. ReaperOwned'
    BY DEF ReaperOwned
<1>4. PrevIsTask'
    BY DEF PrevIsTask
<1>5. UnlinkDead'
    BY DEF UnlinkDead, LockOwned, ReaperOwned, PrevIsTask, HasLock
<1>6. Roles'
    BY DEF Roles, Wants
<1>7. StillUnsealed'
    BY DEF StillUnsealed, LockOwned, HasLock
<1>8. ClaimHeld' /\ SealHeld' /\ RefsHeld' /\ ClearQuiet'
    BY DEF ClaimHeld, SealHeld, RefsHeld, ClearQuiet
<1>9. QED
    BY <1>1, <1>2, <1>3, <1>4, <1>5, <1>6, <1>7, <1>8

\* Removing the mutex of a dead owner preserves the invariant.
LEMMA UnlinkIInv ==
    ASSUME NEW t \in Tasks, IInv, Unlink(t) PROVE IInv'
<1> USE FenceAssumption DEF IInv, Unlink, TypeOK, task, files, Goto, At, Live
<1>1. TypeOK'
    OBVIOUS
<1>2. LockOwned'
    BY DEF LockOwned, UnlinkDead, HasLock
<1>3. ReaperOwned'
    BY DEF ReaperOwned
<1>4. PrevIsTask'
    BY DEF PrevIsTask
<1>5. UnlinkDead'
    BY DEF UnlinkDead, LockOwned, ReaperOwned, PrevIsTask, HasLock
<1>6. Roles'
    BY DEF Roles, Wants
<1>7. StillUnsealed'
    BY DEF StillUnsealed, LockOwned, HasLock
<1>8. ClaimHeld' /\ SealHeld' /\ RefsHeld' /\ ClearQuiet'
    BY DEF ClaimHeld, SealHeld, RefsHeld, ClearQuiet
<1>9. QED
    BY <1>1, <1>2, <1>3, <1>4, <1>5, <1>6, <1>7, <1>8

\* Removing the reaper preserves the invariant.
LEMMA UnreapIInv ==
    ASSUME NEW t \in Tasks, IInv, Unreap(t) PROVE IInv'
<1> USE FenceAssumption DEF IInv, Unreap, TypeOK, task, files, Goto, At, Live
<1>1. TypeOK'
    OBVIOUS
<1>2. LockOwned'
    BY DEF LockOwned, UnlinkDead, HasLock
<1>3. ReaperOwned'
    BY DEF ReaperOwned
<1>4. PrevIsTask'
    BY DEF PrevIsTask
<1>5. UnlinkDead'
    BY DEF UnlinkDead, LockOwned, ReaperOwned, PrevIsTask, HasLock
<1>6. Roles'
    BY DEF Roles, Wants
<1>7. StillUnsealed'
    BY DEF StillUnsealed, LockOwned, HasLock
<1>8. ClaimHeld' /\ SealHeld' /\ RefsHeld' /\ ClearQuiet'
    BY DEF ClaimHeld, SealHeld, RefsHeld, ClearQuiet
<1>9. QED
    BY <1>1, <1>2, <1>3, <1>4, <1>5, <1>6, <1>7, <1>8

\* Giving up on a mutex preserves the invariant.
LEMMA TimeOutIInv ==
    ASSUME NEW t \in Tasks, IInv, TimeOut(t) PROVE IInv'
<1> USE FenceAssumption DEF IInv, TimeOut, TypeOK, task, files, Goto, At, Live
<1>1. TypeOK'
    OBVIOUS
<1>2. LockOwned'
    BY DEF LockOwned, UnlinkDead, HasLock
<1>3. ReaperOwned'
    BY DEF ReaperOwned
<1>4. PrevIsTask'
    BY DEF PrevIsTask
<1>5. UnlinkDead'
    BY DEF UnlinkDead, LockOwned, ReaperOwned, PrevIsTask, HasLock
<1>6. Roles'
    BY DEF Roles, Wants
<1>7. StillUnsealed'
    BY DEF StillUnsealed, LockOwned, HasLock
<1>8. ClaimHeld' /\ SealHeld' /\ RefsHeld' /\ ClearQuiet'
    BY DEF ClaimHeld, SealHeld, RefsHeld, ClearQuiet
<1>9. QED
    BY <1>1, <1>2, <1>3, <1>4, <1>5, <1>6, <1>7, <1>8

\* Removing the seal of a dead owner preserves the invariant.
LEMMA DropSealIInv ==
    ASSUME NEW t \in Tasks, IInv, DropSeal(t) PROVE IInv'
<1> USE FenceAssumption DEF IInv, DropSeal, TypeOK, task, files, Goto, At, Live
<1>1. TypeOK'
    OBVIOUS
<1>2. SealHeld'
    BY DEF SealHeld, Roles, StillUnsealed, Wants
<1>3. StillUnsealed'
    BY DEF StillUnsealed, LockOwned, HasLock
<1>4. LockOwned' /\ ReaperOwned' /\ PrevIsTask' /\ UnlinkDead' /\ Roles' /\ ClaimHeld' /\ RefsHeld' /\ ClearQuiet'
    BY DEF LockOwned, ReaperOwned, PrevIsTask, UnlinkDead, Roles, ClaimHeld, RefsHeld, ClearQuiet, HasLock, Wants
<1>5. QED
    BY <1>1, <1>2, <1>3, <1>4

\* Finding a root unsealed preserves the invariant.
LEMMA UnsealedIInv ==
    ASSUME NEW t \in Tasks, IInv, Unsealed(t) PROVE IInv'
<1> USE FenceAssumption DEF IInv, Unsealed, TypeOK, task, files, Goto, At, Live
<1>1. TypeOK'
    OBVIOUS
<1>2. LockOwned'
    BY DEF LockOwned, UnlinkDead, HasLock
<1>3. ReaperOwned'
    BY DEF ReaperOwned
<1>4. PrevIsTask'
    BY DEF PrevIsTask
<1>5. UnlinkDead'
    BY DEF UnlinkDead, LockOwned, ReaperOwned, PrevIsTask, HasLock
<1>6. Roles'
    BY DEF Roles, Wants
<1>7. StillUnsealed'
    BY DEF StillUnsealed, LockOwned, HasLock
<1>8. ClaimHeld' /\ SealHeld' /\ RefsHeld' /\ ClearQuiet'
    BY DEF ClaimHeld, SealHeld, RefsHeld, ClearQuiet
<1>9. QED
    BY <1>1, <1>2, <1>3, <1>4, <1>5, <1>6, <1>7, <1>8

\* Refusing a task preserves the invariant.
LEMMA RefuseIInv ==
    ASSUME NEW t \in Tasks, IInv, Refuse(t) PROVE IInv'
<1> USE FenceAssumption DEF IInv, Refuse, TypeOK, task, files, Goto, At, Live
<1>1. TypeOK'
    OBVIOUS
<1>2. LockOwned'
    BY DEF LockOwned, UnlinkDead, HasLock
<1>3. ReaperOwned'
    BY DEF ReaperOwned
<1>4. PrevIsTask'
    BY DEF PrevIsTask
<1>5. UnlinkDead'
    BY DEF UnlinkDead, LockOwned, ReaperOwned, PrevIsTask, HasLock
<1>6. Roles'
    BY DEF Roles, Wants
<1>7. StillUnsealed'
    BY DEF StillUnsealed, LockOwned, HasLock
<1>8. ClaimHeld' /\ SealHeld' /\ RefsHeld' /\ ClearQuiet'
    BY DEF ClaimHeld, SealHeld, RefsHeld, ClearQuiet
<1>9. QED
    BY <1>1, <1>2, <1>3, <1>4, <1>5, <1>6, <1>7, <1>8

\* Publishing a claim or a seal preserves the invariant.
LEMMA PublishIInv ==
    ASSUME NEW t \in Tasks, IInv, Publish(t) PROVE IInv'
<1> USE FenceAssumption DEF IInv, Publish, TypeOK, task, files, Goto, At, Live
<1>1. TypeOK'
    <2>1. root[t] \in Roots /\ claims[root[t]] \subseteq Tasks
        OBVIOUS
    <2>2. claims' \in [Roots -> SUBSET Tasks]
        BY <2>1
    <2>3. seal' \in [Roots -> Tasks \cup {NoTask}]
        BY <2>1
    <2>4. held' \in [Tasks -> SUBSET Roots]
        BY <2>1
    <2>5. QED
        BY <2>2, <2>3, <2>4
<1>2. LockOwned'
    BY DEF LockOwned, UnlinkDead, HasLock
<1>3. ReaperOwned'
    BY DEF ReaperOwned
<1>4. PrevIsTask'
    BY DEF PrevIsTask
<1>5. UnlinkDead'
    BY DEF UnlinkDead, LockOwned, ReaperOwned, PrevIsTask, HasLock
<1>6. Roles'
    BY DEF Roles, Wants
<1>7. ClaimHeld'
    BY DEF ClaimHeld, Roles, Wants
<1>8. SealHeld'
    BY DEF SealHeld, Roles, StillUnsealed, Wants
<1>9. RefsHeld'
    BY DEF RefsHeld, Roles, Wants
<1>10. StillUnsealed'
    <2> SUFFICES ASSUME NEW u \in Tasks, At(u, {"cleared"})' PROVE (seal[root[u]] = NoTask)'
        BY DEF StillUnsealed
    <2>1. u # t /\ pc[u] = "cleared" /\ seal[root[u]] = NoTask
        BY DEF StillUnsealed
    <2>2. root[u] # root[t]
        BY <2>1 DEF LockOwned, HasLock
    <2>3. QED
        BY <2>1, <2>2
<1>11. ClearQuiet'
    <2> SUFFICES ASSUME NEW u \in Tasks, NEW r \in Roots,
                        Live(u), r \in clear[u], r \in held'[u]
                 PROVE claims'[r] = {}
        BY DEF ClearQuiet
    <2>1. clear[t] = {}
        BY ClearRole
    <2>2. u # t /\ r \in held[u]
        BY <2>1
    <2>3. kind[u] # "write"
        BY ClearRole
    <2>4. seal[r] = u /\ claims[r] = {}
        BY <2>2, <2>3 DEF SealHeld, ClearQuiet
    <2>5. r # root[t]
        BY <2>4 DEF StillUnsealed
    <2>6. QED
        BY <2>4, <2>5
<1>12. QED
    BY <1>1, <1>2, <1>3, <1>4, <1>5, <1>6, <1>7, <1>8, <1>9, <1>10, <1>11

\* Going on to the next root preserves the invariant.
LEMMA ProceedIInv ==
    ASSUME NEW t \in Tasks, IInv, Proceed(t) PROVE IInv'
<1> USE FenceAssumption DEF IInv, Proceed, TypeOK, task, files, Goto, At, Live
<1>1. TypeOK'
    <2>1. CASE todo[t] = {} /\ Goto(t, IF kind[t] = "write" THEN "work" ELSE "drain") /\ UNCHANGED <<todo, root>>
        BY <2>1
    <2>2. CASE \E r \in Roots : /\ First(r, todo[t])
                               /\ Goto(t, "want")
                               /\ root' = [root EXCEPT ![t] = r]
                               /\ todo' = [todo EXCEPT ![t] = @ \ {r}]
        BY <2>2
    <2>3. QED
        BY <2>1, <2>2
<1>2. LockOwned'
    BY DEF LockOwned, UnlinkDead, HasLock, First, Last
<1>3. ReaperOwned'
    BY DEF ReaperOwned, First, Last
<1>4. PrevIsTask'
    BY DEF PrevIsTask, First, Last
<1>5. UnlinkDead'
    BY DEF UnlinkDead, LockOwned, ReaperOwned, PrevIsTask, HasLock, First, Last
<1>6. Roles'
    BY DEF Roles, Wants, First, Last
<1>7. StillUnsealed'
    BY DEF StillUnsealed, LockOwned, HasLock, First, Last
<1>8. ClaimHeld' /\ SealHeld' /\ RefsHeld' /\ ClearQuiet'
    BY DEF ClaimHeld, SealHeld, RefsHeld, ClearQuiet
<1>9. QED
    BY <1>1, <1>2, <1>3, <1>4, <1>5, <1>6, <1>7, <1>8

\* Leaving the mutex preserves the invariant.
LEMMA BackoutIInv ==
    ASSUME NEW t \in Tasks, IInv, Backout(t) PROVE IInv'
<1> USE FenceAssumption DEF IInv, Backout, TypeOK, task, files, Goto, At, Live
<1>1. TypeOK'
    OBVIOUS
<1>2. LockOwned'
    BY DEF LockOwned, UnlinkDead, HasLock
<1>3. ReaperOwned'
    BY DEF ReaperOwned
<1>4. PrevIsTask'
    BY DEF PrevIsTask
<1>5. UnlinkDead'
    BY DEF UnlinkDead, LockOwned, ReaperOwned, PrevIsTask, HasLock
<1>6. Roles'
    BY DEF Roles, Wants
<1>7. StillUnsealed'
    BY DEF StillUnsealed, LockOwned, HasLock
<1>8. ClaimHeld' /\ SealHeld' /\ RefsHeld' /\ ClearQuiet'
    BY DEF ClaimHeld, SealHeld, RefsHeld, ClearQuiet
<1>9. QED
    BY <1>1, <1>2, <1>3, <1>4, <1>5, <1>6, <1>7, <1>8

\* Ending the work preserves the invariant.
LEMMA EndWorkIInv ==
    ASSUME NEW t \in Tasks, IInv, EndWork(t) PROVE IInv'
<1> USE FenceAssumption DEF IInv, EndWork, TypeOK, task, files, Goto, At, Live
<1>1. TypeOK'
    OBVIOUS
<1>2. LockOwned'
    BY DEF LockOwned, UnlinkDead, HasLock
<1>3. ReaperOwned'
    BY DEF ReaperOwned
<1>4. PrevIsTask'
    BY DEF PrevIsTask
<1>5. UnlinkDead'
    BY DEF UnlinkDead, LockOwned, ReaperOwned, PrevIsTask, HasLock
<1>6. Roles'
    BY DEF Roles, Wants
<1>7. StillUnsealed'
    BY DEF StillUnsealed, LockOwned, HasLock
<1>8. ClaimHeld' /\ SealHeld' /\ RefsHeld' /\ ClearQuiet'
    BY DEF ClaimHeld, SealHeld, RefsHeld, ClearQuiet
<1>9. QED
    BY <1>1, <1>2, <1>3, <1>4, <1>5, <1>6, <1>7, <1>8

\* Removing a claim preserves the invariant.
LEMMA UnclaimIInv ==
    ASSUME NEW t \in Tasks, IInv, Unclaim(t) PROVE IInv'
<1> USE FenceAssumption DEF IInv, Unclaim, TypeOK, task, files, Goto, At, Live
<1> PICK r \in Roots :
        /\ Last(r, held[t])
        /\ refs[t][r] = 0
        /\ claims' = [claims EXCEPT ![r] = @ \ {t}]
        /\ held' = [held EXCEPT ![t] = @ \ {r}]
    OBVIOUS
<1>1. TypeOK'
    BY DEF First, Last
<1>2. Roles'
    BY DEF Roles, Wants, First, Last
<1>3. ClaimHeld'
    <2> SUFFICES ASSUME NEW u \in Tasks, NEW q \in Roots, Live(u), kind[u] = "write", q \in held'[u]
                 PROVE u \in claims'[q]
        BY DEF ClaimHeld
    <2>1. q \in held[u] /\ ~(u = t /\ q = r)
        OBVIOUS
    <2>2. u \in claims[q]
        BY <2>1 DEF ClaimHeld
    <2>3. QED
        BY <2>1, <2>2
<1>4. SealHeld'
    BY DEF SealHeld, Roles, StillUnsealed, Wants, First, Last
<1>5. RefsHeld'
    <2> SUFFICES ASSUME NEW u \in Tasks, NEW q \in Roots, refs[u][q] > 0
                 PROVE kind[u] = "write" /\ q \in held'[u]
        BY DEF RefsHeld
    <2>1. ~(u = t /\ q = r)
        OBVIOUS
    <2>2. QED
        BY <2>1 DEF RefsHeld
<1>6. ClearQuiet'
    <2> SUFFICES ASSUME NEW u \in Tasks, NEW q \in Roots, Live(u), q \in clear[u], q \in held'[u]
                 PROVE claims'[q] = {}
        BY DEF ClearQuiet
    <2>1. q \in held[u]
        OBVIOUS
    <2>2. claims[q] = {}
        BY <2>1 DEF ClearQuiet
    <2>3. QED
        BY <2>2
<1>7. LockOwned' /\ ReaperOwned' /\ PrevIsTask' /\ UnlinkDead' /\ StillUnsealed'
    BY DEF LockOwned, ReaperOwned, PrevIsTask, UnlinkDead, StillUnsealed, HasLock
<1>8. QED
    BY <1>1, <1>2, <1>3, <1>4, <1>5, <1>6, <1>7

\* Being done preserves the invariant.
LEMMA ReleasedIInv ==
    ASSUME NEW t \in Tasks, IInv, Released(t) PROVE IInv'
<1> USE FenceAssumption DEF IInv, Released, TypeOK, task, files, Goto, At, Live
<1>1. TypeOK'
    OBVIOUS
<1>2. LockOwned'
    BY DEF LockOwned, UnlinkDead, HasLock
<1>3. ReaperOwned'
    BY DEF ReaperOwned
<1>4. PrevIsTask'
    BY DEF PrevIsTask
<1>5. UnlinkDead'
    BY DEF UnlinkDead, LockOwned, ReaperOwned, PrevIsTask, HasLock
<1>6. Roles'
    BY DEF Roles, Wants
<1>7. StillUnsealed'
    BY DEF StillUnsealed, LockOwned, HasLock
<1>8. ClearQuiet'
    BY DEF ClearQuiet, Roles, SealHeld, StillUnsealed, Wants
<1>9. ClaimHeld' /\ SealHeld' /\ RefsHeld'
    BY DEF ClaimHeld, SealHeld, RefsHeld
<1>10. QED
    BY <1>1, <1>2, <1>3, <1>4, <1>5, <1>6, <1>7, <1>8, <1>9

\* Finding all roots drained preserves the invariant.
LEMMA DrainedIInv ==
    ASSUME NEW t \in Tasks, IInv, Drained(t) PROVE IInv'
<1> USE FenceAssumption DEF IInv, Drained, TypeOK, task, files, Goto, At, Live
<1>1. TypeOK'
    OBVIOUS
<1>2. LockOwned'
    BY DEF LockOwned, UnlinkDead, HasLock
<1>3. ReaperOwned'
    BY DEF ReaperOwned
<1>4. PrevIsTask'
    BY DEF PrevIsTask
<1>5. UnlinkDead'
    BY DEF UnlinkDead, LockOwned, ReaperOwned, PrevIsTask, HasLock
<1>6. Roles'
    BY DEF Roles, Wants
<1>7. StillUnsealed'
    BY DEF StillUnsealed, LockOwned, HasLock
<1>8. ClaimHeld' /\ SealHeld' /\ RefsHeld' /\ ClearQuiet'
    BY DEF ClaimHeld, SealHeld, RefsHeld, ClearQuiet
<1>9. QED
    BY <1>1, <1>2, <1>3, <1>4, <1>5, <1>6, <1>7, <1>8

\* Ending a backup preserves the invariant.
LEMMA EndSealIInv ==
    ASSUME NEW t \in Tasks, IInv, EndSeal(t) PROVE IInv'
<1> USE FenceAssumption DEF IInv, EndSeal, TypeOK, task, files, Goto, At, Live
<1>1. TypeOK'
    OBVIOUS
<1>2. LockOwned'
    BY DEF LockOwned, UnlinkDead, HasLock
<1>3. ReaperOwned'
    BY DEF ReaperOwned
<1>4. PrevIsTask'
    BY DEF PrevIsTask
<1>5. UnlinkDead'
    BY DEF UnlinkDead, LockOwned, ReaperOwned, PrevIsTask, HasLock
<1>6. Roles'
    BY DEF Roles, Wants
<1>7. StillUnsealed'
    BY DEF StillUnsealed, LockOwned, HasLock
<1>8. ClaimHeld' /\ SealHeld' /\ RefsHeld' /\ ClearQuiet'
    BY DEF ClaimHeld, SealHeld, RefsHeld, ClearQuiet
<1>9. QED
    BY <1>1, <1>2, <1>3, <1>4, <1>5, <1>6, <1>7, <1>8

\* Starting to lift a seal preserves the invariant.
LEMMA ReopenIInv ==
    ASSUME NEW t \in Tasks, IInv, Reopen(t) PROVE IInv'
<1> USE FenceAssumption DEF IInv, Reopen, TypeOK, task, files, Goto, At, Live
<1>1. TypeOK'
    BY DEF First, Last
<1>2. LockOwned'
    BY DEF LockOwned, UnlinkDead, HasLock, First, Last
<1>3. ReaperOwned'
    BY DEF ReaperOwned, First, Last
<1>4. PrevIsTask'
    BY DEF PrevIsTask, First, Last
<1>5. UnlinkDead'
    BY DEF UnlinkDead, LockOwned, ReaperOwned, PrevIsTask, HasLock, First, Last
<1>6. Roles'
    BY DEF Roles, Wants, First, Last
<1>7. ClaimHeld'
  <2>1. ASSUME NEW u \in Tasks, NEW r \in Roots, Live(u)', kind'[u] = "write", r \in held'[u]
        PROVE  u \in claims'[r]
    <3>1. u # t /\ kind'[u] = kind[u] /\ held' = held /\ claims' = claims /\ alive' = alive
        BY <2>1
    <3>2. Live(u) /\ ClaimHeld
        BY <2>1, <3>1
    <3> QED
        BY <2>1, <3>1, <3>2 DEF ClaimHeld
  <2> QED
    BY <2>1 DEF ClaimHeld
<1>8. SealHeld'
    BY DEF SealHeld, Roles, StillUnsealed, Wants, First, Last
<1>9. RefsHeld'
    BY DEF RefsHeld, Roles, Wants, First, Last
<1>10. StillUnsealed'
    BY DEF StillUnsealed, LockOwned, HasLock, First, Last
<1>11. ClearQuiet'
    BY DEF ClearQuiet
<1>12. QED
    BY <1>1, <1>2, <1>3, <1>4, <1>5, <1>6, <1>7, <1>8, <1>9, <1>10, <1>11

\* Lifting a seal preserves the invariant.
LEMMA LiftIInv ==
    ASSUME NEW t \in Tasks, IInv, Lift(t) PROVE IInv'
<1> USE FenceAssumption DEF IInv, Lift, TypeOK, task, files, Goto, At, Live
<1>1. TypeOK'
    OBVIOUS
<1>2. LockOwned'
    BY DEF LockOwned, UnlinkDead, HasLock
<1>3. ReaperOwned'
    BY DEF ReaperOwned
<1>4. PrevIsTask'
    BY DEF PrevIsTask
<1>5. UnlinkDead'
    BY DEF UnlinkDead, LockOwned, ReaperOwned, PrevIsTask, HasLock
<1>6. Roles'
    BY DEF Roles, Wants
<1>7. ClaimHeld'
    BY DEF ClaimHeld, Roles, Wants
<1>8. SealHeld'
    <2> SUFFICES ASSUME NEW u \in Tasks, NEW r \in Roots, Live(u), kind[u] # "write", r \in held'[u]
                 PROVE seal'[r] = u
        BY DEF SealHeld
    <2>1. r \in held[u] /\ seal[r] = u
        BY DEF SealHeld
    <2>2. seal[root[t]] = t
        BY DEF Roles, Wants, SealHeld
    <2>3. r # root[t]
        BY <2>1, <2>2
    <2>4. QED
        BY <2>1, <2>3
<1>9. RefsHeld'
    BY DEF RefsHeld, Roles, Wants
<1>10. StillUnsealed'
    BY DEF StillUnsealed, LockOwned, HasLock
<1>11. ClearQuiet'
    BY DEF ClearQuiet, Roles, SealHeld, StillUnsealed, Wants
<1>12. QED
    BY <1>1, <1>2, <1>3, <1>4, <1>5, <1>6, <1>7, <1>8, <1>9, <1>10, <1>11

\* Starting a nested activity preserves the invariant.
LEMMA EnterIInv ==
    ASSUME NEW t \in Tasks, NEW r \in Roots, IInv, Enter(t, r) PROVE IInv'
<1> USE FenceAssumption DEF IInv, Enter, TypeOK, task, files, Goto, At, Live
<1>1. TypeOK'
    OBVIOUS
<1>2. RefsHeld'
    <2> SUFFICES ASSUME NEW u \in Tasks, NEW q \in Roots, refs'[u][q] > 0
                 PROVE kind[u] = "write" /\ q \in held[u]
        BY DEF RefsHeld
    <2>1. CASE u = t /\ q = r
        BY <2>1 DEF Accepting
    <2>2. CASE ~(u = t /\ q = r)
        <3>1. refs[u][q] > 0
            BY <2>2
        <3>2. QED
            BY <3>1 DEF RefsHeld
    <2>3. QED
        BY <2>1, <2>2
<1>3. LockOwned' /\ ReaperOwned' /\ PrevIsTask' /\ UnlinkDead' /\ Roles' /\ ClaimHeld' /\ SealHeld' /\ StillUnsealed' /\ ClearQuiet'
    BY DEF LockOwned, ReaperOwned, PrevIsTask, UnlinkDead, Roles, ClaimHeld, SealHeld, StillUnsealed, ClearQuiet, HasLock, Wants
<1>4. QED
    BY <1>1, <1>2, <1>3

\* Ending a nested activity preserves the invariant.
LEMMA LeaveIInv ==
    ASSUME NEW t \in Tasks, NEW r \in Roots, IInv, Leave(t, r) PROVE IInv'
<1> USE FenceAssumption DEF IInv, Leave, TypeOK, task, files, Goto, At, Live
<1>1. TypeOK'
    OBVIOUS
<1>2. RefsHeld'
    BY DEF RefsHeld, Roles, Wants
<1>3. LockOwned' /\ ReaperOwned' /\ PrevIsTask' /\ UnlinkDead' /\ Roles' /\ ClaimHeld' /\ SealHeld' /\ StillUnsealed' /\ ClearQuiet'
    BY DEF LockOwned, ReaperOwned, PrevIsTask, UnlinkDead, Roles, ClaimHeld, SealHeld, StillUnsealed, ClearQuiet, HasLock, Wants
<1>4. QED
    BY <1>1, <1>2, <1>3

\* Finding a root without claims preserves the invariant.
LEMMA ScanIInv ==
    ASSUME NEW t \in Tasks, NEW r \in Roots, IInv, Scan(t, r) PROVE IInv'
<1> USE FenceAssumption DEF IInv, Scan, TypeOK, task, files, Goto, At, Live
<1>1. TypeOK'
    OBVIOUS
<1>2. Roles'
    BY DEF Roles, Wants
<1>3. ClearQuiet'
    BY DEF ClearQuiet, Roles, SealHeld, StillUnsealed, Wants
<1>4. LockOwned' /\ ReaperOwned' /\ PrevIsTask' /\ UnlinkDead' /\ ClaimHeld' /\ SealHeld' /\ RefsHeld' /\ StillUnsealed'
    BY DEF LockOwned, ReaperOwned, PrevIsTask, UnlinkDead, ClaimHeld, SealHeld, RefsHeld, StillUnsealed, HasLock
<1>5. QED
    BY <1>1, <1>2, <1>3, <1>4

\* Removing the claim of a dead task preserves the invariant.
LEMMA DropClaimIInv ==
    ASSUME NEW t \in Tasks, NEW r \in Roots, NEW u \in Tasks, IInv, DropClaim(t, r, u) PROVE IInv'
<1> USE FenceAssumption DEF IInv, DropClaim, TypeOK, task, files, Goto, At, Live
<1>1. TypeOK'
    OBVIOUS
<1>2. ClaimHeld'
    BY DEF ClaimHeld, Roles, Wants
<1>3. ClearQuiet'
    BY DEF ClearQuiet, Roles, SealHeld, StillUnsealed, Wants
<1>4. LockOwned' /\ ReaperOwned' /\ PrevIsTask' /\ UnlinkDead' /\ Roles' /\ SealHeld' /\ RefsHeld' /\ StillUnsealed'
    BY DEF LockOwned, ReaperOwned, PrevIsTask, UnlinkDead, Roles, SealHeld, RefsHeld, StillUnsealed, HasLock, Wants
<1>5. QED
    BY <1>1, <1>2, <1>3, <1>4

\* Beginning a task preserves the invariant.
LEMMA BeginIInv ==
    ASSUME NEW t \in Tasks, NEW what \in {"write", "seal"}, NEW roots \in SUBSET Roots, NEW r \in Roots, IInv, Begin(t, what, roots, r) PROVE IInv'
<1> USE FenceAssumption DEF IInv, Begin, TypeOK, task, files, Goto, At, Live
<1>1. TypeOK'
    BY DEF First, Last
<1>2. LockOwned'
    BY DEF LockOwned, UnlinkDead, HasLock, First, Last
<1>3. ReaperOwned'
    BY DEF ReaperOwned, First, Last
<1>4. PrevIsTask'
    BY DEF PrevIsTask, First, Last
<1>5. UnlinkDead'
    BY DEF UnlinkDead, LockOwned, ReaperOwned, PrevIsTask, HasLock, First, Last
<1>6. Roles'
    BY DEF Roles, Wants, First, Last
<1>7. ClaimHeld'
    BY DEF ClaimHeld, Roles, Wants, First, Last
<1>8. SealHeld'
    BY DEF SealHeld, Roles, StillUnsealed, Wants, First, Last
<1>9. RefsHeld'
    BY DEF RefsHeld, Roles, Wants, First, Last
<1>10. StillUnsealed'
    BY DEF StillUnsealed, LockOwned, HasLock, First, Last
<1>11. ClearQuiet'
    BY DEF ClearQuiet
<1>12. QED
    BY <1>1, <1>2, <1>3, <1>4, <1>5, <1>6, <1>7, <1>8, <1>9, <1>10, <1>11

\* Every step preserves the invariant.
LEMMA NextIInv == IInv /\ [Next]_vars => IInv'
<1> SUFFICES ASSUME IInv, [Next]_vars PROVE IInv'
    OBVIOUS
<1>1. CASE UNCHANGED vars
    BY <1>1 DEF vars, task, files, IInv, TypeOK, LockOwned, ReaperOwned, PrevIsTask, UnlinkDead, Roles,
       ClaimHeld, SealHeld, RefsHeld, StillUnsealed, ClearQuiet, At, Live
<1>2. CASE \E p \in Procs : Crash(p)
    BY <1>2, CrashIInv
<1>3. ASSUME NEW t \in Tasks, Mutex(t) PROVE IInv'
    BY <1>3, CreateLockIInv, WriteLockIInv, SeeStaleIInv, CreateReaperIInv, ReaperBusyIInv,
       CheckStaleIInv, UnlinkIInv, UnreapIInv, TimeOutIInv DEF Mutex
<1>4. ASSUME NEW t \in Tasks, Section(t) PROVE IInv'
    BY <1>4, DropSealIInv, UnsealedIInv, RefuseIInv, PublishIInv, ProceedIInv, BackoutIInv DEF Section
<1>5. ASSUME NEW t \in Tasks, Writer(t) PROVE IInv'
    BY <1>5, EndWorkIInv, UnclaimIInv, ReleasedIInv, EnterIInv, LeaveIInv DEF Writer
<1>6. ASSUME NEW t \in Tasks, Sealer(t) PROVE IInv'
    BY <1>6, DrainedIInv, EndSealIInv, ReopenIInv, LiftIInv, ScanIInv, DropClaimIInv DEF Sealer
<1>7. ASSUME NEW t \in Tasks, NEW what \in {"write", "seal"}, NEW roots \in SUBSET Roots,
             NEW r \in Roots, Begin(t, what, roots, r)
      PROVE IInv'
    BY <1>7, BeginIInv
<1>8. QED
    BY <1>1, <1>2, <1>3, <1>4, <1>5, <1>6, <1>7 DEF Next

\* The invariant is inductive.
THEOREM FenceInvariant == Spec => []IInv
    BY InitIInv, NextIInv, PTL DEF Spec

\* At most one live task is inside the mutex of a root, however many found
\* the same dead owner and raced to remove its file.
THEOREM FenceMutexExclusive == Spec => []MutexExclusive
<1>1. IInv => MutexExclusive
    BY DEF IInv, LockOwned, HasLock, MutexExclusive, InSection, At
<1>2. QED
    BY <1>1, FenceInvariant, PTL

\* Nothing writes below the roots of a running backup.
THEOREM FenceDrainedQuiet == Spec => []DrainedQuiet
<1>1. IInv => DrainedQuiet
    <2> SUFFICES ASSUME IInv, NEW t \in Tasks, NEW u \in Tasks, NEW r \in Roots,
                        At(t, {"backup"}), r \in held[t], Writing(u, r)
                 PROVE FALSE
        BY DEF DrainedQuiet
    <2>1. claims[r] = {}
        BY DEF IInv, Roles, ClearQuiet, At
    <2>2. Live(u) /\ kind[u] = "write" /\ r \in held[u]
        BY DEF IInv, Roles, RefsHeld, Writing
    <2>3. u \in claims[r]
        BY <2>2 DEF IInv, ClaimHeld
    <2>4. QED
        BY <2>1, <2>3
<1>2. QED
    BY <1>1, FenceInvariant, PTL

\* Both, as the promise of private-fence.ts to the programs that use it.
THEOREM FencePromise == Spec => []FenceHolds
    BY FenceMutexExclusive, FenceDrainedQuiet, PTL DEF FenceHolds

\* The variables keep their types.
THEOREM FenceTypeOK == Spec => []TypeOK
<1>1. IInv => TypeOK
    BY DEF IInv
<1>2. QED
    BY <1>1, FenceInvariant, PTL

-----------------------------------------------------------------------------
\* Largest elements of finite sets of numbers.
\* A family of finite sets that is not empty has a member none of whose proper subsets
\* belongs to it.
LEMMA SmallestMember ==
  ASSUME NEW S, NEW F \in SUBSET FiniteSubsetsOf(S), F # {}
  PROVE \E T \in F : \A U \in F : U \subseteq T => U = T
<1>1. IsWellFoundedOn(StrictSubsetOrdering(S), FiniteSubsetsOf(S)) BY FS_StrictSubsetOrderingWellFounded
<1>2. PICK T \in F : \A U \in F : ~ (<<U, T>> \in StrictSubsetOrdering(S)) BY <1>1, WFMin
<1>3. ASSUME NEW U \in F, U \subseteq T PROVE U = T
  <2>1. U \in SUBSET S /\ T \in SUBSET S BY DEF FiniteSubsetsOf
  <2>2. U # T => <<U, T>> \in StrictSubsetOrdering(S) BY <2>1, <1>3 DEF StrictSubsetOrdering
  <2> QED BY <2>2, <1>2
<1> QED BY <1>3

\* A finite set of numbers has a largest one.
LEMMA LargestNumber ==
  ASSUME NEW S \in SUBSET Nat, IsFiniteSet(S), S # {}
  PROVE \E x \in S : \A y \in S : x >= y
<1> DEFINE F == {T \in FiniteSubsetsOf(S) : T # {} /\ ~\E x \in T : \A y \in T : x >= y}
<1> SUFFICES ASSUME F # {} PROVE FALSE
  BY FS_Subset DEF FiniteSubsetsOf
<1>0. F \in SUBSET FiniteSubsetsOf(S) OBVIOUS
<1> HIDE DEF F
<1>1. PICK T \in F : \A U \in F : U \subseteq T => U = T BY <1>0, SmallestMember
<1> USE DEF F
<1>2. T \subseteq S /\ IsFiniteSet(T) /\ T # {} BY DEF FiniteSubsetsOf
<1>3. PICK x \in T : TRUE BY <1>2
<1>4. IsFiniteSet(T \ {x}) BY <1>2, FS_RemoveElement
<1>5. T \ {x} \notin F BY <1>1, <1>3
<1>6. T \ {x} \in FiniteSubsetsOf(S) BY <1>2, <1>4 DEF FiniteSubsetsOf
<1>7. CASE T \ {x} = {}
  <2>1. \A y \in T : x >= y BY <1>7, <1>2
  <2> QED BY <2>1, <1>1
<1>8. CASE T \ {x} # {}
  <2>1. PICK m \in T \ {x} : \A y \in T \ {x} : m >= y BY <1>5, <1>6, <1>8
  <2>2. m \in Nat /\ x \in Nat BY <1>2
  <2>3. CASE m >= x
    <3>1. \A y \in T : m >= y BY <2>1, <2>3
    <3> QED BY <3>1, <2>1, <1>1
  <2>4. CASE x > m
    <3>1. \A y \in T : x >= y BY <2>1, <2>4, <2>2, <1>2
    <3> QED BY <3>1, <1>1
  <2> QED BY <2>2, <2>3, <2>4
<1> QED BY <1>7, <1>8

\* ... which is its Max.
LEMMA MaxIsLargest ==
  ASSUME NEW S \in SUBSET Nat, IsFiniteSet(S), S # {}
  PROVE Max(S) \in S /\ Max(S) \in Nat /\ \A y \in S : y <= Max(S)
<1>1. Max(S) \in S /\ \A y \in S : Max(S) >= y BY LargestNumber DEF Max
<1> QED BY <1>1

-----------------------------------------------------------------------------
(***************************************************************************)
(* The receipts of the capture daemon.  A state, on disk, in memory or in a*)
(* prepared receipt, is a sequence of items: the steps applied and the     *)
(* times they were given.  A regular state has every occurrence once and by*)
(* increasing time, and no pending receipt is older than a step in it, so  *)
(* that the next step applied comes last.  The receipt at the head of the  *)
(* batch is the only prepared one.                                         *)
(***************************************************************************)
Item == (0..N) \X Nat
Receipts == [status : {"none", "accepted", "prepared"}, t : Nat, prepared : Seq(Item)]
ReceiptsTypes ==
  /\ raised \subseteq Occ /\ told \subseteq Occ /\ outbox \subseteq Occ
  /\ requests \subseteq Occ /\ replies \subseteq Occ /\ cut \subseteq Occ /\ archive \subseteq Occ
  /\ ingress \in [Kinds -> SUBSET Occ] /\ rotated \in [Kinds -> SUBSET Occ]
  /\ receipt \in [Occ -> Receipts]
  /\ closed \in [Occ -> {"open", "completed", "rejected"}]
  /\ disk \in Seq(Item) /\ mem \in Seq(Item) /\ batch \in Seq(Occ)
  /\ last \in Nat /\ blocked \in 0..N /\ sealed \in BOOLEAN
  /\ engine \in {"down", "ready", "state", "jobs", "complete", "heartbeat", "restore",
                 "restore state", "restore jobs", "restore complete"}
  /\ copying \in {"no", "roots", "rest", "generations"}
  /\ crashes \in Nat /\ failures \in Nat /\ losses \in Nat /\ seals \in Nat

Open(o) == receipt[o].status # "none" /\ closed[o] # "completed"
Prepared(o) == receipt[o].status = "prepared" /\ closed[o] # "completed"

Ordered(s) ==
  \A i, j \in DOMAIN s :
    i < j /\ s[i][1] # None /\ s[j][1] # None => s[i][1] # s[j][1] /\ s[i][2] < s[j][2]
Within(s, t) == \A i \in DOMAIN s : s[i][1] # None => s[i][2] <= t
Has(s, o) == \E i \in DOMAIN s : s[i][1] = o
Covers(s, c) == \A o \in Occ : c[o] = "completed" => Has(s, o)
Regular(s, r, c) ==
  /\ Ordered(s)
  /\ \A i \in DOMAIN s : s[i][1] # None =>
       r[s[i][1]].status = "prepared" \/ c[s[i][1]] = "completed"
  /\ \A o \in Occ : r[o].status = "accepted" =>
       \A i \in DOMAIN s : s[i][1] # None => s[i][2] < r[o].t
Extends(s, u) == Len(s) <= Len(u) /\ \A i \in DOMAIN s : s[i] = u[i]

StatesRegular ==
  /\ Regular(disk, receipt, closed) /\ Regular(mem, receipt, closed) /\ Covers(disk, closed)
  /\ Serving => Covers(mem, closed)
  /\ Serving => \A o \in Occ : Has(disk, o) => Has(mem, o)
  /\ \A p \in Occ : Prepared(p) =>
       /\ Regular(receipt[p].prepared, receipt, closed) /\ Covers(receipt[p].prepared, closed)
       /\ Has(receipt[p].prepared, p) /\ Within(receipt[p].prepared, receipt[p].t)

TimesKnown ==
  Serving => /\ Within(disk, last) /\ Within(mem, last)
             /\ \A o \in Occ : Open(o) => receipt[o].t <= last

ReceiptsOrdered ==
  /\ \A o, p \in Occ : Open(o) /\ Open(p) /\ o # p => receipt[o].t # receipt[p].t
  /\ \A o, p \in Occ : Open(o) /\ Prepared(p) /\ o # p => receipt[p].t < receipt[o].t
  /\ \A o \in Occ : receipt[o].status = "accepted" => closed[o] # "completed"
  /\ \A o \in Occ : receipt[o].status = "prepared" => o \notin Invalid
  /\ \A o \in Occ : closed[o] = "rejected" => o \in Invalid

Completing == {"complete", "restore complete"}
BatchOrdered ==
  /\ \A i \in DOMAIN batch :
       /\ receipt[batch[i]].status # "none"
       /\ closed[batch[i]] # "completed" \/ (i = 1 /\ engine \in Completing)
  /\ \A i, j \in DOMAIN batch : i < j => receipt[batch[i]].t < receipt[batch[j]].t
  /\ batch # <<>> => \A p \in Occ : Prepared(p) => batch[1] = p
  /\ Serving => \A o \in Occ : Open(o) =>
       \/ \E i \in DOMAIN batch : batch[i] = o
       \/ \A i \in DOMAIN batch : Open(batch[i]) => receipt[batch[i]].t < receipt[o].t
  /\ Restoring /\ (\E p \in Occ : Prepared(p)) => batch # <<>>
  /\ engine = "down" => batch = <<>>

StepsOf(o) == {<<"step", o>>, <<"run", o>>}
CommitPhases ==
  /\ engine \in {"state", "restore state", "jobs", "restore jobs"} \cup Completing =>
       batch # <<>> /\ receipt[batch[1]].status = "prepared"
  /\ engine \in {"jobs", "restore jobs"} \cup Completing =>
       disk = receipt[batch[1]].prepared /\ mem = receipt[batch[1]].prepared
  /\ engine \in {"jobs", "restore jobs"} => StepsOf(batch[1]) \subseteq unqueued \cup spool \cup delivered
  /\ engine \in Completing => StepsOf(batch[1]) \subseteq spool \cup delivered
  /\ \A o \in Occ : closed[o] = "completed" => StepsOf(o) \subseteq spool \cup delivered

GrowsWithoutFailure ==
  failures = 0 =>
    /\ Serving => Extends(disk, mem)
    /\ \A p \in Occ : Prepared(p) => Extends(disk, receipt[p].prepared)
    /\ engine \in {"ready", "heartbeat"} => ~\E p \in Occ : Prepared(p)

BackupInv ==
  /\ copying # "no" => sealed /\ batch = <<>> /\ engine \in {"down", "ready"}
  /\ copying = "roots" => cut \subseteq outbox \cup rotated["sender"] \cup rotated["receiver"] \cup InReceiver
  /\ copying = "rest" =>
       cut \subseteq archive \cup rotated["sender"] \cup rotated["receiver"]
                     \cup {o \in Occ : receipt[o].status # "none"}
  /\ copying = "generations" => cut \subseteq archive \cup rotated["sender"] \cup rotated["receiver"]
  /\ BackupCoversAcknowledged

CoreInv ==
  /\ StatesRegular /\ TimesKnown /\ ReceiptsOrdered /\ BatchOrdered /\ CommitPhases
  /\ GrowsWithoutFailure

ReceiptsInv ==
  /\ ReceiptsTypes /\ CoreInv /\ BackupInv /\ NothingLost /\ replies \subseteq told

-----------------------------------------------------------------------------
\* Clocks and listings.
\* The times in a state are finitely many numbers.
LEMMA TimesFinite ==
  ASSUME NEW s \in Seq(Item)
  PROVE IsFiniteSet(Times(s) \cup {0}) /\ Times(s) \cup {0} \in SUBSET Nat
<1>1. IsFiniteSet(DOMAIN s)
  <2>1. DOMAIN s = 1..Len(s) /\ Len(s) \in Nat OBVIOUS
  <2> QED BY <2>1, FS_Interval
<1> DEFINE f == [i \in DOMAIN s |-> s[i][2]]
<1>2. f \in Surjection(DOMAIN s, Times(s)) BY DEF Surjection, Times
<1>3. IsFiniteSet(Times(s)) BY <1>1, <1>2, FS_Surjection
<1>4. IsFiniteSet(Times(s) \cup {0}) BY <1>3, FS_AddElement
<1>5. Times(s) \in SUBSET Nat BY DEF Times, Item
<1> QED BY <1>4, <1>5

\* The watermark of a state is no earlier than any time in it.
LEMMA WatermarkBounds ==
  ASSUME NEW s \in Seq(Item)
  PROVE Watermark(s) \in Nat /\ \A i \in DOMAIN s : s[i][2] <= Watermark(s)
<1>1. Times(s) \cup {0} # {} OBVIOUS
<1>2. Watermark(s) \in Nat /\ \A y \in Times(s) \cup {0} : y <= Watermark(s)
  BY <1>1, TimesFinite, MaxIsLargest DEF Watermark
<1>3. \A i \in DOMAIN s : s[i][2] \in Times(s) BY DEF Times
<1> QED BY <1>2, <1>3

\* The time a receipt gets is later than the clock and than every step in memory.
LEMMA NextTimeLater ==
  ASSUME mem \in Seq(Item), last \in Nat
  PROVE NextTime \in Nat /\ last < NextTime /\ \A i \in DOMAIN mem : mem[i][2] < NextTime
<1> DEFINE W == Watermark(mem)
<1>1. W \in Nat /\ \A i \in DOMAIN mem : mem[i][2] <= W BY WatermarkBounds
<1> HIDE DEF W
<1>2. IsFiniteSet({last, W})
  <2>1. IsFiniteSet({last}) BY FS_Singleton
  <2>2. {last, W} = {last} \cup {W} OBVIOUS
  <2> QED BY <2>1, <2>2, FS_AddElement
<1> DEFINE M == Max({last, W})
<1>3. M \in Nat /\ last <= M /\ W <= M
  <2>1. {last, W} \in SUBSET Nat /\ {last, W} # {} BY <1>1
  <2> QED BY <2>1, <1>2, MaxIsLargest
<1> HIDE DEF M
<1>4. NextTime = M + 1 BY DEF NextTime, M, W
<1>5. \A i \in DOMAIN mem : mem[i][2] \in Nat BY DEF Item
<1> QED BY <1>1, <1>3, <1>4, <1>5

\* A state with one more item.
LEMMA Appended ==
  ASSUME NEW s \in Seq(Item), NEW e \in Item
  PROVE /\ Append(s, e) \in Seq(Item)
        /\ DOMAIN Append(s, e) = 1..(Len(s) + 1)
        /\ \A i \in DOMAIN s : Append(s, e)[i] = s[i]
        /\ Append(s, e)[Len(s) + 1] = e
        /\ Len(Append(s, e)) = Len(s) + 1
OBVIOUS

\* A listing holds the occurrences of its set, each once.
LEMMA ListedFacts ==
  ASSUME NEW S \in SUBSET Occ, NEW b \in Listed(S), ReceiptsAssumption
  PROVE /\ b \in Seq(Occ)
        /\ \A i \in DOMAIN b : b[i] \in S
        /\ \A o \in S : \E i \in DOMAIN b : b[i] = o
        /\ \A i, j \in DOMAIN b : i < j => Before(b[i], b[j])
<1> DEFINE n == Cardinality(S)
<1>1. n \in Nat
  <2>1. IsFiniteSet(Occ) BY FS_Interval DEF Occ, ReceiptsAssumption
  <2>2. IsFiniteSet(S) BY <2>1, FS_Subset
  <2> QED BY <2>2, FS_CardinalityType
<1> HIDE DEF n
<1>2. /\ b \in [1..n -> S]
      /\ \A o \in S : \E i \in 1..n : b[i] = o
      /\ \A i, j \in 1..n : i < j => Before(b[i], b[j])
  BY DEF Listed, n
<1>3. b \in Seq(S) BY <1>1, <1>2
<1>4. b \in Seq(Occ) BY <1>1, <1>2
<1> QED BY <1>2, <1>4

-----------------------------------------------------------------------------
\* Types.
relayVars == <<raised, told, outbox, ingress, rotated, requests, replies, sealed, copying, cut, archive, seals>>

\* The occurrences are finitely many.
LEMMA OccFinite == ASSUME ReceiptsAssumption PROVE IsFiniteSet(Occ)
<1>1. N \in Nat BY DEF ReceiptsAssumption
<1> QED BY <1>1, FS_Interval DEF Occ

\* A step of no occurrence is told from the steps of occurrences.
LEMMA NoneTyped == ASSUME ReceiptsAssumption PROVE None \in 0..N /\ Occ \subseteq 0..N /\ None \notin Occ
<1>1. N \in Nat BY DEF ReceiptsAssumption
<1> QED BY <1>1 DEF None, Occ

\* Types, in the sender: persisting, posting, losing, acknowledging.
LEMMA RelayTypes ==
  ASSUME ReceiptsTypes, NEW o \in Occ, Persist(o) \/ PostOccurrence(o) \/ Lose(o) \/ Acknowledge(o)
  PROVE ReceiptsTypes'
<1>1. CASE Persist(o)
  <2>0. losses \in Nat /\ ingress \in [Kinds -> SUBSET Occ] BY DEF ReceiptsTypes
  <2>1. losses' \in Nat BY <1>1, <2>0 DEF Persist
  <2>2. ingress' \in [Kinds -> SUBSET Occ] BY <1>1, <2>0 DEF Persist, Kinds
  <2>3. raised' \subseteq Occ /\ outbox' \subseteq Occ BY <1>1 DEF ReceiptsTypes, Persist
  <2> QED BY <1>1, <2>1, <2>2, <2>3 DEF ReceiptsTypes, Persist, chainVars, backupVars
<1>2. CASE PostOccurrence(o) BY <1>2 DEF ReceiptsTypes, PostOccurrence, chainVars, backupVars
<1>3. CASE Lose(o)
  <2>0. losses \in Nat BY DEF ReceiptsTypes
  <2>1. losses' \in Nat BY <1>3, <2>0 DEF Lose
  <2>2. requests' \subseteq Occ /\ replies' \subseteq Occ BY <1>3 DEF ReceiptsTypes, Lose
  <2> QED BY <1>3, <2>1, <2>2 DEF ReceiptsTypes, Lose, chainVars, backupVars
<1>4. CASE Acknowledge(o) BY <1>4 DEF ReceiptsTypes, Acknowledge, chainVars, backupVars, Kinds
<1> QED BY <1>1, <1>2, <1>3, <1>4

\* Types: a receipt is written.
LEMMA RecordTypes ==
  ASSUME ReceiptsTypes, NEW o \in Occ, Record(o)
  PROVE receipt' \in [Occ -> Receipts] /\ last' \in Nat
<1>1. NextTime \in Nat BY NextTimeLater DEF ReceiptsTypes
<1>2. [status |-> "accepted", t |-> NextTime, prepared |-> <<>>] \in Receipts BY <1>1 DEF Receipts
<1> QED BY <1>1, <1>2 DEF Record, ReceiptsTypes

\* Types, in the receiver and its reconciliation.
LEMMA ReceiverTypes ==
  ASSUME ReceiptsTypes, NEW o \in Occ, ReconcileRecords(o) \/ ReconcileDrops(o) \/ AcceptOccurrence(o)
  PROVE ReceiptsTypes'
<1>1. CASE ReconcileRecords(o)
  BY <1>1, RecordTypes DEF ReceiptsTypes, ReconcileRecords, chainVars, backupVars
<1>2. CASE ReconcileDrops(o) BY <1>2 DEF ReceiptsTypes, ReconcileDrops, chainVars, backupVars, Kinds
<1>3. CASE AcceptOccurrence(o)
  <2>1. /\ requests' \subseteq Occ /\ replies' \subseteq Occ /\ told' \subseteq Occ
        /\ UNCHANGED <<raised, outbox, rotated, closed, delivered, crashes, failures, losses, chainVars, backupVars>>
    BY <1>3 DEF AcceptOccurrence, ReceiptsTypes
  <2>2. receipt' \in [Occ -> Receipts] /\ last' \in Nat
    <3>1. UNCHANGED <<receipt, last>> \/ Record(o) BY <1>3 DEF AcceptOccurrence
    <3> QED BY <3>1, RecordTypes DEF ReceiptsTypes
  <2>3. ingress' \in [Kinds -> SUBSET Occ]
    <3>1. UNCHANGED ingress \/ ingress' = [ingress EXCEPT !["receiver"] = @ \cup ({o} \ Deferred("receiver"))]
      BY <1>3 DEF AcceptOccurrence
    <3>2. ingress \in [Kinds -> SUBSET Occ] BY DEF ReceiptsTypes
    <3>3. ingress["receiver"] \cup ({o} \ Deferred("receiver")) \in SUBSET Occ BY <3>2 DEF Kinds
    <3> QED BY <3>1, <3>2, <3>3
  <2> QED BY <2>1, <2>2, <2>3 DEF ReceiptsTypes, chainVars, backupVars
<1> QED BY <1>1, <1>2, <1>3

\* Types, in a backup.
LEMMA BackupTypes ==
  ASSUME ReceiptsTypes, Seal \/ Backup
  PROVE ReceiptsTypes'
<1>1. CASE Seal
  <2>0. seals \in Nat BY DEF ReceiptsTypes
  <2>1. seals' \in Nat BY <1>1, <2>0 DEF Seal
  <2>2. sealed' \in BOOLEAN BY <1>1 DEF Seal
  <2> QED BY <1>1, <2>1, <2>2 DEF ReceiptsTypes, Seal, BackupSame, chainVars
<1>2. CASE Rotate BY <1>2 DEF ReceiptsTypes, Rotate, BackupSame, chainVars, Deferred, Kinds
<1>3. CASE CopyRoots BY <1>3 DEF ReceiptsTypes, CopyRoots, BackupSame, chainVars
<1>4. CASE CopyGenerations BY <1>4 DEF ReceiptsTypes, CopyGenerations, BackupSame, chainVars, Kinds
<1> QED BY <1>1, <1>2, <1>3, <1>4 DEF Backup


\* What an action of the engine leaves alone.
LEMMA SameTypes ==
  ASSUME ReceiptsTypes, Same,
         receipt' \in [Occ -> Receipts], closed' \in [Occ -> {"open", "completed", "rejected"}],
         disk' \in Seq(Item), mem' \in Seq(Item), batch' \in Seq(Occ), last' \in Nat, blocked' \in 0..N,
         engine' \in {"down", "ready", "state", "jobs", "complete", "heartbeat", "restore",
                 "restore state", "restore jobs", "restore complete"},
         crashes' \in Nat, failures' \in Nat, losses' \in Nat
  PROVE ReceiptsTypes'
BY DEF ReceiptsTypes, Same, backupVars

\* The phases of a commit.
LEMMA PhaseTyped ==
  ASSUME NEW o, SaveState(o) \/ (\E j \in unqueued : EnqueueJob(j)) \/ Materialised \/ CompleteReceipt(o)
  PROVE /\ SaveState(o) => \/ engine = "state" /\ engine' = "jobs"
                           \/ engine = "restore state" /\ engine' = "restore jobs"
        /\ (\E j \in unqueued : EnqueueJob(j)) => engine \in {"jobs", "restore jobs"} /\ engine' = engine
        /\ Materialised => \/ engine = "jobs" /\ engine' = "complete"
                           \/ engine = "restore jobs" /\ engine' = "restore complete"
        /\ CompleteReceipt(o) => \/ engine = "complete" /\ engine' \in {"complete", "ready"}
                                 \/ engine = "restore complete" /\ engine' \in {"restore complete", "restore"}
<1>1. SaveState(o) => \/ engine = "state" /\ engine' = "jobs"
                      \/ engine = "restore state" /\ engine' = "restore jobs"
  BY DEF SaveState, Phase, Restoring
<1>2. (\E j \in unqueued : EnqueueJob(j)) => engine \in {"jobs", "restore jobs"} /\ engine' = engine
  BY DEF EnqueueJob, Phase, Restoring
<1>3. Materialised => \/ engine = "jobs" /\ engine' = "complete"
                      \/ engine = "restore jobs" /\ engine' = "restore complete"
  BY DEF Materialised, Phase, Restoring
<1>4. CompleteReceipt(o) => \/ engine = "complete" /\ engine' \in {"complete", "ready"}
                            \/ engine = "restore complete" /\ engine' \in {"restore complete", "restore"}
  BY DEF CompleteReceipt, Phase, Restoring
<1> QED BY <1>1, <1>2, <1>3, <1>4

\* Types: the engine starts, drains and saves a heartbeat.
LEMMA EngineTypes1 ==
  ASSUME ReceiptsTypes, ReceiptsAssumption, Drain \/ HeartbeatSaves \/ Start \/ Started \/ Materialised
  PROVE ReceiptsTypes'
<1>1. CASE Drain
  <2>1. PendingReceipts \in SUBSET Occ BY DEF PendingReceipts, ReceiptsTypes
  <2>2. batch' \in Seq(Occ) BY <1>1, <2>1, ListedFacts DEF Drain
  <2> QED BY <1>1, <2>2 DEF Drain, ReceiptsTypes, Same, backupVars
<1>2. CASE HeartbeatSaves BY <1>2 DEF HeartbeatSaves, ReceiptsTypes, Same, backupVars
<1>3. CASE Start
  <2>1. {o \in PendingReceipts : receipt[o].status = "prepared"} \in SUBSET Occ BY DEF PendingReceipts, ReceiptsTypes
  <2>2. batch' \in Seq(Occ) BY <1>3, <2>1, ListedFacts DEF Start
  <2> QED BY <1>3, <2>2 DEF Start, ReceiptsTypes, Same, backupVars
<1>4. CASE Started
  <2> DEFINE T == {receipt[o].t : o \in PendingReceipts}
  <2>1. IsFiniteSet(T)
    <3>1. IsFiniteSet(Occ) BY OccFinite
    <3>2. IsFiniteSet(PendingReceipts) BY <3>1, FS_Subset DEF PendingReceipts, ReceiptsTypes
    <3> DEFINE f == [o \in PendingReceipts |-> receipt[o].t]
    <3>3. f \in Surjection(PendingReceipts, T) BY DEF Surjection
    <3> QED BY <3>2, <3>3, FS_Surjection
  <2>2. Watermark(disk) \in Nat BY WatermarkBounds DEF ReceiptsTypes
  <2>3. T \in SUBSET Nat
    <3>1. \A o \in PendingReceipts : receipt[o].t \in Nat BY DEF PendingReceipts, Receipts, ReceiptsTypes
    <3> QED BY <3>1
  <2> HIDE DEF T
  <2>4. {Watermark(disk)} \cup T \in SUBSET Nat /\ IsFiniteSet({Watermark(disk)} \cup T)
    <3>1. T \cup {Watermark(disk)} = {Watermark(disk)} \cup T OBVIOUS
    <3> QED BY <2>1, <2>2, <2>3, <3>1, FS_AddElement
  <2>5. last' = Max({Watermark(disk)} \cup T) BY <1>4 DEF Started, T
  <2>6. last' \in Nat BY <2>4, <2>5, MaxIsLargest
  <2>7. /\ mem' = disk /\ blocked' = None /\ engine' = "ready"
        /\ UNCHANGED <<unqueued, receipt, closed, disk, spool, delivered, batch, crashes, failures, losses>>
        /\ UNCHANGED <<raised, told, outbox, ingress, rotated, requests, replies, backupVars>>
    BY <1>4 DEF Started, Same
  <2>8. blocked' \in 0..N BY <2>7, NoneTyped
  <2> QED BY <2>6, <2>7, <2>8 DEF ReceiptsTypes, backupVars
<1>5. CASE Materialised
  <2>1. engine' \in {"complete", "restore complete"} BY <1>5, PhaseTyped
  <2> QED BY <1>5, <2>1, NoneTyped, SameTypes DEF Materialised, ReceiptsTypes
<1> QED BY <1>1, <1>2, <1>3, <1>4, <1>5

\* The rest of a batch.
LEMMA TailTyped ==
  ASSUME NEW b \in Seq(Occ), b # <<>>
  PROVE /\ Tail(b) \in Seq(Occ) /\ Head(b) = b[1] /\ Head(b) \in Occ /\ 1 \in DOMAIN b
        /\ DOMAIN Tail(b) = 1..(Len(b) - 1) /\ \A i \in DOMAIN Tail(b) : i + 1 \in DOMAIN b /\ Tail(b)[i] = b[i + 1]
OBVIOUS

\* Types: the head of the batch is prepared, resumed or rejected.
LEMMA HeadTypes ==
  ASSUME ReceiptsTypes, ReceiptsAssumption, NEW o \in Occ, Prepare(o) \/ ResumeReceipt(o) \/ Reject(o)
  PROVE ReceiptsTypes'
<1>1. CASE Prepare(o)
  <2>1. <<o, receipt[o].t>> \in Item BY NoneTyped DEF ReceiptsTypes, Receipts, Item
  <2>2. mem' \in Seq(Item)
    <3>1. mem \in Seq(Item) BY DEF ReceiptsTypes
    <3> QED BY <1>1, <2>1, <3>1, Appended DEF Prepare
  <2>3. receipt' \in [Occ -> Receipts]
    <3>1. receipt[o] \in Receipts BY DEF ReceiptsTypes
    <3>2. [[receipt[o] EXCEPT !.status = "prepared"] EXCEPT !.prepared = mem'] \in Receipts BY <2>2, <3>1 DEF Receipts
    <3>3. [receipt[o] EXCEPT !.status = "prepared", !.prepared = mem']
            = [[receipt[o] EXCEPT !.status = "prepared"] EXCEPT !.prepared = mem'] BY <3>1 DEF Receipts
    <3>4. receipt' = [receipt EXCEPT ![o] = [receipt[o] EXCEPT !.status = "prepared", !.prepared = mem']]
      BY <1>1 DEF Prepare
    <3> QED BY <3>2, <3>3, <3>4 DEF ReceiptsTypes
  <2> QED BY <1>1, <2>2, <2>3, NoneTyped, SameTypes DEF Prepare, ReceiptsTypes
<1>2. CASE ResumeReceipt(o) BY <1>2, NoneTyped, SameTypes DEF ResumeReceipt, ReceiptsTypes
<1>3. CASE Reject(o)
  <2>1. NoReceipt \in Receipts BY DEF NoReceipt, Receipts
  <2>2. receipt' \in [Occ -> Receipts] BY <1>3, <2>1 DEF Reject, ReceiptsTypes
  <2>3. closed' \in [Occ -> {"open", "completed", "rejected"}] BY <1>3 DEF Reject, ReceiptsTypes
  <2>4. batch' \in Seq(Occ) BY <1>3, TailTyped DEF Reject, ReceiptsTypes
  <2> QED BY <1>3, <2>2, <2>3, <2>4, SameTypes DEF Reject, ReceiptsTypes
<1> QED BY <1>1, <1>2, <1>3

\* Types: the head of the batch is committed.
LEMMA CommitTypes ==
  ASSUME ReceiptsInv, ReceiptsAssumption, NEW o \in Occ,
         SaveState(o) \/ (\E j \in unqueued : EnqueueJob(j)) \/ CompleteReceipt(o)
  PROVE ReceiptsTypes'
<1>0. ReceiptsTypes BY DEF ReceiptsInv
<1>1. CASE SaveState(o)
  <2>1. receipt[o].prepared \in Seq(Item) BY <1>0 DEF ReceiptsTypes, Receipts
  <2> QED BY <1>0, <1>1, <2>1, PhaseTyped, SameTypes DEF SaveState, ReceiptsTypes
<1>2. CASE \E j \in unqueued : EnqueueJob(j)
  BY <1>0, <1>2, PhaseTyped, SameTypes DEF EnqueueJob, ReceiptsTypes
<1>3. CASE CompleteReceipt(o)
  <2>1. NoReceipt \in Receipts BY DEF NoReceipt, Receipts
  <2>2. batch # <<>> BY <1>3, PhaseTyped DEF CompleteReceipt, ReceiptsInv, CoreInv, CommitPhases, Completing
  <2>3. engine' \in {"complete", "ready", "restore complete", "restore"} BY <1>3, PhaseTyped
  <2>4. receipt' \in [Occ -> Receipts] BY <1>0, <1>3, <2>1 DEF CompleteReceipt, ReceiptsTypes
  <2>5. closed' \in [Occ -> {"open", "completed", "rejected"}] BY <1>0, <1>3 DEF CompleteReceipt, ReceiptsTypes
  <2>6. batch' \in Seq(Occ)
    <3>1. batch' = batch \/ batch' = Tail(batch) BY <1>3 DEF CompleteReceipt
    <3>2. batch \in Seq(Occ) BY <1>0 DEF ReceiptsTypes
    <3> QED BY <3>1, <3>2, <2>2, TailTyped
  <2> QED BY <1>0, <1>3, <2>3, <2>4, <2>5, <2>6, SameTypes DEF CompleteReceipt, ReceiptsTypes
<1> QED BY <1>1, <1>2, <1>3

\* Types: heartbeats, failures, deaths and deliveries.
LEMMA OtherTypes ==
  ASSUME ReceiptsTypes, ReceiptsAssumption,
         DrainFails \/ Heartbeat \/ DaemonDies \/ (\E j \in spool : DeliverJob(j))
  PROVE ReceiptsTypes'
<1>1. CASE DrainFails
  <2>0. failures \in Nat BY DEF ReceiptsTypes
  <2>1. failures' \in Nat BY <1>1, <2>0 DEF DrainFails
  <2>2. batch' = <<>> /\ batch' \in Seq(Occ) BY <1>1 DEF DrainFails
  <2>3. engine' = "ready" /\ Same /\ UNCHANGED <<receipt, closed, disk, mem, last, blocked, crashes, losses>>
    BY <1>1 DEF DrainFails
  <2> QED BY <2>1, <2>2, <2>3, SameTypes DEF ReceiptsTypes
<1>2. CASE Heartbeat
  <2>1. mem \in Seq(Item) BY DEF ReceiptsTypes
  <2>2. Watermark(mem) \in Nat BY <2>1, WatermarkBounds
  <2>3. <<None, Watermark(mem) + 1>> \in Item BY <2>2, NoneTyped DEF Item
  <2>4. mem' \in Seq(Item) BY <1>2, <2>1, <2>3, Appended DEF Heartbeat
  <2> QED BY <1>2, <2>4, SameTypes DEF Heartbeat, ReceiptsTypes
<1>3. CASE DaemonDies
  <2>0. crashes \in Nat BY DEF ReceiptsTypes
  <2>1. crashes' \in Nat BY <1>3, <2>0 DEF DaemonDies
  <2>2. mem' \in Seq(Item) /\ batch' \in Seq(Occ) BY <1>3 DEF DaemonDies
  <2> QED BY <1>3, <2>1, <2>2, NoneTyped, SameTypes DEF DaemonDies, ReceiptsTypes
<1>4. CASE \E j \in spool : DeliverJob(j) BY <1>4, SameTypes DEF DeliverJob, ReceiptsTypes
<1> QED BY <1>1, <1>2, <1>3, <1>4

\* Every step keeps the types.
LEMMA TypesStep ==
  ASSUME ReceiptsInv, ReceiptsAssumption, [ReceiptsNext]_receiptsVars PROVE ReceiptsTypes'
<1>0. ReceiptsTypes BY DEF ReceiptsInv
<1>1. CASE Engine
  BY <1>0, <1>1, EngineTypes1, HeadTypes, CommitTypes DEF Engine, Occ
<1>2. CASE Reconcile BY <1>0, <1>2, ReceiverTypes DEF Reconcile
<1>3. CASE Backup \/ Seal BY <1>0, <1>3, BackupTypes
<1>4. CASE DaemonDies \/ Heartbeat \/ DrainFails \/ (\E j \in spool : DeliverJob(j)) BY <1>0, <1>4, OtherTypes
<1>5. ASSUME NEW o \in Occ, Persist(o) \/ PostOccurrence(o) \/ AcceptOccurrence(o) \/ Lose(o) \/ Acknowledge(o)
      PROVE ReceiptsTypes'
  BY <1>0, <1>5, RelayTypes, ReceiverTypes
<1>6. CASE UNCHANGED receiptsVars BY <1>0, <1>6 DEF ReceiptsTypes, receiptsVars
<1> QED BY <1>1, <1>2, <1>3, <1>4, <1>5, <1>6 DEF ReceiptsNext

-----------------------------------------------------------------------------
\* The invariant of receipts and states, action by action.
\* Actions of the relay, the ingress journal, the backup and the spool's processor.
LEMMA CoreFrame ==
  ASSUME CoreInv, UNCHANGED <<receipt, closed, disk, mem, last, engine, batch, failures, unqueued>>,
         spool \cup delivered \subseteq spool' \cup delivered'
  PROVE CoreInv'
<1>1. StatesRegular' BY DEF CoreInv, StatesRegular, Serving, Restoring, Prepared
<1>2. TimesKnown' BY DEF CoreInv, TimesKnown, Serving, Restoring, Open, Within
<1>3. ReceiptsOrdered' BY DEF CoreInv, ReceiptsOrdered, Open, Prepared
<1>4. BatchOrdered' BY DEF CoreInv, BatchOrdered, Serving, Restoring, Open, Prepared
<1>5. CommitPhases'
  <2>1. CommitPhases BY DEF CoreInv
  <2>2. \A S : S \subseteq spool \cup delivered => S \subseteq spool' \cup delivered' OBVIOUS
  <2>3. \A S : S \subseteq unqueued \cup spool \cup delivered => S \subseteq unqueued' \cup spool' \cup delivered' OBVIOUS
  <2> QED BY <2>1, <2>2, <2>3 DEF CommitPhases
<1>6. GrowsWithoutFailure' BY DEF CoreInv, GrowsWithoutFailure, Serving, Restoring, Prepared, Extends
<1> QED BY <1>1, <1>2, <1>3, <1>4, <1>5, <1>6 DEF CoreInv

\* A new receipt is later than all that is applied or pending.
LEMMA RecordCore ==
  ASSUME ReceiptsTypes, ReceiptsAssumption, CoreInv, NEW o \in Occ, ~HasRecord(o), Record(o), Serving,
         UNCHANGED <<closed, disk, mem, engine, batch, failures, unqueued, spool, delivered>>
  PROVE CoreInv'
<1>0. /\ receipt' = [receipt EXCEPT ![o] = [status |-> "accepted", t |-> NextTime, prepared |-> <<>>]]
      /\ last' = NextTime
  BY DEF Record
<1>1. NextTime \in Nat /\ last < NextTime /\ \A i \in DOMAIN mem : mem[i][2] < NextTime
  BY NextTimeLater DEF ReceiptsTypes
<1>2. receipt[o].status = "none" /\ closed[o] = "open" BY DEF HasRecord
<1>3. /\ receipt'[o].status = "accepted" /\ receipt'[o].t = NextTime
      /\ \A p \in Occ \ {o} : receipt'[p] = receipt[p]
  BY <1>0 DEF ReceiptsTypes
<1>4. Serving' BY DEF Serving, Restoring
<1>5. \A p \in Occ : Prepared(p)' => Prepared(p) /\ p # o BY <1>3 DEF Prepared
<1>6. \A p \in Occ : Open(p)' => p = o \/ (Open(p) /\ p # o) BY <1>3 DEF Open
<1>7. last \in Nat /\ \A p \in Occ : receipt[p].t \in Nat BY DEF ReceiptsTypes, Receipts
<1>8. \A p \in Occ : Prepared(p) => Open(p) BY DEF Prepared, Open
<1>9. ASSUME NEW s \in Seq(Item), Regular(s, receipt, closed), Within(s, last)
      PROVE Regular(s, receipt', closed')
  <2>1. \A i \in DOMAIN s : s[i][1] \in 0..N /\ s[i][2] \in Nat BY DEF Item
  <2>2. Ordered(s) BY <1>9 DEF Regular
  <2>3. ASSUME NEW i \in DOMAIN s, s[i][1] # None
        PROVE receipt'[s[i][1]].status = "prepared" \/ closed'[s[i][1]] = "completed"
    <3>1. s[i][1] \in Occ BY <2>1, <2>3, NoneTyped DEF None, Occ
    <3>2. receipt[s[i][1]].status = "prepared" \/ closed[s[i][1]] = "completed" BY <1>9, <2>3 DEF Regular
    <3> QED BY <3>1, <3>2, <1>2, <1>3
  <2>4. ASSUME NEW p \in Occ, receipt'[p].status = "accepted", NEW i \in DOMAIN s, s[i][1] # None
        PROVE s[i][2] < receipt'[p].t
    <3>1. CASE p = o BY <3>1, <1>1, <1>3, <1>7, <1>9, <2>1, <2>4 DEF Within
    <3>2. CASE p # o BY <3>2, <1>3, <1>9, <2>4 DEF Regular
    <3> QED BY <3>1, <3>2
  <2> QED BY <2>2, <2>3, <2>4 DEF Regular
<1>10. StatesRegular'
  <2>1. Within(disk, last) /\ Within(mem, last) BY DEF CoreInv, TimesKnown
  <2>2. disk \in Seq(Item) /\ mem \in Seq(Item) BY DEF ReceiptsTypes
  <2>3. Regular(disk, receipt', closed') /\ Regular(mem, receipt', closed')
    BY <2>1, <2>2, <1>9 DEF CoreInv, StatesRegular
  <2>4. ASSUME NEW p \in Occ, Prepared(p)'
        PROVE /\ Regular(receipt'[p].prepared, receipt', closed') /\ Covers(receipt'[p].prepared, closed)
              /\ Has(receipt'[p].prepared, p) /\ Within(receipt'[p].prepared, receipt'[p].t)
    <3> DEFINE s == receipt[p].prepared
    <3>1. Prepared(p) /\ p # o BY <1>5, <2>4
    <3>2. receipt'[p] = receipt[p] BY <1>3, <3>1
    <3>3. s \in Seq(Item) BY DEF ReceiptsTypes, Receipts
    <3>4. /\ Regular(s, receipt, closed) /\ Covers(s, closed) /\ Has(s, p) /\ Within(s, receipt[p].t)
      BY <3>1 DEF CoreInv, StatesRegular
    <3>5. receipt[p].t <= last BY <3>1, <1>8 DEF CoreInv, TimesKnown
    <3>6. \A i \in DOMAIN s : s[i][2] \in Nat BY <3>3 DEF Item
    <3> HIDE DEF s
    <3>7. Within(s, last) BY <3>4, <3>5, <3>6, <1>7 DEF Within
    <3>8. Regular(s, receipt', closed') BY <3>3, <3>4, <3>7, <1>9
    <3> USE DEF s
    <3> QED BY <3>2, <3>4, <3>8
  <2>5. /\ Covers(disk, closed) /\ Covers(mem, closed)
        /\ \A q \in Occ : Has(disk, q) => Has(mem, q)
    BY DEF CoreInv, StatesRegular
  <2> QED BY <2>3, <2>4, <2>5 DEF StatesRegular, Has
<1>11. TimesKnown'
  <2>1. Within(disk, last) /\ Within(mem, last) /\ \A p \in Occ : Open(p) => receipt[p].t <= last
    BY DEF CoreInv, TimesKnown
  <2>2. \A s \in Seq(Item) : Within(s, last) => Within(s, NextTime)
    BY <1>1, <1>7 DEF Within, Item
  <2>3. Within(disk, NextTime) /\ Within(mem, NextTime) BY <2>1, <2>2 DEF ReceiptsTypes
  <2>4. \A p \in Occ : Open(p)' => receipt'[p].t <= NextTime BY <1>1, <1>3, <1>6, <1>7, <2>1
  <2> QED BY <1>0, <2>3, <2>4 DEF TimesKnown, Within
<1>12. ReceiptsOrdered'
  <2>1. \A p \in Occ : Open(p) => receipt[p].t < NextTime BY <1>1, <1>7 DEF CoreInv, TimesKnown
  <2>2. ReceiptsOrdered BY DEF CoreInv
  <2>3. \A p, q \in Occ : Open(p)' /\ Open(q)' /\ p # q => receipt'[p].t # receipt'[q].t
    BY <1>1, <1>3, <1>6, <1>7, <2>1, <2>2 DEF ReceiptsOrdered
  <2>4. \A q, p \in Occ : Open(q)' /\ Prepared(p)' /\ q # p => receipt'[p].t < receipt'[q].t
    BY <1>3, <1>5, <1>6, <1>8, <2>1, <2>2 DEF ReceiptsOrdered
  <2> QED BY <2>2, <2>3, <2>4, <1>2, <1>3 DEF ReceiptsOrdered
<1>13. BatchOrdered'
  <2>1. BatchOrdered /\ batch \in Seq(Occ) BY DEF CoreInv, ReceiptsTypes
  <2>2. \A i \in DOMAIN batch : batch[i] \in Occ /\ batch[i] # o
    BY <2>1, <1>2 DEF BatchOrdered
  <2>3. \A i \in DOMAIN batch : receipt'[batch[i]] = receipt[batch[i]] /\ (Open(batch[i])' <=> Open(batch[i]))
    BY <2>2, <1>3 DEF Open
  <2>4. \A p \in Occ : Open(p)' =>
       \/ \E i \in DOMAIN batch : batch[i] = p
       \/ \A i \in DOMAIN batch : Open(batch[i])' => receipt'[batch[i]].t < receipt'[p].t
    <3>1. \A i \in DOMAIN batch : Open(batch[i])' => receipt'[batch[i]].t < receipt'[o].t
      <4>1. \A p \in Occ : Open(p) => receipt[p].t < NextTime BY <1>1, <1>7 DEF CoreInv, TimesKnown
      <4> QED BY <4>1, <2>2, <2>3, <1>3
    <3>2. \A p \in Occ : Open(p) =>
       \/ \E i \in DOMAIN batch : batch[i] = p
       \/ \A i \in DOMAIN batch : Open(batch[i]) => receipt[batch[i]].t < receipt[p].t
      BY <2>1 DEF BatchOrdered
    <3> QED BY <3>1, <3>2, <1>3, <1>6, <2>3
  <2> QED BY <2>1, <2>3, <2>4, <1>5 DEF BatchOrdered, Restoring, Serving
<1>14. CommitPhases'
  <2>1. CommitPhases /\ (batch # <<>> => batch[1] # o /\ batch[1] \in Occ)
    <3>1. batch \in Seq(Occ) /\ CommitPhases /\ BatchOrdered BY DEF CoreInv, ReceiptsTypes
    <3>2. batch # <<>> => 1 \in DOMAIN batch BY <3>1
    <3> QED BY <3>1, <3>2, <1>2 DEF BatchOrdered
  <2> QED BY <2>1, <1>3 DEF CommitPhases, Completing
<1>15. GrowsWithoutFailure'
  <2>1. GrowsWithoutFailure BY DEF CoreInv
  <2>2. /\ UNCHANGED <<disk, mem, engine, failures>> /\ (Serving' <=> Serving)
        /\ \A s, u : Extends(s, u)' <=> Extends(s, u)
    BY DEF Serving, Restoring, Extends
  <2>3. \A p \in Occ : Prepared(p)' => Prepared(p) /\ receipt'[p].prepared = receipt[p].prepared
    BY <1>3, <1>5
  <2>4. /\ (Serving' => Extends(disk, mem)') <=> (Serving => Extends(disk, mem))
        /\ Extends(disk, mem)' <=> Extends(disk, mem)
    BY <2>2 DEF Extends
  <2>5. \A p \in Occ : Prepared(p)' => (Extends(disk, receipt[p].prepared)' <=> Extends(disk, receipt[p].prepared))
    BY <2>2, <2>3 DEF Extends
  <2> QED BY <2>1, <2>2, <2>3, <2>4, <2>5 DEF GrowsWithoutFailure
<1> QED BY <1>10, <1>11, <1>12, <1>13, <1>14, <1>15 DEF CoreInv

\* A heartbeat keeps a state regular.
LEMMA AppendNone ==
  ASSUME NEW s \in Seq(Item), NEW e \in Item, e[1] = None, NEW u, u = Append(s, e)
  PROVE /\ \A r, c : Regular(s, r, c) => Regular(u, r, c)
        /\ \A c : Covers(s, c) => Covers(u, c)
        /\ \A t : Within(s, t) => Within(u, t)
        /\ \A o : Has(s, o) => Has(u, o)
        /\ \A d \in Seq(Item) : Extends(d, s) => Extends(d, u)
<1>1. /\ \A i \in DOMAIN u : u[i][1] # None => i \in DOMAIN s /\ u[i] = s[i]
      /\ \A i \in DOMAIN s : i \in DOMAIN u /\ u[i] = s[i]
      /\ Len(u) = Len(s) + 1
  BY Appended
<1>2. \A o : Has(s, o) => Has(u, o) BY <1>1 DEF Has
<1>3. Ordered(s) => Ordered(u) BY <1>1 DEF Ordered
<1>4. \A r, c : Regular(s, r, c) => Regular(u, r, c) BY <1>1, <1>3 DEF Regular
<1>5. \A t : Within(s, t) => Within(u, t) BY <1>1 DEF Within
<1>6. \A d \in Seq(Item) : Extends(d, s) => Extends(d, u) BY <1>1 DEF Extends
<1> QED BY <1>2, <1>4, <1>5, <1>6 DEF Covers

\* The engine ticks in memory.
LEMMA HeartbeatCore ==
  ASSUME ReceiptsTypes, ReceiptsAssumption, CoreInv, Heartbeat PROVE CoreInv'
<1> DEFINE e == <<None, Watermark(mem) + 1>>
<1>1. mem \in Seq(Item) /\ disk \in Seq(Item) BY DEF ReceiptsTypes
<1>2. Watermark(mem) \in Nat BY <1>1, WatermarkBounds
<1>3. e \in Item /\ e[1] = None BY <1>2, NoneTyped DEF Item
<1>4. /\ engine = "ready" /\ engine' = "heartbeat" /\ mem' = Append(mem, e) /\ spool \subseteq spool'
      /\ UNCHANGED <<unqueued, receipt, closed, disk, delivered, last, batch, failures>>
  BY DEF Heartbeat
<1> HIDE DEF e
<1>5. /\ \A r, c : Regular(mem, r, c) => Regular(mem', r, c)
      /\ \A c : Covers(mem, c) => Covers(mem', c)
      /\ \A t : Within(mem, t) => Within(mem', t)
      /\ \A o : Has(mem, o) => Has(mem', o)
      /\ \A d \in Seq(Item) : Extends(d, mem) => Extends(d, mem')
  BY <1>1, <1>3, <1>4, AppendNone
<1>6. Serving /\ Serving' /\ ~Restoring /\ ~Restoring' BY <1>4 DEF Serving, Restoring
<1>7. StatesRegular' BY <1>4, <1>5, <1>6 DEF CoreInv, StatesRegular, Prepared
<1>8. TimesKnown' BY <1>4, <1>5, <1>6 DEF CoreInv, TimesKnown, Open
<1>9. ReceiptsOrdered' BY <1>4 DEF CoreInv, ReceiptsOrdered, Open, Prepared
<1>10. BatchOrdered' BY <1>4, <1>6 DEF CoreInv, BatchOrdered, Open, Prepared, Completing
<1>11. CommitPhases' BY <1>4 DEF CoreInv, CommitPhases, Completing
<1>12. GrowsWithoutFailure' BY <1>1, <1>4, <1>5, <1>6 DEF CoreInv, GrowsWithoutFailure, Prepared
<1> QED BY <1>7, <1>8, <1>9, <1>10, <1>11, <1>12 DEF CoreInv

\* The state of a heartbeat reaches the disk.
LEMMA HeartbeatSavesCore ==
  ASSUME ReceiptsTypes, ReceiptsAssumption, CoreInv, HeartbeatSaves PROVE CoreInv'
<1>1. /\ engine = "heartbeat" /\ engine' = "ready" /\ disk' = mem
      /\ UNCHANGED <<unqueued, receipt, closed, spool, delivered, mem, last, batch, failures>>
  BY DEF HeartbeatSaves
<1>2. Serving /\ Serving' /\ ~Restoring /\ ~Restoring' BY <1>1 DEF Serving, Restoring
<1>3. StatesRegular' BY <1>1, <1>2 DEF CoreInv, StatesRegular, Prepared
<1>4. TimesKnown' BY <1>1, <1>2 DEF CoreInv, TimesKnown, Open
<1>5. ReceiptsOrdered' BY <1>1 DEF CoreInv, ReceiptsOrdered, Open, Prepared
<1>6. BatchOrdered' BY <1>1, <1>2 DEF CoreInv, BatchOrdered, Open, Prepared, Completing
<1>7. CommitPhases' BY <1>1 DEF CoreInv, CommitPhases, Completing
<1>0. mem \in Seq(Item) BY DEF ReceiptsTypes
<1>8. Extends(mem, mem) BY <1>0 DEF Extends
<1>9. GrowsWithoutFailure' BY <1>1, <1>2, <1>8 DEF CoreInv, GrowsWithoutFailure, Prepared
<1> QED BY <1>3, <1>4, <1>5, <1>6, <1>7, <1>9 DEF CoreInv

\* A prepared receipt is taken up again.
LEMMA ResumeCore ==
  ASSUME ReceiptsTypes, ReceiptsAssumption, CoreInv, NEW o \in Occ, ResumeReceipt(o) PROVE CoreInv'
<1>1. /\ \/ engine = "ready" /\ engine' = "state"
         \/ engine = "restore" /\ engine' = "restore state"
      /\ batch # <<>> /\ o = batch[1] /\ receipt[o].status = "prepared"
      /\ UNCHANGED <<unqueued, receipt, closed, disk, spool, delivered, mem, last, batch, failures>>
  BY TailTyped DEF ResumeReceipt, ReceiptsTypes
<1>2. (Serving' <=> Serving) /\ (Restoring' <=> Restoring) BY <1>1 DEF Serving, Restoring
<1>3. StatesRegular' BY <1>1, <1>2 DEF CoreInv, StatesRegular, Prepared
<1>4. TimesKnown' BY <1>1, <1>2 DEF CoreInv, TimesKnown, Open
<1>5. ReceiptsOrdered' BY <1>1 DEF CoreInv, ReceiptsOrdered, Open, Prepared
<1>6. BatchOrdered' BY <1>1, <1>2 DEF CoreInv, BatchOrdered, Open, Prepared, Completing
<1>7. CommitPhases' BY <1>1 DEF CoreInv, CommitPhases, Completing
<1>8. GrowsWithoutFailure' BY <1>1, <1>2 DEF CoreInv, GrowsWithoutFailure, Prepared
<1> QED BY <1>3, <1>4, <1>5, <1>6, <1>7, <1>8 DEF CoreInv

\* A job of the prepared step is spooled.
LEMMA EnqueueCore ==
  ASSUME ReceiptsTypes, ReceiptsAssumption, CoreInv, NEW j \in unqueued, EnqueueJob(j) PROVE CoreInv'
<1>1. /\ engine' = engine /\ engine \in {"jobs", "restore jobs"}
      /\ spool' = spool \cup {j} /\ unqueued' = unqueued \ {j}
      /\ UNCHANGED <<receipt, closed, disk, delivered, mem, last, batch, failures>>
  BY DEF EnqueueJob, Phase, Restoring
<1>2. (Serving' <=> Serving) /\ (Restoring' <=> Restoring) BY <1>1 DEF Serving, Restoring
<1>3. StatesRegular' BY <1>1, <1>2 DEF CoreInv, StatesRegular, Prepared
<1>4. TimesKnown' BY <1>1, <1>2 DEF CoreInv, TimesKnown, Open
<1>5. ReceiptsOrdered' BY <1>1 DEF CoreInv, ReceiptsOrdered, Open, Prepared
<1>6. BatchOrdered' BY <1>1, <1>2 DEF CoreInv, BatchOrdered, Open, Prepared
<1>7. CommitPhases'
  <2>1. \A S : S \subseteq unqueued \cup spool \cup delivered => S \subseteq unqueued' \cup spool' \cup delivered' BY <1>1
  <2>2. \A S : S \subseteq spool \cup delivered => S \subseteq spool' \cup delivered' BY <1>1
  <2>3. CommitPhases BY DEF CoreInv
  <2> QED BY <1>1, <2>1, <2>2, <2>3 DEF CommitPhases, Completing
<1>8. GrowsWithoutFailure' BY <1>1, <1>2 DEF CoreInv, GrowsWithoutFailure, Prepared
<1> QED BY <1>3, <1>4, <1>5, <1>6, <1>7, <1>8 DEF CoreInv

\* All jobs of the prepared step are spooled.
LEMMA MaterialisedCore ==
  ASSUME ReceiptsTypes, ReceiptsAssumption, CoreInv, Materialised PROVE CoreInv'
<1>1. /\ \/ engine = "jobs" /\ engine' = "complete"
         \/ engine = "restore jobs" /\ engine' = "restore complete"
      /\ unqueued = {}
      /\ UNCHANGED <<unqueued, receipt, closed, disk, spool, delivered, mem, last, batch, failures>>
  BY DEF Materialised, Phase, Restoring
<1>2. (Serving' <=> Serving) /\ (Restoring' <=> Restoring) BY <1>1 DEF Serving, Restoring
<1>3. StatesRegular' BY <1>1, <1>2 DEF CoreInv, StatesRegular, Prepared
<1>4. TimesKnown' BY <1>1, <1>2 DEF CoreInv, TimesKnown, Open
<1>5. ReceiptsOrdered' BY <1>1 DEF CoreInv, ReceiptsOrdered, Open, Prepared
<1>6. BatchOrdered' BY <1>1, <1>2 DEF CoreInv, BatchOrdered, Open, Prepared, Completing
<1>7. CommitPhases' BY <1>1 DEF CoreInv, CommitPhases, Completing
<1>8. GrowsWithoutFailure' BY <1>1, <1>2 DEF CoreInv, GrowsWithoutFailure, Prepared
<1> QED BY <1>3, <1>4, <1>5, <1>6, <1>7, <1>8 DEF CoreInv

\* The prepared state replaces the one on disk and in memory.
LEMMA SaveStateCore ==
  ASSUME ReceiptsTypes, ReceiptsAssumption, CoreInv, NEW o \in Occ, SaveState(o) PROVE CoreInv'
<1>1. /\ \/ engine = "state" /\ engine' = "jobs"
         \/ engine = "restore state" /\ engine' = "restore jobs"
      /\ UNCHANGED <<receipt, closed, spool, delivered, last, batch, failures>>
      /\ disk' = receipt[o].prepared /\ mem' = receipt[o].prepared /\ unqueued' = JobsOf(<<o, receipt[o].t>>)
      /\ o = Head(batch)
  BY DEF SaveState, Phase, Restoring
<1>2. batch # <<>> /\ o = batch[1] /\ receipt[o].status = "prepared"
  BY <1>1, TailTyped DEF CoreInv, CommitPhases, ReceiptsTypes
<1>3. Prepared(o) /\ Open(o)
  <2>0. batch \in Seq(Occ) BY DEF ReceiptsTypes
  <2>1. 1 \in DOMAIN batch BY <1>2, <2>0, TailTyped
  <2>2. closed[o] # "completed" BY <1>1, <1>2, <2>1 DEF CoreInv, BatchOrdered, Completing
  <2> QED BY <1>2, <2>2 DEF Prepared, Open
<1>4. (Serving' <=> Serving) /\ (Restoring' <=> Restoring) BY <1>1 DEF Serving, Restoring
<1> DEFINE u == receipt[o].prepared
<1>5. u \in Seq(Item) /\ receipt[o].t \in Nat BY DEF ReceiptsTypes, Receipts
<1>6. /\ Regular(u, receipt, closed) /\ Covers(u, closed) /\ Has(u, o) /\ Within(u, receipt[o].t)
  BY <1>3 DEF CoreInv, StatesRegular
<1>7. disk' = u /\ mem' = u BY <1>1
<1>8. \A p \in Occ : Prepared(p) => p = o BY <1>2 DEF CoreInv, BatchOrdered
<1> HIDE DEF u
<1>9. StatesRegular' BY <1>1, <1>4, <1>6, <1>7 DEF CoreInv, StatesRegular, Prepared
<1>10. TimesKnown'
  <2>1. Serving => receipt[o].t <= last BY <1>3 DEF CoreInv, TimesKnown
  <2>2. \A i \in DOMAIN u : u[i][2] \in Nat BY <1>5 DEF Item
  <2>3. last \in Nat BY DEF ReceiptsTypes
  <2>4. Serving => Within(u, last) BY <1>5, <1>6, <2>1, <2>2, <2>3 DEF Within
  <2> QED BY <1>1, <1>4, <1>7, <2>4 DEF CoreInv, TimesKnown, Open
<1>11. ReceiptsOrdered' BY <1>1 DEF CoreInv, ReceiptsOrdered, Open, Prepared
<1>12. BatchOrdered' BY <1>1, <1>4 DEF CoreInv, BatchOrdered, Open, Prepared, Completing
<1>13. CommitPhases'
  <2>1. StepsOf(o) \subseteq unqueued' BY <1>1, NoneTyped DEF JobsOf, StepsOf
  <2>2. disk' = receipt'[batch'[1]].prepared /\ mem' = receipt'[batch'[1]].prepared BY <1>1, <1>2
  <2> QED BY <1>1, <1>2, <2>1, <2>2 DEF CoreInv, CommitPhases, Completing
<1>14. GrowsWithoutFailure'
  <2>1. Extends(u, u) BY <1>5 DEF Extends
  <2>2. \A p \in Occ : Prepared(p)' => p = o BY <1>1, <1>8 DEF Prepared
  <2>3. receipt'[o].prepared = u BY <1>1 DEF u
  <2> QED BY <1>1, <1>7, <2>1, <2>2, <2>3 DEF GrowsWithoutFailure
<1> QED BY <1>9, <1>10, <1>11, <1>12, <1>13, <1>14 DEF CoreInv

\* The head of the batch is applied to a copy of the state, kept in its receipt.
LEMMA PrepareCore ==
  ASSUME ReceiptsTypes, ReceiptsAssumption, CoreInv, NEW o \in Occ, Prepare(o) PROVE CoreInv'
<1> DEFINE e == <<o, receipt[o].t>>
<1>1. /\ engine = "ready" /\ engine' = "state" /\ batch # <<>> /\ o = batch[1] /\ o \notin Invalid
      /\ receipt[o].status = "accepted" /\ mem' = Append(mem, e)
      /\ UNCHANGED <<unqueued, closed, disk, spool, delivered, last, batch, failures>>
  BY TailTyped DEF Prepare, ReceiptsTypes
<1>2. /\ receipt'[o].status = "prepared" /\ receipt'[o].prepared = mem' /\ receipt'[o].t = receipt[o].t
      /\ \A p \in Occ \ {o} : receipt'[p] = receipt[p]
  BY DEF Prepare, ReceiptsTypes, Receipts
<1>3. mem \in Seq(Item) /\ disk \in Seq(Item) /\ batch \in Seq(Occ) /\ last \in Nat BY DEF ReceiptsTypes
<1>4. e \in Item BY NoneTyped DEF Item, ReceiptsTypes, Receipts
<1>5. /\ mem' \in Seq(Item) /\ DOMAIN mem' = 1..(Len(mem) + 1)
      /\ \A i \in DOMAIN mem : mem'[i] = mem[i]
      /\ mem'[Len(mem) + 1][1] = o /\ mem'[Len(mem) + 1][2] = receipt[o].t /\ Len(mem') = Len(mem) + 1
  BY <1>1, <1>3, <1>4, Appended
<1> HIDE DEF e
<1>6. Serving /\ Serving' /\ ~Restoring /\ ~Restoring' BY <1>1 DEF Serving, Restoring
<1>7. 1 \in DOMAIN batch BY <1>1, <1>3, TailTyped
<1>8. closed[o] # "completed" /\ Open(o) BY <1>1 DEF CoreInv, ReceiptsOrdered, Open
<1>9. \A p \in Occ : ~Prepared(p) BY <1>1 DEF CoreInv, BatchOrdered, Prepared
<1>10. \A p \in Occ : Prepared(p)' => p = o BY <1>1, <1>2, <1>9 DEF Prepared
<1>11. \A p \in Occ : Open(p)' <=> Open(p) BY <1>1, <1>2, <1>8 DEF Open
<1>12. \A p \in Occ : receipt'[p].t = receipt[p].t /\ receipt[p].t \in Nat
  BY <1>2 DEF ReceiptsTypes, Receipts
<1>13. \A p \in Occ : p # o /\ Open(p) => receipt[o].t < receipt[p].t
  <2> SUFFICES ASSUME NEW p \in Occ, p # o, Open(p) PROVE receipt[o].t < receipt[p].t OBVIOUS
  <2>1. \/ \E i \in DOMAIN batch : batch[i] = p
        \/ \A i \in DOMAIN batch : Open(batch[i]) => receipt[batch[i]].t < receipt[p].t
    BY <1>6 DEF CoreInv, BatchOrdered
  <2>2. CASE \E i \in DOMAIN batch : batch[i] = p
    <3>1. PICK i \in DOMAIN batch : batch[i] = p BY <2>2
    <3>2. i # 1 /\ 1 < i BY <3>1, <1>1, <1>3
    <3> QED BY <3>1, <3>2, <1>1, <1>7 DEF CoreInv, BatchOrdered
  <2>3. CASE \A i \in DOMAIN batch : Open(batch[i]) => receipt[batch[i]].t < receipt[p].t
    BY <2>3, <1>1, <1>7, <1>8
  <2> QED BY <2>1, <2>2, <2>3
<1>14. ASSUME NEW s \in Seq(Item), Regular(s, receipt, closed)
       PROVE /\ Regular(s, receipt', closed')
             /\ \A i \in DOMAIN s : s[i][1] # None => s[i][1] # o /\ s[i][2] < receipt[o].t
  <2>1. \A i \in DOMAIN s : s[i][1] # None => s[i][1] \in Occ BY DEF Item, Occ, None
  <2>2. \A i \in DOMAIN s : s[i][1] # None => s[i][1] # o BY <1>1, <1>8, <1>14 DEF Regular
  <2>3. \A p \in Occ : receipt'[p].status = "accepted" => receipt[p].status = "accepted" BY <1>2
  <2>4. \A i \in DOMAIN s : s[i][1] # None => s[i][2] < receipt[o].t BY <1>1, <1>14 DEF Regular
  <2>5. Ordered(s) BY <1>14 DEF Regular
  <2>6. \A i \in DOMAIN s : s[i][1] # None =>
          receipt'[s[i][1]].status = "prepared" \/ closed'[s[i][1]] = "completed"
    BY <1>1, <1>2, <1>14, <2>1, <2>2 DEF Regular
  <2>7. \A p \in Occ : receipt'[p].status = "accepted" =>
          \A i \in DOMAIN s : s[i][1] # None => s[i][2] < receipt'[p].t
    BY <1>12, <1>14, <2>3 DEF Regular
  <2> QED BY <2>2, <2>4, <2>5, <2>6, <2>7 DEF Regular
<1>15. Regular(mem, receipt, closed) /\ Regular(disk, receipt, closed) BY DEF CoreInv, StatesRegular
<1>16. Regular(mem', receipt', closed')
  <2>1. Regular(mem, receipt', closed') BY <1>3, <1>14, <1>15
  <2>2. \A i \in DOMAIN mem : mem[i][1] # None => mem[i][1] # o /\ mem[i][2] < receipt[o].t
    BY <1>3, <1>14, <1>15
  <2>3. \A i \in DOMAIN mem' : i \in DOMAIN mem \/ i = Len(mem) + 1 BY <1>3, <1>5
  <2>4. Ordered(mem')
    <3>1. Ordered(mem) BY <2>1 DEF Regular
    <3>2. \A i, j \in DOMAIN mem' : i < j => i \in DOMAIN mem BY <1>3, <1>5
    <3> QED BY <1>5, <2>2, <2>3, <3>1, <3>2 DEF Ordered
  <2>5. \A i \in DOMAIN mem' : mem'[i][1] # None =>
          receipt'[mem'[i][1]].status = "prepared" \/ closed'[mem'[i][1]] = "completed"
    BY <1>2, <1>5, <2>1, <2>3 DEF Regular
  <2>6. \A p \in Occ : receipt'[p].status = "accepted" =>
          \A i \in DOMAIN mem' : mem'[i][1] # None => mem'[i][2] < receipt'[p].t
    <3> SUFFICES ASSUME NEW p \in Occ, receipt'[p].status = "accepted", NEW i \in DOMAIN mem', mem'[i][1] # None
                 PROVE mem'[i][2] < receipt'[p].t
      OBVIOUS
    <3>1. p # o /\ Open(p)
      <4>1. p # o /\ receipt[p].status = "accepted" BY <1>2
      <4> QED BY <4>1 DEF Open, CoreInv, ReceiptsOrdered
    <3>2. CASE i \in DOMAIN mem BY <3>2, <1>5, <2>1 DEF Regular
    <3>3. CASE i = Len(mem) + 1 BY <3>1, <3>3, <1>5, <1>12, <1>13
    <3> QED BY <2>3, <3>2, <3>3
  <2> QED BY <2>4, <2>5, <2>6 DEF Regular
<1>17. Covers(mem', closed) /\ Has(mem', o) /\ \A q : Has(mem, q) => Has(mem', q)
  <2>1. \A q : Has(mem, q) => Has(mem', q) BY <1>3, <1>5 DEF Has
  <2>2. Has(mem', o) BY <1>3, <1>5 DEF Has
  <2>3. Covers(mem, closed) BY <1>6 DEF CoreInv, StatesRegular
  <2> QED BY <2>1, <2>2, <2>3 DEF Covers
<1>18. Within(mem', receipt[o].t)
  <2>1. \A i \in DOMAIN mem : mem[i][1] # None => mem[i][2] < receipt[o].t
    BY <1>3, <1>14, <1>15
  <2>2. \A i \in DOMAIN mem' : i \in DOMAIN mem \/ i = Len(mem) + 1 BY <1>3, <1>5
  <2>3. \A i \in DOMAIN mem : mem[i][2] \in Nat BY <1>3 DEF Item
  <2> QED BY <1>5, <1>12, <2>1, <2>2, <2>3 DEF Within
<1>19. StatesRegular'
  <2>1. Regular(disk, receipt', closed') BY <1>3, <1>14, <1>15
  <2>2. Covers(disk, closed) /\ \A q \in Occ : Has(disk, q) => Has(mem, q)
    BY <1>6 DEF CoreInv, StatesRegular
  <2> QED BY <1>1, <1>2, <1>10, <1>16, <1>17, <1>18, <2>1, <2>2 DEF StatesRegular
<1>20. TimesKnown'
  <2>1. receipt[o].t <= last /\ Within(disk, last) /\ \A p \in Occ : Open(p) => receipt[p].t <= last
    BY <1>6, <1>8 DEF CoreInv, TimesKnown
  <2>2. \A i \in DOMAIN mem' : mem'[i][2] \in Nat BY <1>5 DEF Item
  <2>3. Within(mem', last) BY <1>3, <1>12, <1>18, <2>1, <2>2 DEF Within
  <2> QED BY <1>1, <1>11, <1>12, <2>1, <2>3 DEF TimesKnown
<1>21. ReceiptsOrdered'
  <2>1. ReceiptsOrdered BY DEF CoreInv
  <2>2. \A q, p \in Occ : Open(q)' /\ Prepared(p)' /\ q # p => receipt'[p].t < receipt'[q].t
    BY <1>10, <1>11, <1>12, <1>13
  <2>3. \A q, p \in Occ : Open(q)' /\ Open(p)' /\ q # p => receipt'[q].t # receipt'[p].t
    BY <2>1, <1>11, <1>12 DEF ReceiptsOrdered
  <2> QED BY <2>1, <2>2, <2>3, <1>1, <1>2 DEF ReceiptsOrdered
<1>22. BatchOrdered'
  <2>1. \A i \in DOMAIN batch : batch[i] \in Occ BY <1>3
  <2>0. ASSUME NEW q \in Occ PROVE receipt'[q].t = receipt[q].t /\ (Open(q)' <=> Open(q))
    BY <1>11, <1>12
  <2>2. \A i \in DOMAIN batch :
          /\ receipt'[batch[i]].t = receipt[batch[i]].t
          /\ Open(batch[i]) <=> (receipt'[batch[i]].status # "none" /\ closed'[batch[i]] # "completed")
    BY <2>1, <2>0 DEF Open
  <2>3. BatchOrdered BY DEF CoreInv
  <2>4. \A i \in DOMAIN batch : Open(batch[i]) BY <1>1, <2>3 DEF BatchOrdered, Open, Completing
  <2>5. \A i \in DOMAIN batch : receipt'[batch[i]].status # "none" /\ closed'[batch[i]] # "completed"
    BY <2>2, <2>4
  <2>6. \A i, j \in DOMAIN batch : i < j => receipt'[batch[i]].t < receipt'[batch[j]].t
    BY <2>2, <2>3 DEF BatchOrdered
  <2>7. \A p \in Occ : Open(p)' =>
       \/ \E i \in DOMAIN batch : batch[i] = p
       \/ \A i \in DOMAIN batch : Open(batch[i])' => receipt'[batch[i]].t < receipt'[p].t
    <3> SUFFICES ASSUME NEW p \in Occ, Open(p)', ~\E i \in DOMAIN batch : batch[i] = p,
                        NEW i \in DOMAIN batch
                 PROVE receipt'[batch[i]].t < receipt'[p].t
      OBVIOUS
    <3>1. Open(p) BY <2>0
    <3>2. Open(batch[i]) => receipt[batch[i]].t < receipt[p].t
      BY <3>1, <2>3, <1>6 DEF BatchOrdered
    <3> QED BY <3>2, <2>0, <2>2, <2>4
  <2> QED BY <1>1, <1>6, <1>10, <2>5, <2>6, <2>7 DEF BatchOrdered
<1>23. CommitPhases' BY <1>1, <1>2 DEF CoreInv, CommitPhases, Completing
<1>24. GrowsWithoutFailure'
  <2>1. failures = 0 => Extends(disk, mem) BY <1>6 DEF CoreInv, GrowsWithoutFailure
  <2>2. failures = 0 => Extends(disk, mem') BY <1>3, <1>5, <2>1 DEF Extends
  <2> QED BY <1>1, <1>2, <1>10, <2>2 DEF GrowsWithoutFailure
<1> QED BY <1>19, <1>20, <1>21, <1>22, <1>23, <1>24 DEF CoreInv

\* What holds when a receipt is completed.
LEMMA CompletedFacts ==
  ASSUME ReceiptsTypes, ReceiptsAssumption, CoreInv, NEW o \in Occ, CompleteReceipt(o)
  PROVE /\ batch # <<>> /\ o = batch[1] /\ engine \in Completing /\ receipt[o].status = "prepared"
        /\ disk = receipt[o].prepared /\ mem = receipt[o].prepared
        /\ StepsOf(o) \subseteq spool \cup delivered
        /\ \A i \in DOMAIN batch : i # 1 => batch[i] # o
        /\ 1 \in DOMAIN batch
<1>1. engine \in Completing BY PhaseTyped DEF Completing
<1>2. batch # <<>> BY <1>1 DEF CoreInv, CommitPhases
<1>3. batch \in Seq(Occ) BY DEF ReceiptsTypes
<1>4. o = batch[1] /\ 1 \in DOMAIN batch BY <1>2, <1>3, TailTyped DEF CompleteReceipt
<1>5. /\ receipt[o].status = "prepared" /\ disk = receipt[o].prepared /\ mem = receipt[o].prepared
      /\ StepsOf(o) \subseteq spool \cup delivered
  BY <1>1, <1>4 DEF CoreInv, CommitPhases
<1>6. \A i \in DOMAIN batch : i # 1 => batch[i] # o
  <2> SUFFICES ASSUME NEW i \in DOMAIN batch, i # 1, batch[i] = o PROVE FALSE OBVIOUS
  <2>1. 1 < i BY <1>3
  <2>2. receipt[o].t < receipt[o].t BY <1>4, <2>1 DEF CoreInv, BatchOrdered
  <2>3. receipt[o].t \in Nat BY DEF ReceiptsTypes, Receipts
  <2> QED BY <2>2, <2>3
<1> QED BY <1>1, <1>2, <1>4, <1>5, <1>6

\* The tombstone of the applied receipt is written.
LEMMA TombstoneCore ==
  ASSUME ReceiptsTypes, ReceiptsAssumption, CoreInv, NEW o \in Occ, CompleteReceipt(o),
         closed[o] = "open", closed' = [closed EXCEPT ![o] = "completed"], UNCHANGED <<receipt, engine, batch>>
  PROVE CoreInv'
<1>1. UNCHANGED <<unqueued, disk, spool, delivered, mem, last, failures>> BY DEF CompleteReceipt
<1>2. closed'[o] = "completed" /\ \A p \in Occ \ {o} : closed'[p] = closed[p] BY DEF ReceiptsTypes
<1>3. (Serving' <=> Serving) /\ (Restoring' <=> Restoring) BY DEF Serving, Restoring
<1>4. /\ batch # <<>> /\ o = batch[1] /\ engine \in Completing /\ receipt[o].status = "prepared"
      /\ disk = receipt[o].prepared /\ mem = receipt[o].prepared
      /\ StepsOf(o) \subseteq spool \cup delivered
      /\ \A i \in DOMAIN batch : i # 1 => batch[i] # o
  BY CompletedFacts
<1>5. Prepared(o) BY <1>4 DEF Prepared
<1>6. \A p \in Occ : ~Prepared(p)'
  <2>1. \A p \in Occ : Prepared(p) => p = o BY <1>4 DEF CoreInv, BatchOrdered
  <2> QED BY <2>1, <1>2 DEF Prepared
<1>7. \A p \in Occ : Open(p)' => Open(p) BY <1>2 DEF Open
<1>8. ASSUME NEW s \in Seq(Item), Regular(s, receipt, closed) PROVE Regular(s, receipt', closed')
  <2>1. \A i \in DOMAIN s : s[i][1] # None => s[i][1] \in Occ BY DEF Item, Occ, None
  <2> QED BY <1>2, <1>8, <2>1 DEF Regular
<1>9. \A s : Covers(s, closed) /\ Has(s, o) => Covers(s, closed') BY <1>2 DEF Covers
<1>10. disk \in Seq(Item) /\ mem \in Seq(Item) /\ batch \in Seq(Occ) BY DEF ReceiptsTypes
<1>11. StatesRegular'
  <2>1. Regular(disk, receipt', closed') /\ Regular(mem, receipt', closed')
    BY <1>8, <1>10 DEF CoreInv, StatesRegular
  <2>2. Has(disk, o) /\ Covers(disk, closed) BY <1>4, <1>5 DEF CoreInv, StatesRegular
  <2>3. Covers(disk, closed') BY <1>9, <2>2
  <2>4. mem = disk BY <1>4
  <2> QED BY <1>1, <1>6, <2>1, <2>3, <2>4 DEF StatesRegular
<1>12. TimesKnown' BY <1>1, <1>3, <1>7 DEF CoreInv, TimesKnown
<1>13. ReceiptsOrdered'
  <2>1. ReceiptsOrdered BY DEF CoreInv
  <2>2. \A q, p \in Occ : Open(q)' /\ Open(p)' /\ q # p => receipt'[q].t # receipt'[p].t
    BY <1>7, <2>1 DEF ReceiptsOrdered
  <2>3. /\ \A q \in Occ : receipt'[q].status = "accepted" => closed'[q] # "completed"
        /\ \A q \in Occ : closed'[q] = "rejected" => q \in Invalid
        /\ \A q \in Occ : receipt'[q].status = "prepared" => q \notin Invalid
    BY <1>2, <1>4, <2>1 DEF ReceiptsOrdered
  <2> QED BY <1>6, <2>2, <2>3 DEF ReceiptsOrdered
<1>14. BatchOrdered'
  <2>1. BatchOrdered BY DEF CoreInv
  <2>2. \A i \in DOMAIN batch : batch[i] \in Occ BY <1>10
  <2>3. \A i \in DOMAIN batch : closed'[batch[i]] # "completed" \/ (i = 1 /\ engine \in Completing)
    BY <1>2, <1>4, <2>1, <2>2 DEF BatchOrdered
  <2>4. ASSUME Serving, NEW p \in Occ, Open(p)', ~\E i \in DOMAIN batch : batch[i] = p,
               NEW i \in DOMAIN batch, Open(batch[i])'
        PROVE receipt[batch[i]].t < receipt[p].t
    <3>1. Open(p) /\ Open(batch[i]) BY <1>7, <2>2, <2>4
    <3> QED BY <2>1, <2>4, <3>1 DEF BatchOrdered
  <2>5. engine # "down" BY <1>4 DEF Completing
  <2>6. \A i \in DOMAIN batch' : receipt'[batch'[i]].status # "none" BY <2>1 DEF BatchOrdered
  <2>7. \A i, j \in DOMAIN batch' : i < j => receipt'[batch'[i]].t < receipt'[batch'[j]].t
    BY <2>1 DEF BatchOrdered
  <2>8. Serving' => \A p \in Occ : Open(p)' =>
       \/ \E i \in DOMAIN batch' : batch'[i] = p
       \/ \A i \in DOMAIN batch' : Open(batch[i])' => receipt'[batch'[i]].t < receipt'[p].t
    BY <1>3, <2>4
  <2> QED BY <1>6, <2>3, <2>5, <2>6, <2>7, <2>8 DEF BatchOrdered
<1>15. CommitPhases'
  <2>1. CommitPhases BY DEF CoreInv
  <2>2. \A q \in Occ : closed'[q] = "completed" => StepsOf(q) \subseteq spool \cup delivered
    BY <1>2, <1>4, <2>1 DEF CommitPhases
  <2> QED BY <1>1, <2>1, <2>2 DEF CommitPhases, Completing
<1>16. GrowsWithoutFailure' BY <1>1, <1>3, <1>6 DEF CoreInv, GrowsWithoutFailure
<1> QED BY <1>11, <1>12, <1>13, <1>14, <1>15, <1>16 DEF CoreInv

\* The receipt is removed after its tombstone, or after the rejected record.
Removal(o) ==
  /\ batch # <<>> /\ o = Head(batch)
  /\ closed[o] = "completed" \/ receipt[o].status # "prepared"
  /\ receipt' = [receipt EXCEPT ![o] = NoReceipt] /\ batch' = Tail(batch)
  /\ \/ engine \in {"complete", "ready"} /\ engine' = "ready"
     \/ engine = "restore complete" /\ engine' = "restore"
  /\ UNCHANGED <<closed, unqueued, disk, spool, delivered, mem, last, failures>>

\* An item is a heartbeat or the step of an occurrence.
LEMMA ItemOccurrences ==
  ASSUME NEW s \in Seq(Item) PROVE \A i \in DOMAIN s : s[i][1] # None => s[i][1] \in Occ
BY DEF Item, Occ, None

\* The receipt is removed: the rest of the batch.
LEMMA RemovedTail ==
  ASSUME ReceiptsTypes, NEW o \in Occ, Removal(o)
  PROVE /\ 1 \in DOMAIN batch /\ o = batch[1]
        /\ \A i \in DOMAIN batch : i # 1 => 1 < i /\ i - 1 \in DOMAIN batch' /\ batch'[i - 1] = batch[i]
        /\ \A i \in DOMAIN batch' : i + 1 \in DOMAIN batch /\ batch'[i] = batch[i + 1] /\ i \in Nat /\ i >= 1
        /\ batch \in Seq(Occ) /\ batch' \in Seq(Occ)
<1>1. batch \in Seq(Occ) /\ batch # <<>> /\ o = Head(batch) /\ batch' = Tail(batch) BY DEF ReceiptsTypes, Removal
<1> QED BY <1>1, TailTyped

\* A completed receipt is removed.
LEMMA RemovedCore ==
  ASSUME ReceiptsTypes, ReceiptsAssumption, CoreInv, NEW o \in Occ, Removal(o) PROVE CoreInv'
<1>0. /\ o = batch[1] /\ batch # <<>>
      /\ closed[o] = "completed" \/ receipt[o].status # "prepared"
      /\ \/ engine \in {"complete", "ready"} /\ engine' = "ready"
         \/ engine = "restore complete" /\ engine' = "restore"
      /\ UNCHANGED <<closed, unqueued, disk, spool, delivered, mem, last, failures>>
  BY RemovedTail DEF Removal
<1>1. /\ receipt'[o].status = "none" /\ \A p \in Occ \ {o} : receipt'[p] = receipt[p]
  BY DEF ReceiptsTypes, NoReceipt, Removal
<1>2. (Serving' <=> Serving) /\ (Restoring' <=> Restoring) /\ engine' # "down" BY <1>0 DEF Serving, Restoring
<1>3. \A p \in Occ : ~Prepared(p)
  <2>1. \A p \in Occ : Prepared(p) => p = o BY <1>0 DEF CoreInv, BatchOrdered
  <2> QED BY <1>0, <2>1 DEF Prepared
<1>4. \A p \in Occ : ~Prepared(p)' BY <1>0, <1>1, <1>3 DEF Prepared
<1>5. \A p \in Occ : Open(p)' => Open(p) /\ p # o BY <1>0, <1>1 DEF Open
<1>6. batch \in Seq(Occ) /\ disk \in Seq(Item) /\ mem \in Seq(Item) BY DEF ReceiptsTypes
<1>7. ASSUME NEW s \in Seq(Item), Regular(s, receipt, closed) PROVE Regular(s, receipt', closed')
  <2>1. \A i \in DOMAIN s : s[i][1] # None => s[i][1] \in Occ BY ItemOccurrences
  <2>2. \A p \in Occ : receipt'[p].status = "accepted" => receipt'[p] = receipt[p] BY <1>1
  <2>3. \A i \in DOMAIN s : s[i][1] # None =>
          receipt'[s[i][1]].status = "prepared" \/ closed'[s[i][1]] = "completed"
    BY <1>0, <1>1, <1>7, <2>1 DEF Regular
  <2> QED BY <1>0, <1>7, <2>2, <2>3 DEF Regular
<1>8. StatesRegular'
  <2>1. Regular(disk, receipt', closed') /\ Regular(mem, receipt', closed')
    BY <1>0, <1>6, <1>7 DEF CoreInv, StatesRegular
  <2> QED BY <1>0, <1>2, <1>4, <2>1 DEF CoreInv, StatesRegular
<1>9. TimesKnown' BY <1>0, <1>1, <1>2, <1>5 DEF CoreInv, TimesKnown
<1>10. ReceiptsOrdered'
  <2>1. ReceiptsOrdered BY DEF CoreInv
  <2>2. \A q, p \in Occ : Open(q)' /\ Open(p)' /\ q # p => receipt'[q].t # receipt'[p].t
    BY <1>1, <1>5, <2>1 DEF ReceiptsOrdered
  <2> QED BY <1>0, <1>1, <1>4, <2>1, <2>2 DEF ReceiptsOrdered
<1>11. BatchOrdered'
  <2>1. BatchOrdered BY DEF CoreInv
  <2>2. \A i \in DOMAIN batch' : i + 1 \in DOMAIN batch /\ batch'[i] = batch[i + 1] /\ i \in Nat /\ i >= 1
    BY RemovedTail
  <2>3. 1 \in DOMAIN batch /\ \A i \in DOMAIN batch : i # 1 => 1 < i BY RemovedTail
  <2>4. \A p \in Occ : receipt[p].t \in Nat BY DEF ReceiptsTypes, Receipts
  <2>5. ASSUME NEW i \in DOMAIN batch, i # 1 PROVE batch[i] # o /\ batch[i] \in Occ
    <3>1. 1 < i /\ batch[i] \in Occ BY <1>6, <2>3, <2>5
    <3>2. receipt[batch[1]].t < receipt[batch[i]].t BY <2>1, <2>3, <3>1 DEF BatchOrdered
    <3>3. batch[i] # batch[1]
      <4> SUFFICES ASSUME batch[i] = batch[1] PROVE FALSE OBVIOUS
      <4>1. receipt[batch[1]].t < receipt[batch[1]].t BY <3>2
      <4>2. receipt[batch[1]].t \in Nat BY <1>0, <2>4
      <4> QED BY <4>1, <4>2
    <3> QED BY <1>0, <3>1, <3>3
  <2>6. \A i \in DOMAIN batch' : batch'[i] \in Occ /\ batch'[i] # o /\ receipt'[batch'[i]] = receipt[batch[i + 1]]
    <3> SUFFICES ASSUME NEW i \in DOMAIN batch'
                 PROVE batch'[i] \in Occ /\ batch'[i] # o /\ receipt'[batch'[i]] = receipt[batch[i + 1]]
      OBVIOUS
    <3>1. i + 1 \in DOMAIN batch /\ i + 1 # 1 /\ batch'[i] = batch[i + 1] BY <2>2
    <3> QED BY <1>1, <2>5, <3>1
  <2>7. \A i \in DOMAIN batch' : receipt'[batch'[i]].status # "none" /\ closed'[batch'[i]] # "completed"
    <3> SUFFICES ASSUME NEW i \in DOMAIN batch'
                 PROVE receipt'[batch'[i]].status # "none" /\ closed'[batch'[i]] # "completed"
      OBVIOUS
    <3>1. i + 1 \in DOMAIN batch /\ i + 1 # 1 BY <2>2
    <3>2. receipt[batch[i + 1]].status # "none" /\ closed[batch[i + 1]] # "completed"
      BY <2>1, <3>1 DEF BatchOrdered
    <3> QED BY <1>0, <2>2, <2>6, <3>2
  <2>8. \A i, j \in DOMAIN batch' : i < j => receipt'[batch'[i]].t < receipt'[batch'[j]].t
    <3> SUFFICES ASSUME NEW i \in DOMAIN batch', NEW j \in DOMAIN batch', i < j
                 PROVE receipt'[batch'[i]].t < receipt'[batch'[j]].t
      OBVIOUS
    <3>1. i + 1 < j + 1 /\ i + 1 \in DOMAIN batch /\ j + 1 \in DOMAIN batch BY <2>2
    <3>2. receipt[batch[i + 1]].t < receipt[batch[j + 1]].t BY <2>1, <3>1 DEF BatchOrdered
    <3> QED BY <2>6, <3>2
  <2>9. ASSUME Serving, NEW p \in Occ, Open(p)', ~\E i \in DOMAIN batch' : batch'[i] = p,
               NEW i \in DOMAIN batch'
        PROVE receipt'[batch'[i]].t < receipt'[p].t
    <3>1. Open(p) /\ p # o BY <1>5, <2>9
    <3>2. ~\E k \in DOMAIN batch : batch[k] = p
      <4> SUFFICES ASSUME NEW k \in DOMAIN batch, batch[k] = p PROVE FALSE OBVIOUS
      <4>1. k # 1 BY <1>0, <3>1
      <4>2. k - 1 \in DOMAIN batch' /\ batch'[k - 1] = batch[k] BY <4>1, RemovedTail
      <4> QED BY <2>9, <4>2
    <3>3. i + 1 \in DOMAIN batch BY <2>2
    <3>4. Open(batch[i + 1]) BY <1>0, <1>1, <2>2, <2>6, <2>7 DEF Open
    <3>5. receipt[batch[i + 1]].t < receipt[p].t BY <2>1, <2>9, <3>1, <3>2, <3>3, <3>4 DEF BatchOrdered
    <3> QED BY <1>1, <2>6, <3>1, <3>5
  <2> QED BY <1>2, <1>4, <2>7, <2>8, <2>9 DEF BatchOrdered
<1>12. CommitPhases' BY <1>0 DEF CoreInv, CommitPhases, Completing
<1>13. GrowsWithoutFailure' BY <1>0, <1>2, <1>4 DEF CoreInv, GrowsWithoutFailure
<1> QED BY <1>8, <1>9, <1>10, <1>11, <1>12, <1>13 DEF CoreInv

\* Completing a receipt: its tombstone first, then its removal.
LEMMA CompleteCore ==
  ASSUME ReceiptsTypes, ReceiptsAssumption, CoreInv, NEW o \in Occ, CompleteReceipt(o) PROVE CoreInv'
<1>1. /\ batch # <<>> /\ o = batch[1] /\ UNCHANGED <<unqueued, disk, spool, delivered, mem, last, failures>>
  BY CompletedFacts DEF CompleteReceipt
<1>2. CASE closed[o] = "open" /\ closed' = [closed EXCEPT ![o] = "completed"] /\ UNCHANGED <<receipt, engine, batch>>
  BY <1>2, TombstoneCore
<1>3. CASE /\ closed[o] = "completed" /\ receipt' = [receipt EXCEPT ![o] = NoReceipt]
           /\ batch' = Tail(batch) /\ engine' = (IF Restoring THEN "restore" ELSE "ready") /\ UNCHANGED closed
  <2>1. \/ engine = "complete" /\ engine' = "ready"
        \/ engine = "restore complete" /\ engine' = "restore"
    BY <1>3 DEF CompleteReceipt, Phase, Restoring
  <2>2. Removal(o) BY <1>1, <1>3, <2>1 DEF Removal, CompleteReceipt
  <2> QED BY <2>2, RemovedCore
<1> QED BY <1>2, <1>3 DEF CompleteReceipt

\* An invalid occurrence is set aside.
LEMMA RejectCore ==
  ASSUME ReceiptsTypes, ReceiptsAssumption, CoreInv, NEW o \in Occ, Reject(o) PROVE CoreInv'
<1>1. /\ engine = "ready" /\ engine' = "ready" /\ batch # <<>> /\ o = batch[1] /\ o \in Invalid
      /\ UNCHANGED <<unqueued, disk, spool, delivered, mem, last, failures>>
  BY TailTyped DEF Reject, ReceiptsTypes
<1>2. receipt[o].status # "prepared" BY <1>1 DEF CoreInv, ReceiptsOrdered
<1>3. CASE closed[o] = "open" /\ closed' = [closed EXCEPT ![o] = "rejected"] /\ UNCHANGED <<receipt, batch>>
  <2>1. /\ \A p \in Occ : closed'[p] = "completed" <=> closed[p] = "completed"
        /\ \A p \in Occ : closed'[p] = "rejected" <=> closed[p] = "rejected" \/ p = o
    BY <1>3 DEF ReceiptsTypes
  <2>2. \A p \in Occ : (Prepared(p)' <=> Prepared(p)) /\ (Open(p)' <=> Open(p)) BY <1>3, <2>1 DEF Prepared, Open
  <2>3. Serving /\ Serving' /\ ~Restoring /\ ~Restoring' BY <1>1 DEF Serving, Restoring
  <2>4. ASSUME NEW s \in Seq(Item), Regular(s, receipt, closed) PROVE Regular(s, receipt', closed')
    <3>1. \A i \in DOMAIN s : s[i][1] # None => s[i][1] \in Occ BY DEF Item, Occ, None
    <3> QED BY <1>3, <2>1, <2>4, <3>1 DEF Regular
  <2>5. \A s : Covers(s, closed) => Covers(s, closed') BY <2>1 DEF Covers
  <2>6. /\ disk \in Seq(Item) /\ mem \in Seq(Item) /\ batch \in Seq(Occ)
        /\ \A p \in Occ : receipt[p].prepared \in Seq(Item)
    BY DEF ReceiptsTypes, Receipts
  <2>7. StatesRegular'
    <3>1. Regular(disk, receipt', closed') /\ Regular(mem, receipt', closed')
      BY <2>4, <2>6 DEF CoreInv, StatesRegular
    <3>2. ASSUME NEW p \in Occ, Prepared(p)
          PROVE Regular(receipt[p].prepared, receipt', closed') /\ Covers(receipt[p].prepared, closed')
      BY <2>4, <2>5, <2>6, <3>2 DEF CoreInv, StatesRegular
    <3>3. Covers(disk, closed') /\ Covers(mem, closed') BY <2>3, <2>5 DEF CoreInv, StatesRegular
    <3> QED BY <1>1, <1>3, <2>2, <2>3, <3>1, <3>2, <3>3 DEF CoreInv, StatesRegular
  <2>8. TimesKnown' BY <1>1, <1>3, <2>2, <2>3 DEF CoreInv, TimesKnown
  <2>9. ReceiptsOrdered' BY <1>1, <1>3, <2>1, <2>2 DEF CoreInv, ReceiptsOrdered
  <2>10. BatchOrdered'
    <3>1. \A i \in DOMAIN batch : batch[i] \in Occ BY <2>6
    <3>2. BatchOrdered BY DEF CoreInv
    <3>3. \A i \in DOMAIN batch : Open(batch[i])' <=> Open(batch[i]) BY <1>3, <2>1, <3>1 DEF Open
    <3>4. \A i \in DOMAIN batch : /\ receipt[batch[i]].status # "none"
                                  /\ closed'[batch[i]] # "completed" \/ (i = 1 /\ engine' \in Completing)
      BY <1>1, <2>1, <3>1, <3>2 DEF BatchOrdered
    <3> QED BY <1>1, <1>3, <2>2, <2>3, <3>2, <3>3, <3>4 DEF BatchOrdered
  <2>11. CommitPhases' BY <1>1, <1>3, <2>1 DEF CoreInv, CommitPhases, Completing
  <2>12. GrowsWithoutFailure' BY <1>1, <1>3, <2>2, <2>3 DEF CoreInv, GrowsWithoutFailure
  <2> QED BY <2>7, <2>8, <2>9, <2>10, <2>11, <2>12 DEF CoreInv
<1>4. CASE /\ closed[o] = "rejected" /\ receipt' = [receipt EXCEPT ![o] = NoReceipt]
           /\ batch' = Tail(batch) /\ UNCHANGED closed
  <2>1. Removal(o) BY <1>1, <1>2, <1>4 DEF Removal, Reject
  <2> QED BY <2>1, RemovedCore
<1> QED BY <1>3, <1>4 DEF Reject

\* A drain fails: the batch is abandoned, the memory stays.
LEMMA DrainFailsCore ==
  ASSUME ReceiptsTypes, ReceiptsAssumption, CoreInv, DrainFails PROVE CoreInv'
<1>0. failures \in Nat BY DEF ReceiptsTypes
<1>1. /\ engine \in {"ready", "state", "jobs", "complete"} /\ engine' = "ready" /\ batch' = <<>>
      /\ unqueued' = {} /\ failures' # 0
      /\ UNCHANGED <<receipt, closed, disk, spool, delivered, mem, last>>
  BY <1>0 DEF DrainFails
<1>2. Serving /\ Serving' /\ ~Restoring /\ ~Restoring' BY <1>1 DEF Serving, Restoring
<1>3. StatesRegular' BY <1>1, <1>2 DEF CoreInv, StatesRegular, Prepared
<1>4. TimesKnown' BY <1>1, <1>2 DEF CoreInv, TimesKnown, Open
<1>5. ReceiptsOrdered' BY <1>1 DEF CoreInv, ReceiptsOrdered, Open, Prepared
<1>6. BatchOrdered' BY <1>1, <1>2 DEF BatchOrdered
<1>7. CommitPhases' BY <1>1 DEF CoreInv, CommitPhases, Completing
<1>8. GrowsWithoutFailure' BY <1>1 DEF GrowsWithoutFailure
<1> QED BY <1>3, <1>4, <1>5, <1>6, <1>7, <1>8 DEF CoreInv

\* The daemon dies: memory and batch are gone.
LEMMA DaemonDiesCore ==
  ASSUME ReceiptsTypes, ReceiptsAssumption, CoreInv, DaemonDies PROVE CoreInv'
<1>1. /\ engine' = "down" /\ batch' = <<>> /\ mem' = <<>>
      /\ UNCHANGED <<receipt, closed, disk, spool, delivered, failures>>
  BY DEF DaemonDies
<1>2. ~Serving' /\ ~Restoring' BY <1>1 DEF Serving, Restoring
<1>3. StatesRegular'
  <2>1. \A r, c : Regular(<<>>, r, c) BY DEF Regular, Ordered
  <2> QED BY <1>1, <1>2, <2>1 DEF CoreInv, StatesRegular, Prepared
<1>4. TimesKnown' BY <1>2 DEF TimesKnown
<1>5. ReceiptsOrdered' BY <1>1 DEF CoreInv, ReceiptsOrdered, Open, Prepared
<1>6. BatchOrdered' BY <1>1, <1>2 DEF BatchOrdered
<1>7. CommitPhases' BY <1>1 DEF CoreInv, CommitPhases, Completing
<1>8. GrowsWithoutFailure' BY <1>1, <1>2 DEF CoreInv, GrowsWithoutFailure, Prepared
<1> QED BY <1>3, <1>4, <1>5, <1>6, <1>7, <1>8 DEF CoreInv

\* A listing of open receipts: by strictly increasing times, the prepared one first.
LEMMA ListedOrdered ==
  ASSUME ReceiptsTypes, ReceiptsAssumption, ReceiptsOrdered, NEW S \in SUBSET Occ,
         \A o \in S : Open(o), \A p \in Occ : Prepared(p) => p \in S, NEW b \in Listed(S)
  PROVE /\ b \in Seq(Occ)
        /\ \A i \in DOMAIN b : b[i] \in S
        /\ \A o \in S : \E i \in DOMAIN b : b[i] = o
        /\ \A i, j \in DOMAIN b : i < j => receipt[b[i]].t < receipt[b[j]].t
        /\ b # <<>> => \A p \in Occ : Prepared(p) => b[1] = p
        /\ (\E p \in Occ : Prepared(p)) => b # <<>>
<1>1. /\ b \in Seq(Occ)
      /\ \A i \in DOMAIN b : b[i] \in S
      /\ \A o \in S : \E i \in DOMAIN b : b[i] = o
      /\ \A i, j \in DOMAIN b : i < j => Before(b[i], b[j])
  BY ListedFacts
<1>2. \A o \in Occ : receipt[o].t \in Nat BY DEF ReceiptsTypes, Receipts
<1>3. \A o \in Occ : o \in Nat BY DEF Occ
<1>4. \A i, j \in DOMAIN b : i < j => receipt[b[i]].t < receipt[b[j]].t
  <2> SUFFICES ASSUME NEW i \in DOMAIN b, NEW j \in DOMAIN b, i < j PROVE receipt[b[i]].t < receipt[b[j]].t
    OBVIOUS
  <2>1. Before(b[i], b[j]) /\ b[i] \in S /\ b[j] \in S BY <1>1
  <2>2. b[i] # b[j] BY <1>2, <1>3, <2>1 DEF Before
  <2>3. receipt[b[i]].t # receipt[b[j]].t BY <2>1, <2>2 DEF ReceiptsOrdered
  <2> QED BY <2>1, <2>3 DEF Before
<1>5. ASSUME b # <<>>, NEW p \in Occ, Prepared(p) PROVE b[1] = p
  <2>1. PICK k \in DOMAIN b : b[k] = p BY <1>1, <1>5
  <2>2. 1 \in DOMAIN b /\ (k # 1 => 1 < k) BY <1>1, <1>5
  <2>3. CASE k # 1
    <3>1. receipt[b[1]].t < receipt[p].t BY <1>4, <2>1, <2>2, <2>3
    <3>2. b[1] \in Occ /\ Open(b[1]) BY <1>1, <2>2
    <3>3. b[1] # p BY <3>1, <1>2
    <3>4. receipt[p].t < receipt[b[1]].t BY <1>5, <3>2, <3>3 DEF ReceiptsOrdered
    <3> QED BY <1>2, <3>1, <3>2, <3>4
  <2> QED BY <2>1, <2>3
<1>6. (\E p \in Occ : Prepared(p)) => b # <<>> BY <1>1
<1> QED BY <1>1, <1>4, <1>5, <1>6

\* The daemon starts and takes up the prepared receipt.
LEMMA StartCore ==
  ASSUME ReceiptsTypes, ReceiptsAssumption, CoreInv, Start PROVE CoreInv'
<1> DEFINE S == {o \in PendingReceipts : receipt[o].status = "prepared"}
<1>1. /\ engine = "down" /\ engine' = "restore" /\ batch' \in Listed(S)
      /\ UNCHANGED <<receipt, closed, disk, spool, delivered, mem, last, failures>>
  BY DEF Start
<1>2. ~Serving' /\ ~Serving BY <1>1 DEF Serving, Restoring
<1>3. S \in SUBSET Occ /\ (\A o \in S : Open(o) /\ Prepared(o)) /\ \A p \in Occ : Prepared(p) => p \in S
  BY DEF PendingReceipts, Open, Prepared
<1> HIDE DEF S
<1>4. ReceiptsOrdered BY DEF CoreInv
<1>5. /\ batch' \in Seq(Occ)
      /\ \A i \in DOMAIN batch' : batch'[i] \in S
      /\ \A i, j \in DOMAIN batch' : i < j => receipt[batch'[i]].t < receipt[batch'[j]].t
      /\ batch' # <<>> => \A p \in Occ : Prepared(p) => batch'[1] = p
      /\ (\E p \in Occ : Prepared(p)) => batch' # <<>>
  BY <1>1, <1>3, <1>4, ListedOrdered
<1>6. StatesRegular' BY <1>1, <1>2 DEF CoreInv, StatesRegular, Prepared
<1>7. TimesKnown' BY <1>2 DEF TimesKnown
<1>8. ReceiptsOrdered' BY <1>1, <1>4 DEF ReceiptsOrdered, Open, Prepared
<1>9. BatchOrdered'
  <2>1. \A i \in DOMAIN batch' : receipt'[batch'[i]].status # "none" /\ closed'[batch'[i]] # "completed"
    BY <1>1, <1>3, <1>5 DEF Open
  <2>2. \A p \in Occ : Prepared(p)' <=> Prepared(p) BY <1>1 DEF Prepared
  <2>3. receipt' = receipt /\ engine' # "down" BY <1>1
  <2> QED BY <1>2, <1>5, <2>1, <2>2, <2>3 DEF BatchOrdered
<1>10. CommitPhases' BY <1>1 DEF CoreInv, CommitPhases, Completing
<1>11. GrowsWithoutFailure' BY <1>1, <1>2 DEF CoreInv, GrowsWithoutFailure, Prepared
<1> QED BY <1>6, <1>7, <1>8, <1>9, <1>10, <1>11 DEF CoreInv

\* The pending receipts are listed.
LEMMA DrainCore ==
  ASSUME ReceiptsTypes, ReceiptsAssumption, CoreInv, Drain PROVE CoreInv'
<1>1. /\ engine = "ready" /\ engine' = engine /\ batch' \in Listed(PendingReceipts) /\ batch = <<>>
      /\ UNCHANGED <<receipt, closed, disk, spool, delivered, mem, last, failures, unqueued>>
  BY DEF Drain
<1>2. Serving /\ Serving' /\ ~Restoring /\ ~Restoring' BY <1>1 DEF Serving, Restoring
<1>3. /\ PendingReceipts \in SUBSET Occ /\ (\A o \in PendingReceipts : Open(o))
      /\ (\A p \in Occ : Prepared(p) => p \in PendingReceipts) /\ \A p \in Occ : Open(p) => p \in PendingReceipts
  BY DEF PendingReceipts, Open, Prepared
<1>4. ReceiptsOrdered BY DEF CoreInv
<1>5. /\ batch' \in Seq(Occ)
      /\ \A i \in DOMAIN batch' : batch'[i] \in PendingReceipts
      /\ \A o \in PendingReceipts : \E i \in DOMAIN batch' : batch'[i] = o
      /\ \A i, j \in DOMAIN batch' : i < j => receipt[batch'[i]].t < receipt[batch'[j]].t
      /\ batch' # <<>> => \A p \in Occ : Prepared(p) => batch'[1] = p
  BY <1>1, <1>3, <1>4, ListedOrdered
<1>6. StatesRegular' BY <1>1, <1>2 DEF CoreInv, StatesRegular, Prepared
<1>7. TimesKnown' BY <1>1, <1>2 DEF CoreInv, TimesKnown, Open
<1>8. ReceiptsOrdered' BY <1>1, <1>4 DEF ReceiptsOrdered, Open, Prepared
<1>9. BatchOrdered'
  <2>1. \A i \in DOMAIN batch' : receipt'[batch'[i]].status # "none" /\ closed'[batch'[i]] # "completed"
    BY <1>1, <1>3, <1>5 DEF Open
  <2>2. \A p \in Occ : (Prepared(p)' <=> Prepared(p)) /\ (Open(p)' <=> Open(p)) BY <1>1 DEF Prepared, Open
  <2>3. \A p \in Occ : Open(p) => \E i \in DOMAIN batch' : batch'[i] = p BY <1>3, <1>5
  <2>4. receipt' = receipt /\ engine' # "down" BY <1>1
  <2> QED BY <1>2, <1>5, <2>1, <2>2, <2>3, <2>4 DEF BatchOrdered
<1>10. CommitPhases' BY <1>1 DEF CoreInv, CommitPhases, Completing
<1>11. GrowsWithoutFailure' BY <1>1, <1>2 DEF CoreInv, GrowsWithoutFailure, Prepared
<1> QED BY <1>6, <1>7, <1>8, <1>9, <1>10, <1>11 DEF CoreInv

\* The clock of a new process is no earlier than any time on disk.
LEMMA SeededClock ==
  ASSUME ReceiptsTypes, ReceiptsAssumption, Started
  PROVE /\ last' \in Nat /\ Watermark(disk) \in Nat /\ Watermark(disk) <= last'
        /\ \A o \in PendingReceipts : receipt[o].t <= last'
<1> DEFINE T == {receipt[o].t : o \in PendingReceipts}
<1>1. IsFiniteSet(T)
  <2>1. IsFiniteSet(Occ) BY OccFinite
  <2>2. IsFiniteSet(PendingReceipts) BY <2>1, FS_Subset DEF PendingReceipts, ReceiptsTypes
  <2> DEFINE f == [o \in PendingReceipts |-> receipt[o].t]
  <2>3. f \in Surjection(PendingReceipts, T) BY DEF Surjection
  <2> QED BY <2>2, <2>3, FS_Surjection
<1>2. Watermark(disk) \in Nat BY WatermarkBounds DEF ReceiptsTypes
<1>3. T \in SUBSET Nat
  <2>1. \A o \in PendingReceipts : receipt[o].t \in Nat BY DEF PendingReceipts, Receipts, ReceiptsTypes
  <2> QED BY <2>1
<1>4. \A o \in PendingReceipts : receipt[o].t \in T OBVIOUS
<1>5. last' = Max({Watermark(disk)} \cup T) BY DEF Started
<1> HIDE DEF T
<1>6. /\ {Watermark(disk)} \cup T \in SUBSET Nat /\ IsFiniteSet({Watermark(disk)} \cup T)
      /\ {Watermark(disk)} \cup T # {}
  <2>1. T \cup {Watermark(disk)} = {Watermark(disk)} \cup T OBVIOUS
  <2> QED BY <1>1, <1>2, <1>3, <2>1, FS_AddElement
<1>7. last' \in Nat /\ \A y \in {Watermark(disk)} \cup T : y <= last' BY <1>5, <1>6, MaxIsLargest
<1> QED BY <1>2, <1>4, <1>7

\* The daemon serves from the state on disk.
LEMMA StartedCore ==
  ASSUME ReceiptsTypes, ReceiptsAssumption, CoreInv, Started PROVE CoreInv'
<1>1. /\ engine = "restore" /\ batch = <<>> /\ mem' = disk /\ engine' = "ready"
      /\ UNCHANGED <<unqueued, receipt, closed, disk, spool, delivered, batch, failures>>
  BY DEF Started
<1>2. Serving' /\ Restoring /\ ~Restoring' BY <1>1 DEF Serving, Restoring
<1>3. \A p \in Occ : ~Prepared(p) BY <1>1, <1>2 DEF CoreInv, BatchOrdered
<1>4. \A p \in Occ : ~Prepared(p)' BY <1>1, <1>3 DEF Prepared
<1>5. disk \in Seq(Item) BY DEF ReceiptsTypes
<1>6. StatesRegular' BY <1>1, <1>4 DEF CoreInv, StatesRegular
<1>7. TimesKnown'
  <2>1. /\ last' \in Nat /\ Watermark(disk) \in Nat /\ Watermark(disk) <= last'
        /\ \A o \in PendingReceipts : receipt[o].t <= last'
    BY SeededClock
  <2>2. \A i \in DOMAIN disk : disk[i][2] \in Nat /\ disk[i][2] <= Watermark(disk)
    <3>1. \A i \in DOMAIN disk : disk[i] \in Item BY <1>5
    <3>2. \A i \in DOMAIN disk : disk[i][2] \in Nat BY <3>1 DEF Item
    <3>3. \A i \in DOMAIN disk : disk[i][2] <= Watermark(disk) BY <1>5, WatermarkBounds
    <3> QED BY <3>2, <3>3
  <2>3. Within(disk, last') BY <2>1, <2>2 DEF Within
  <2>4. \A o \in Occ : Open(o)' => receipt'[o].t <= last' BY <1>1, <2>1 DEF Open, PendingReceipts
  <2> QED BY <1>1, <2>3, <2>4 DEF TimesKnown
<1>8. ReceiptsOrdered' BY <1>1 DEF CoreInv, ReceiptsOrdered, Open, Prepared
<1>9. BatchOrdered' BY <1>1, <1>2 DEF BatchOrdered
<1>10. CommitPhases' BY <1>1 DEF CoreInv, CommitPhases, Completing
<1>11. Extends(disk, disk) BY <1>5 DEF Extends
<1>12. GrowsWithoutFailure' BY <1>1, <1>4, <1>11 DEF GrowsWithoutFailure
<1> QED BY <1>6, <1>7, <1>8, <1>9, <1>10, <1>12 DEF CoreInv

-----------------------------------------------------------------------------
\* All steps, the acknowledged occurrences, and the backup.
\* Steps of the engine leave the other parts alone.
LEMMA EngineStep ==
  ASSUME Engine \/ DaemonDies \/ Heartbeat \/ DrainFails \/ (\E j \in spool : DeliverJob(j))
  PROVE Same
<1>1. Engine => Same
  BY DEF Engine, Drain, HeartbeatSaves, Start, Started, Materialised, EnqueueJob, Prepare, ResumeReceipt,
         SaveState, CompleteReceipt, Reject
<1>2. DaemonDies => Same BY DEF DaemonDies
<1>3. Heartbeat => Same BY DEF Heartbeat
<1>4. DrainFails => Same BY DEF DrainFails
<1>5. (\E j \in spool : DeliverJob(j)) => Same BY DEF DeliverJob
<1> QED BY <1>1, <1>2, <1>3, <1>4, <1>5

\* What the relay, the replay of the outbox and the backup leave to the engine.
LEMMA OutsideFrame ==
  ASSUME \/ \E o \in Occ : Persist(o) \/ PostOccurrence(o) \/ Lose(o) \/ Acknowledge(o) \/ ReconcileDrops(o)
         \/ Backup \/ Seal
  PROVE UNCHANGED <<receipt, closed, disk, mem, last, engine, batch, failures, unqueued, spool, delivered>>
<1>1. ASSUME NEW o \in Occ, Persist(o) \/ PostOccurrence(o) \/ Lose(o) \/ Acknowledge(o) \/ ReconcileDrops(o)
      PROVE UNCHANGED <<receipt, closed, disk, mem, last, engine, batch, failures, unqueued, spool, delivered>>
  BY <1>1 DEF Persist, PostOccurrence, Lose, Acknowledge, ReconcileDrops, chainVars
<1>2. CASE Backup \/ Seal
  BY <1>2 DEF Backup, Seal, Rotate, CopyRoots, CopyGenerations, BackupSame, chainVars
<1> QED BY <1>1, <1>2

\* An occurrence is accepted with a new receipt, or there is one already.
LEMMA AcceptCases ==
  ASSUME NEW o \in Occ, AcceptOccurrence(o)
  PROVE /\ UNCHANGED <<closed, disk, mem, engine, batch, failures, unqueued, spool, delivered>>
        /\ Serving
        /\ UNCHANGED <<receipt, last>> \/ (~HasRecord(o) /\ Record(o) /\ ~sealed)
BY DEF AcceptOccurrence, chainVars

\* Every step keeps the invariant of receipts and states.
LEMMA CoreStep ==
  ASSUME ReceiptsTypes, ReceiptsAssumption, CoreInv, [ReceiptsNext]_receiptsVars PROVE CoreInv'
<1>1. CASE Engine
  BY <1>1, DrainCore, HeartbeatSavesCore, StartCore, StartedCore, MaterialisedCore, EnqueueCore, PrepareCore,
     ResumeCore, SaveStateCore, CompleteCore, RejectCore DEF Engine
<1>2. CASE DaemonDies \/ Heartbeat \/ DrainFails BY <1>2, DaemonDiesCore, HeartbeatCore, DrainFailsCore
<1>3. ASSUME \/ \E o \in Occ : Persist(o) \/ PostOccurrence(o) \/ Lose(o) \/ Acknowledge(o) \/ ReconcileDrops(o)
             \/ Backup \/ Seal
      PROVE CoreInv'
  BY <1>3, OutsideFrame, CoreFrame
<1>4. ASSUME NEW o \in Occ, ReconcileRecords(o) PROVE CoreInv'
  BY <1>4, RecordCore DEF ReconcileRecords, chainVars
<1>5. ASSUME NEW o \in Occ, AcceptOccurrence(o) PROVE CoreInv'
  BY <1>5, AcceptCases, RecordCore, CoreFrame
<1>6. CASE \E j \in spool : DeliverJob(j)
  <2>1. /\ UNCHANGED <<receipt, closed, disk, mem, last, engine, batch, failures, unqueued>>
        /\ spool \cup delivered \subseteq spool' \cup delivered'
    BY <1>6 DEF DeliverJob
  <2> QED BY <2>1, CoreFrame
<1>7. CASE UNCHANGED receiptsVars BY <1>7, CoreFrame DEF receiptsVars
<1> QED BY <1>1, <1>2, <1>3, <1>4, <1>5, <1>6, <1>7 DEF ReceiptsNext, Reconcile

\* A record is followed by a tombstone or a rejection before it is removed.
LEMMA RecordedStays ==
  ASSUME ReceiptsTypes, [ReceiptsNext]_receiptsVars
  PROVE InReceiver \subseteq InReceiver'
<1>1. ASSUME NEW p \in Occ, NEW o \in Occ, HasRecord(p), Record(o), UNCHANGED closed PROVE HasRecord(p)'
  BY <1>1 DEF Record, HasRecord, ReceiptsTypes
<1>2. ASSUME NEW o \in Occ, AcceptOccurrence(o) \/ ReconcileRecords(o) PROVE InReceiver \subseteq InReceiver'
  <2>1. UNCHANGED closed /\ (UNCHANGED receipt \/ Record(o)) BY <1>2, AcceptCases DEF ReconcileRecords
  <2>2. \A p \in Occ : HasRecord(p) => HasRecord(p)' BY <1>1, <2>1 DEF HasRecord
  <2> QED BY <2>2 DEF InReceiver
<1>3. ASSUME \/ \E o \in Occ : Persist(o) \/ PostOccurrence(o) \/ Lose(o) \/ Acknowledge(o) \/ ReconcileDrops(o)
             \/ Backup \/ Seal
      PROVE InReceiver \subseteq InReceiver'
  BY <1>3, OutsideFrame DEF InReceiver, HasRecord
<1>4. ASSUME NEW o \in Occ, CompleteReceipt(o) \/ Reject(o) PROVE InReceiver \subseteq InReceiver'
  <2>1. \/ UNCHANGED receipt /\ closed'[o] # "open" /\ \A p \in Occ \ {o} : closed'[p] = closed[p]
        \/ UNCHANGED closed /\ closed[o] # "open" /\ \A p \in Occ \ {o} : receipt'[p] = receipt[p]
    BY <1>4 DEF CompleteReceipt, Reject, ReceiptsTypes
  <2> QED BY <2>1 DEF InReceiver, HasRecord
<1>5. ASSUME NEW o \in Occ, Prepare(o) PROVE InReceiver \subseteq InReceiver'
  <2>1. /\ UNCHANGED closed /\ receipt'[o].status = "prepared" /\ \A p \in Occ \ {o} : receipt'[p] = receipt[p]
    BY <1>5 DEF Prepare, ReceiptsTypes, Receipts
  <2> QED BY <2>1 DEF InReceiver, HasRecord
<1>6. ASSUME UNCHANGED <<receipt, closed>> PROVE InReceiver \subseteq InReceiver'
  BY <1>6 DEF InReceiver, HasRecord
<1>7. CASE \/ Drain \/ HeartbeatSaves \/ Start \/ Started \/ Materialised \/ (\E j \in unqueued : EnqueueJob(j))
           \/ (\E o \in Occ : ResumeReceipt(o) \/ SaveState(o))
  BY <1>6, <1>7 DEF Drain, HeartbeatSaves, Start, Started, Materialised, EnqueueJob, ResumeReceipt, SaveState
<1>8. CASE DaemonDies \/ Heartbeat \/ DrainFails \/ (\E j \in spool : DeliverJob(j))
  BY <1>6, <1>8 DEF DaemonDies, Heartbeat, DrainFails, DeliverJob
<1>9. CASE UNCHANGED receiptsVars BY <1>6, <1>9 DEF receiptsVars
<1>10. CASE Engine BY <1>4, <1>5, <1>7, <1>10 DEF Engine
<1> QED BY <1>2, <1>3, <1>8, <1>9, <1>10 DEF ReceiptsNext, Reconcile

\* Every step keeps what was acknowledged in one of its places.
LEMMA NothingLostStep ==
  ASSUME ReceiptsTypes, NothingLost, replies \subseteq told, [ReceiptsNext]_receiptsVars
  PROVE NothingLost' /\ (replies \subseteq told)'
<1>0. InReceiver \subseteq InReceiver' BY RecordedStays
<1>1. ASSUME UNCHANGED <<raised, told, outbox, ingress, rotated, replies>>
      PROVE NothingLost' /\ (replies \subseteq told)'
  BY <1>0, <1>1 DEF NothingLost, Deferred
<1>2. CASE Engine \/ DaemonDies \/ Heartbeat \/ DrainFails \/ (\E j \in spool : DeliverJob(j))
  BY <1>1, <1>2, EngineStep DEF Same
<1>3. CASE UNCHANGED receiptsVars BY <1>1, <1>3 DEF receiptsVars
<1>4. CASE Seal \/ CopyRoots \/ CopyGenerations
  BY <1>1, <1>4 DEF Seal, CopyRoots, CopyGenerations, BackupSame
<1>5. CASE Rotate
  <2>1. \A k \in Kinds : Deferred(k)' = Deferred(k) BY <1>5 DEF Rotate, Deferred
  <2>2. UNCHANGED <<raised, told, outbox, replies>> BY <1>5 DEF Rotate, BackupSame
  <2> QED BY <1>0, <2>1, <2>2 DEF NothingLost, Kinds
<1>6. ASSUME NEW o \in Occ, Persist(o) PROVE NothingLost' /\ (replies \subseteq told)'
  <2>0. /\ ingress \in [Kinds -> SUBSET Occ] /\ rotated' = rotated /\ "sender" \in Kinds /\ "receiver" \in Kinds
        /\ \/ /\ ingress' = [ingress EXCEPT !["sender"] = @ \cup ({o} \ Deferred("sender"))]
              /\ outbox' = outbox
           \/ outbox' = outbox \cup {o} /\ ingress' = ingress
    BY <1>6 DEF Persist, ReceiptsTypes, Kinds
  <2>1. Deferred("receiver")' = Deferred("receiver") /\ outbox \subseteq outbox'
        /\ Deferred("sender") \subseteq Deferred("sender")'
    <3>1. ingress'["receiver"] = ingress["receiver"] /\ ingress["sender"] \subseteq ingress'["sender"] BY <2>0
    <3>2. outbox \subseteq outbox' BY <2>0
    <3> QED BY <2>0, <3>1, <3>2 DEF Deferred
  <2>2. o \in outbox' \cup Deferred("sender")' BY <2>0 DEF Deferred
  <2>3. raised' = raised \cup {o} /\ UNCHANGED <<told, replies>> BY <1>6 DEF Persist
  <2> QED BY <1>0, <2>1, <2>2, <2>3 DEF NothingLost
<1>7. ASSUME NEW o \in Occ, PostOccurrence(o) PROVE NothingLost' /\ (replies \subseteq told)'
  BY <1>1, <1>7 DEF PostOccurrence
<1>8. ASSUME NEW o \in Occ, Lose(o) PROVE NothingLost' /\ (replies \subseteq told)'
  BY <1>0, <1>8 DEF NothingLost, Deferred, Lose
<1>9. ASSUME NEW o \in Occ, Acknowledge(o) PROVE NothingLost' /\ (replies \subseteq told)'
  <2>1. /\ Deferred("receiver")' = Deferred("receiver") /\ outbox' = outbox \ {o}
        /\ Deferred("sender")' = Deferred("sender") \ {o}
        /\ UNCHANGED <<raised, told>> /\ replies' \subseteq replies /\ o \in replies
    BY <1>9 DEF Acknowledge, Deferred, ReceiptsTypes, Kinds
  <2>2. o \in Deferred("receiver") \cup InReceiver BY <2>1 DEF NothingLost
  <2> QED BY <1>0, <2>1, <2>2 DEF NothingLost
<1>10. ASSUME NEW o \in Occ, ReconcileDrops(o) PROVE NothingLost' /\ (replies \subseteq told)'
  <2>1. /\ Deferred("receiver")' = Deferred("receiver") \ {o} /\ Deferred("sender")' = Deferred("sender")
        /\ UNCHANGED <<raised, told, outbox, replies>> /\ o \in InReceiver
    BY <1>10 DEF ReconcileDrops, Deferred, ReceiptsTypes, Kinds, InReceiver
  <2> QED BY <1>0, <2>1 DEF NothingLost
<1>11. ASSUME NEW o \in Occ, ReconcileRecords(o) PROVE NothingLost' /\ (replies \subseteq told)'
  BY <1>1, <1>11 DEF ReconcileRecords
<1>12. ASSUME NEW o \in Occ, AcceptOccurrence(o) PROVE NothingLost' /\ (replies \subseteq told)'
  <2>1. /\ Deferred("receiver") \subseteq Deferred("receiver")' /\ Deferred("sender")' = Deferred("sender")
        /\ UNCHANGED <<raised, outbox>> /\ told' = told \cup {o} /\ replies' = replies \cup {o}
    BY <1>12 DEF AcceptOccurrence, Deferred, ReceiptsTypes, Kinds
  <2>2. o \in Deferred("receiver")' \cup InReceiver'
    <3>1. CASE HasRecord(o) BY <1>0, <3>1 DEF InReceiver
    <3>2. CASE Record(o)
      <4>1. receipt'[o].status = "accepted" BY <3>2 DEF Record, ReceiptsTypes
      <4> QED BY <4>1 DEF InReceiver, HasRecord
    <3>3. CASE ingress' = [ingress EXCEPT !["receiver"] = @ \cup ({o} \ Deferred("receiver"))] /\ rotated' = rotated
      BY <3>3 DEF Deferred, ReceiptsTypes, Kinds
    <3> QED BY <1>12, <3>1, <3>2, <3>3 DEF AcceptOccurrence
  <2> QED BY <1>0, <2>1, <2>2 DEF NothingLost
<1> QED BY <1>2, <1>3, <1>4, <1>5, <1>6, <1>7, <1>8, <1>9, <1>10, <1>11, <1>12
        DEF ReceiptsNext, Reconcile, Backup

\* While the roots are copied the seal keeps the outbox, the receipts and the generations as they are.
LEMMA SealedStays ==
  ASSUME copying # "no", sealed, batch = <<>>, engine \in {"down", "ready"},
         [ReceiptsNext]_receiptsVars, ~Backup
  PROVE /\ UNCHANGED <<receipt, closed, outbox, rotated, batch, sealed, copying, cut, archive, seals>>
        /\ engine' \in {"down", "ready"}
<1>1. ~Restoring BY DEF Restoring
<1>2. ~Engine
  BY <1>1 DEF Engine, Drain, HeartbeatSaves, Start, Started, Materialised, EnqueueJob, Prepare, ResumeReceipt,
         SaveState, CompleteReceipt, Reject, Phase
<1>3. ~Heartbeat /\ ~DrainFails /\ ~Seal /\ ~\E j \in spool : DeliverJob(j)
  BY DEF Heartbeat, DrainFails, Seal, DeliverJob
<1>4. ~Reconcile BY DEF Reconcile, ReconcileRecords, ReconcileDrops
<1>5. ASSUME NEW o \in Occ, Persist(o) \/ PostOccurrence(o) \/ AcceptOccurrence(o) \/ Lose(o) \/ Acknowledge(o)
      PROVE UNCHANGED <<receipt, closed, outbox, rotated, batch, engine, sealed, copying, cut, archive, seals>>
  BY <1>5 DEF Persist, PostOccurrence, AcceptOccurrence, Lose, Acknowledge, chainVars, backupVars
<1>6. CASE DaemonDies BY <1>6 DEF DaemonDies, Same, backupVars
<1>7. CASE UNCHANGED receiptsVars BY <1>7 DEF receiptsVars
<1> QED BY <1>2, <1>3, <1>4, <1>5, <1>6, <1>7 DEF ReceiptsNext

\* Other steps leave a backup alone.
LEMMA BackupUntouched ==
  ASSUME [ReceiptsNext]_receiptsVars, ~Backup
  PROVE \/ UNCHANGED <<sealed, copying, cut, archive, seals>>
        \/ ~sealed /\ sealed' /\ UNCHANGED <<copying, cut, archive>>
<1>1. ASSUME NEW o \in Occ, Persist(o) \/ PostOccurrence(o) \/ AcceptOccurrence(o) \/ Lose(o) \/ Acknowledge(o)
                            \/ ReconcileRecords(o) \/ ReconcileDrops(o)
      PROVE UNCHANGED <<sealed, copying, cut, archive, seals>>
  BY <1>1 DEF Persist, PostOccurrence, AcceptOccurrence, Lose, Acknowledge, ReconcileRecords, ReconcileDrops, backupVars
<1>2. CASE Engine \/ DaemonDies \/ Heartbeat \/ DrainFails \/ (\E j \in spool : DeliverJob(j))
  BY <1>2, EngineStep DEF Same, backupVars
<1>3. CASE Seal BY <1>3 DEF Seal
<1>4. CASE UNCHANGED receiptsVars BY <1>4 DEF receiptsVars
<1> QED BY <1>1, <1>2, <1>3, <1>4 DEF ReceiptsNext, Reconcile

\* Every step keeps the invariant of a backup.
LEMMA BackupStep ==
  ASSUME ReceiptsTypes, NothingLost, BackupInv, [ReceiptsNext]_receiptsVars
  PROVE BackupInv'
<1>0. Backup => UNCHANGED <<raised, told, outbox, receipt, closed, batch, engine>>
  BY DEF Backup, Rotate, CopyRoots, CopyGenerations, BackupSame, chainVars
<1>1. CASE Rotate
  <2>1. cut' \subseteq outbox \cup Deferred("sender") \cup Deferred("receiver") \cup InReceiver
    BY <1>1 DEF Rotate, NothingLost
  <2>2. rotated'["sender"] = Deferred("sender") /\ rotated'["receiver"] = Deferred("receiver")
    BY <1>1 DEF Rotate, Kinds
  <2>3. sealed' /\ copying' = "roots" /\ batch' = <<>> /\ engine' \in {"down", "ready"}
    BY <1>0, <1>1 DEF Rotate, Backup, WritersDrained
  <2>4. outbox' = outbox /\ InReceiver' = InReceiver BY <1>0, <1>1 DEF Backup, InReceiver, HasRecord
  <2> QED BY <2>1, <2>2, <2>3, <2>4 DEF BackupInv, BackupCoversAcknowledged
<1>2. CASE CopyRoots
  <2>0. copying \in {"roots", "rest"} /\ UNCHANGED <<rotated, sealed, cut, seals>> /\ sealed
        /\ batch = <<>> /\ engine \in {"down", "ready"}
    BY <1>2 DEF CopyRoots, BackupInv
  <2>1. CASE copying = "roots"
    <3>1. archive' = archive \cup outbox \cup {o \in Occ : closed[o] # "open"} /\ copying' = "rest"
      BY <1>2, <2>1 DEF CopyRoots
    <3>2. cut \subseteq outbox \cup rotated["sender"] \cup rotated["receiver"] \cup InReceiver
      BY <2>1 DEF BackupInv
    <3>3. InReceiver \subseteq {o \in Occ : closed[o] # "open"} \cup {o \in Occ : receipt[o].status # "none"}
      BY DEF InReceiver, HasRecord
    <3>4. receipt' = receipt BY <1>0, <1>2 DEF Backup
    <3>5. cut' \subseteq archive' \cup rotated'["sender"] \cup rotated'["receiver"]
                     \cup {o \in Occ : receipt'[o].status # "none"}
      BY <2>0, <3>1, <3>2, <3>3, <3>4
    <3> QED BY <1>0, <1>2, <2>0, <3>1, <3>5 DEF Backup, BackupInv, BackupCoversAcknowledged
  <2>2. CASE copying = "rest"
    <3>1. archive' = archive \cup {o \in Occ : receipt[o].status # "none"} /\ copying' = "generations"
      BY <1>2, <2>2 DEF CopyRoots
    <3>2. cut \subseteq archive \cup rotated["sender"] \cup rotated["receiver"]
                     \cup {o \in Occ : receipt[o].status # "none"}
      BY <2>2 DEF BackupInv
    <3> QED BY <1>0, <1>2, <2>0, <3>1, <3>2 DEF Backup, BackupInv, BackupCoversAcknowledged
  <2> QED BY <2>0, <2>1, <2>2
<1>3. CASE CopyGenerations
  <2>1. cut \subseteq archive \cup rotated["sender"] \cup rotated["receiver"]
    BY <1>3 DEF CopyGenerations, BackupInv
  <2> QED BY <1>3, <2>1 DEF CopyGenerations, BackupInv, BackupCoversAcknowledged
<1>4. CASE ~Backup /\ copying # "no"
  <2>1. sealed /\ batch = <<>> /\ engine \in {"down", "ready"} BY <1>4 DEF BackupInv
  <2>2. /\ UNCHANGED <<receipt, closed, outbox, rotated, batch, sealed, copying, cut, archive, seals>>
        /\ engine' \in {"down", "ready"}
    BY <1>4, <2>1, SealedStays
  <2> QED BY <2>1, <2>2 DEF BackupInv, BackupCoversAcknowledged, InReceiver, HasRecord
<1>5. CASE ~Backup /\ copying = "no"
  BY <1>5, BackupUntouched DEF BackupInv, BackupCoversAcknowledged
<1> QED BY <1>1, <1>2, <1>3, <1>4, <1>5 DEF Backup

\* The initial state satisfies the invariant.
LEMMA ReceiptsInvInit == ASSUME ReceiptsAssumption, ReceiptsInit PROVE ReceiptsInv
<1>1. /\ ReceiptsInit /\ \A o \in Occ : receipt[o] = NoReceipt /\ closed[o] = "open" BY DEF ReceiptsInit
<1>2. NoReceipt \in Receipts /\ NoReceipt.status = "none" BY DEF NoReceipt, Receipts
<1>3. \A p \in Occ : ~Open(p) /\ ~Prepared(p) BY <1>1, <1>2 DEF Open, Prepared
<1>4. engine = "down" /\ ~Serving /\ ~Restoring BY DEF ReceiptsInit, Serving, Restoring
<1>5. ReceiptsTypes
  <2>1. receipt \in [Occ -> Receipts] /\ closed \in [Occ -> {"open", "completed", "rejected"}]
    BY <1>2 DEF ReceiptsInit
  <2>2. disk \in Seq(Item) /\ mem \in Seq(Item) /\ batch \in Seq(Occ) /\ blocked \in 0..N
    BY NoneTyped DEF ReceiptsInit
  <2>3. ingress \in [Kinds -> SUBSET Occ] /\ rotated \in [Kinds -> SUBSET Occ] BY DEF ReceiptsInit
  <2> QED BY <2>1, <2>2, <2>3 DEF ReceiptsInit, ReceiptsTypes
<1>6. StatesRegular
  <2>1. \A r, c : Regular(<<>>, r, c) BY DEF Regular, Ordered
  <2>2. Covers(disk, closed) BY <1>1 DEF Covers
  <2>3. disk = <<>> /\ mem = <<>> BY DEF ReceiptsInit
  <2> QED BY <1>3, <1>4, <2>1, <2>2, <2>3 DEF StatesRegular
<1>7. TimesKnown BY <1>4 DEF TimesKnown
<1>8. ReceiptsOrdered BY <1>1, <1>2, <1>3 DEF ReceiptsOrdered
<1>9. BatchOrdered BY <1>4 DEF BatchOrdered, ReceiptsInit
<1>10. CommitPhases BY <1>1, <1>4 DEF CommitPhases, Completing
<1>11. GrowsWithoutFailure BY <1>3, <1>4 DEF GrowsWithoutFailure
<1>12. BackupInv /\ NothingLost /\ replies \subseteq told
  BY DEF ReceiptsInit, BackupInv, BackupCoversAcknowledged, NothingLost
<1> QED BY <1>5, <1>6, <1>7, <1>8, <1>9, <1>10, <1>11, <1>12 DEF ReceiptsInv, CoreInv

\* Every step keeps the invariant.
LEMMA ReceiptsInvStep ==
  ASSUME ReceiptsAssumption, ReceiptsInv, [ReceiptsNext]_receiptsVars PROVE ReceiptsInv'
<1>1. ReceiptsTypes /\ CoreInv /\ BackupInv /\ NothingLost /\ replies \subseteq told BY DEF ReceiptsInv
<1>2. ReceiptsTypes' BY TypesStep
<1>3. CoreInv' BY <1>1, CoreStep
<1>4. BackupInv' BY <1>1, BackupStep
<1>5. NothingLost' /\ (replies \subseteq told)' BY <1>1, NothingLostStep
<1> QED BY <1>2, <1>3, <1>4, <1>5 DEF ReceiptsInv

\* The occurrences applied in a state.
LEMMA HasApplied ==
  ASSUME ReceiptsAssumption, NEW s, NEW o \in Occ PROVE Has(s, o) <=> o \in Applied(s)
BY NoneTyped DEF Has, Applied

\* The invariant implies the safety properties.
LEMMA InvKeeps ==
  ASSUME ReceiptsAssumption, ReceiptsInv
  PROVE NothingLost /\ TombstonesDurable /\ AppliedOnceInOrder /\ BackupCoversAcknowledged
<1>1. ASSUME NEW o \in Occ, closed[o] = "completed"
      PROVE o \in Applied(disk) /\ JobsOf(<<o, 0>>) \subseteq spool \cup delivered
  <2>1. Has(disk, o) BY <1>1 DEF ReceiptsInv, CoreInv, StatesRegular, Covers
  <2>2. StepsOf(o) \subseteq spool \cup delivered BY <1>1 DEF ReceiptsInv, CoreInv, CommitPhases
  <2>3. JobsOf(<<o, 0>>) = StepsOf(o) BY NoneTyped DEF JobsOf, StepsOf
  <2> QED BY <2>1, <2>2, <2>3, HasApplied
<1>2. AppliedOnceInOrder BY DEF ReceiptsInv, CoreInv, StatesRegular, Regular, Ordered, AppliedOnceInOrder
<1> QED BY <1>1, <1>2 DEF ReceiptsInv, BackupInv, TombstonesDurable

\* What is on disk stays there; without failures it only grows at its end.
LEMMA GrowsStep ==
  ASSUME ReceiptsAssumption, ReceiptsInv, [ReceiptsNext]_receiptsVars
  PROVE /\ Applied(disk) \subseteq Applied(disk')
        /\ failures = 0 => Extends(disk, disk')
<1>0. ReceiptsTypes /\ CoreInv /\ disk \in Seq(Item) BY DEF ReceiptsInv, ReceiptsTypes
<1>1. Applied(disk) \in SUBSET Occ BY <1>0 DEF Applied, Item, Occ, None
<1>2. CASE HeartbeatSaves
  <2>1. Serving /\ disk' = mem BY <1>2 DEF HeartbeatSaves, Serving, Restoring
  <2>2. \A o \in Occ : Has(disk, o) => Has(mem, o) BY <1>0, <2>1 DEF CoreInv, StatesRegular
  <2>3. \A o \in Occ : o \in Applied(disk) => o \in Applied(mem) BY <2>2, HasApplied
  <2>4. failures = 0 => Extends(disk, mem) BY <1>0, <2>1 DEF CoreInv, GrowsWithoutFailure
  <2> QED BY <1>1, <2>1, <2>3, <2>4
<1>3. ASSUME NEW o \in Occ, SaveState(o)
      PROVE Applied(disk) \subseteq Applied(disk') /\ (failures = 0 => Extends(disk, disk'))
  <2> DEFINE u == receipt[o].prepared
  <2>1. engine \in {"state", "restore state"} /\ disk' = u /\ o = Head(batch)
    BY <1>3, PhaseTyped DEF SaveState
  <2>2. batch # <<>> BY <1>0, <2>1 DEF CoreInv, CommitPhases
  <2>3. batch \in Seq(Occ) BY <1>0 DEF ReceiptsTypes
  <2>4. o = batch[1] /\ 1 \in DOMAIN batch BY <2>1, <2>2, <2>3, TailTyped
  <2>5. Prepared(o)
    <3>1. receipt[o].status = "prepared" BY <1>0, <2>1, <2>4 DEF CoreInv, CommitPhases
    <3>2. closed[o] # "completed" BY <1>0, <2>1, <2>4 DEF CoreInv, BatchOrdered, Completing
    <3> QED BY <3>1, <3>2 DEF Prepared
  <2>6. Covers(u, closed) /\ Has(u, o) BY <1>0, <2>5 DEF CoreInv, StatesRegular
  <2>7. ASSUME NEW p \in Applied(disk) PROVE p \in Applied(u)
    <3>1. p \in Occ BY <1>1
    <3>2. PICK i \in DOMAIN disk : disk[i][1] = p BY DEF Applied
    <3>3. Prepared(p) \/ closed[p] = "completed"
      BY <1>0, <3>1, <3>2, NoneTyped DEF CoreInv, StatesRegular, Regular, Prepared
    <3>4. Prepared(p) => p = o BY <1>0, <2>2, <2>4, <3>1 DEF CoreInv, BatchOrdered
    <3>5. Has(u, p) BY <2>6, <3>1, <3>3, <3>4 DEF Covers
    <3> QED BY <3>1, <3>5, HasApplied
  <2>8. failures = 0 => Extends(disk, u) BY <1>0, <2>5 DEF CoreInv, GrowsWithoutFailure
  <2> QED BY <2>1, <2>7, <2>8
<1>4. CASE UNCHANGED disk
  <2>1. Extends(disk, disk) BY <1>0 DEF Extends
  <2> QED BY <1>4, <2>1
<1>5. Drain \/ Start \/ Started \/ Materialised \/ (\E j \in unqueued : EnqueueJob(j)) => UNCHANGED disk
  BY DEF Drain, Start, Started, Materialised, EnqueueJob
<1>6. (\E o \in Occ : Prepare(o) \/ ResumeReceipt(o) \/ CompleteReceipt(o) \/ Reject(o)) => UNCHANGED disk
  BY DEF Prepare, ResumeReceipt, CompleteReceipt, Reject
<1>7. DaemonDies \/ Heartbeat \/ DrainFails \/ (\E j \in spool : DeliverJob(j)) => UNCHANGED disk
  BY DEF DaemonDies, Heartbeat, DrainFails, DeliverJob
<1>8. (\E o \in Occ : AcceptOccurrence(o) \/ ReconcileRecords(o)) => UNCHANGED disk
  BY DEF AcceptOccurrence, ReconcileRecords, chainVars
<1>9. UNCHANGED receiptsVars => UNCHANGED disk BY DEF receiptsVars
<1> QED BY <1>2, <1>3, <1>4, <1>5, <1>6, <1>7, <1>8, <1>9, OutsideFrame DEF ReceiptsNext, Engine, Reconcile

\* The inductive invariant of the receipts holds in every reachable state.
THEOREM ReceiptsInvariant == ReceiptsSpec => []ReceiptsInv
<1>1. ReceiptsInit => ReceiptsInv BY ReceiptsAssumption, ReceiptsInvInit
<1>2. ReceiptsInv /\ [ReceiptsNext]_receiptsVars => ReceiptsInv' BY ReceiptsAssumption, ReceiptsInvStep
<1> QED BY <1>1, <1>2, PTL DEF ReceiptsSpec

\* No acknowledged occurrence is lost, each is applied once and in the order of its
\* receipt, its tombstone comes after its effects are durable, what was applied stays
\* applied, and a backup covers what was acknowledged (receiver.ts, engine.ts, backup.ts).
THEOREM CaptureKeptHolds == ReceiptsSpec => CaptureKept
<1>1. ReceiptsInv => NothingLost /\ TombstonesDurable /\ AppliedOnceInOrder /\ BackupCoversAcknowledged
  BY ReceiptsAssumption, InvKeeps
<1>2. ReceiptsInv /\ [ReceiptsNext]_receiptsVars
        => [/\ Applied(disk) \subseteq Applied(disk')
            /\ failures = 0 => /\ Len(disk) <= Len(disk')
                               /\ \A i \in DOMAIN disk : disk[i] = disk'[i]]_receiptsVars
  BY ReceiptsAssumption, GrowsStep DEF Extends
<1>3. ReceiptsSpec => []ReceiptsInv BY ReceiptsInvariant
<1>4. ReceiptsSpec => [][ReceiptsNext]_receiptsVars BY PTL DEF ReceiptsSpec
<1> QED BY <1>1, <1>2, <1>3, <1>4, PTL DEF CaptureKept, StateOnlyGrows

-----------------------------------------------------------------------------
(***************************************************************************)
(* The spool of the capture daemon.  A pass lists pending jobs by stamp    *)
(* and goes by an event only when it leaves the queue; so every pending    *)
(* event earlier than one still listed is listed before it, unless an      *)
(* operator put it back while the pass was under way.  A tree leaves the   *)
(* spool after its nodes are in the file of a later one or in the backend. *)
(***************************************************************************)
Working == {"merged", "deliver", "accepted", "dropped"}
Unplaced == pending \cup failed \cup resolved

\* Transcripts of the same content, under the same name, would share a file.
DistinctContents == \A i, k \in Of("transcript") : Snapshot[i] = Snapshot[k] => i = k

SpoolTypes ==
  /\ queued \subseteq Jobs /\ pending \subseteq queued /\ failed \subseteq queued /\ resolved \subseteq queued
  /\ owned \subseteq Of("transcript") /\ natives \subseteq Of("transcript") /\ deferred \subseteq Of("transcript")
  /\ refusing \subseteq Of("event")
  /\ list \in Seq(Jobs) /\ stage \in {"idle", "pass"} \cup Working
  /\ DOMAIN tree = Jobs

PassInv ==
  /\ \A j \in queued, i \in Jobs : i < j => i \in queued
  /\ \A n \in DOMAIN list : list[n] \in pending
  /\ \A m, n \in DOMAIN list : m < n => list[m] < list[n]
  /\ stage = "idle" => list = <<>>
  /\ stage \in Working => list # <<>> /\ current = Head(list)
  /\ \A i \in (Of("event") \cap pending) \ requeued, n \in DOMAIN list :
       i < list[n] => \E m \in DOMAIN list : list[m] = i

PlacedInv ==
  /\ \A j \in Jobs : Nodes[j] \subseteq tree[j]
  /\ stage = "merged" =>
       /\ Kind[current] = "tree"
       /\ \E l \in pending \cap Of("tree") : l # current /\ tree[current] \subseteq tree[l]
  /\ stage \in {"accepted", "dropped"} =>
       /\ current \in sent
       /\ Kind[current] = "tree" => tree[current] \subseteq remote
  /\ DistinctContents => \A j \in owned \ sent : Snapshot[j] \in snaps

SpoolInv == SpoolTypes /\ PassInv /\ PlacedInv /\ JobsAccounted

\* The rest of a pass.
LEMMA TailOfJobs ==
  ASSUME NEW b \in Seq(Jobs), b # <<>>
  PROVE /\ Tail(b) \in Seq(Jobs) /\ Head(b) = b[1] /\ Head(b) \in Jobs /\ 1 \in DOMAIN b
        /\ \A i \in DOMAIN Tail(b) : i \in Nat /\ i >= 1 /\ i + 1 \in DOMAIN b /\ Tail(b)[i] = b[i + 1]
        /\ \A i \in DOMAIN b : i # 1 => 1 < i /\ i - 1 \in DOMAIN Tail(b) /\ Tail(b)[i - 1] = b[i]
OBVIOUS

\* A pass lists every pending job once, by stamp.
LEMMA ByStampFacts ==
  ASSUME NEW S \in SUBSET Jobs, NEW b \in ByStamp(S)
  PROVE /\ b \in Seq(Jobs)
        /\ \A i \in DOMAIN b : b[i] \in S
        /\ \A o \in S : \E i \in DOMAIN b : b[i] = o
        /\ \A i, j \in DOMAIN b : i < j => b[i] < b[j]
<1> DEFINE n == Cardinality(S)
<1>1. n \in Nat
  <2>1. J \in Nat BY SpoolAssumption
  <2>2. IsFiniteSet(Jobs) BY <2>1, FS_Interval DEF Jobs
  <2>3. IsFiniteSet(S) BY <2>2, FS_Subset
  <2> QED BY <2>3, FS_CardinalityType
<1> HIDE DEF n
<1>2. /\ b \in [1..n -> S]
      /\ \A o \in S : \E i \in 1..n : b[i] = o
      /\ \A i, j \in 1..n : i < j => b[i] < b[j]
  BY DEF ByStamp, n
<1>3. b \in Seq(Jobs) BY <1>1, <1>2
<1> QED BY <1>2, <1>3

\* Steps that leave the pass alone.
LEMMA PassFrame ==
  ASSUME PassInv, UNCHANGED <<queued, pending, list, stage, current>>, requeued \subseteq requeued'
  PROVE PassInv'
BY DEF PassInv

\* The pass ends.
LEMMA PassIdle ==
  ASSUME PassInv, UNCHANGED queued, list' = <<>>, stage' = "idle"
  PROVE PassInv'
BY DEF PassInv, Working

\* The head of the pass is worked on.
LEMMA PassWorks ==
  ASSUME PassInv, UNCHANGED <<queued, pending, list, requeued>>, list # <<>>, stage' \in Working, current' = Head(list)
  PROVE PassInv'
BY DEF PassInv, Working

\* A job is put into the queue while a pass runs.
LEMMA PassGrows ==
  ASSUME PassInv, SpoolTypes, NEW j \in Jobs, pending' = pending \cup {j}, queued' = queued \cup {j},
         \A i \in 1..(j - 1) : i \in queued,
         UNCHANGED <<list, stage, current>>, requeued \subseteq requeued',
         j \notin queued \/ j \notin Of("event") \/ j \in requeued'
  PROVE PassInv'
<1>1. \A k \in queued', i \in Jobs : i < k => i \in queued'
  <2>1. \A i \in Jobs : i < j => i \in queued BY DEF Jobs
  <2> QED BY <2>1 DEF PassInv
<1>2. ASSUME NEW i \in (Of("event") \cap pending') \ requeued', NEW n \in DOMAIN list, i < list[n]
      PROVE \E m \in DOMAIN list : list[m] = i
  <2>1. CASE i # j BY <2>1, <1>2 DEF PassInv
  <2>2. CASE i = j
    <3>1. list[n] \in queued /\ j \in Jobs BY DEF PassInv, SpoolTypes
    <3>2. j \in queued BY <2>2, <1>2, <3>1 DEF PassInv
    <3> QED BY <2>2, <1>2, <3>2
  <2> QED BY <2>1, <2>2
<1> QED BY <1>1, <1>2 DEF PassInv

\* The head of the pass is left behind.
LEMMA PassSkips ==
  ASSUME PassInv, SpoolTypes, list # <<>>, list' = Tail(list), stage' = "pass", UNCHANGED <<queued, requeued>>,
         \/ pending' = pending \ {Head(list)}
         \/ pending' = pending /\ Head(list) \notin Of("event")
  PROVE PassInv'
<1>1. list \in Seq(Jobs) BY DEF SpoolTypes
<1> DEFINE l == list'
<1>2. /\ Head(list) = list[1] /\ 1 \in DOMAIN list
      /\ \A i \in DOMAIN l : i \in Nat /\ i >= 1 /\ i + 1 \in DOMAIN list /\ l[i] = list[i + 1]
      /\ \A i \in DOMAIN list : i # 1 => 1 < i /\ i - 1 \in DOMAIN l /\ l[i - 1] = list[i]
  BY <1>1, TailOfJobs
<1> HIDE DEF l
<1>3. /\ \A n \in DOMAIN list : list[n] \in pending /\ list[n] \in Nat
      /\ \A m, n \in DOMAIN list : m < n => list[m] < list[n]
  <2>1. \A n \in DOMAIN list : list[n] \in Jobs BY <1>1
  <2>2. \A j \in Jobs : j \in Nat BY DEF Jobs
  <2> QED BY <2>1, <2>2 DEF PassInv
<1>4. \A i \in DOMAIN l : l[i] \in pending'
  <2> SUFFICES ASSUME NEW i \in DOMAIN l PROVE l[i] \in pending' OBVIOUS
  <2>1. i + 1 \in DOMAIN list /\ 1 < i + 1 /\ l[i] = list[i + 1] BY <1>2
  <2>2. list[1] < list[i + 1] BY <1>2, <1>3, <2>1
  <2>3. list[1] # list[i + 1] BY <1>2, <1>3, <2>1, <2>2
  <2> QED BY <1>2, <1>3, <2>1, <2>3
<1>5. ASSUME NEW m \in DOMAIN l, NEW n \in DOMAIN l, m < n PROVE l[m] < l[n]
  <2>1. m + 1 < n + 1 BY <1>2, <1>5
  <2> QED BY <1>2, <1>3, <2>1
<1>6. ASSUME NEW i \in (Of("event") \cap pending') \ requeued', NEW n \in DOMAIN l, i < l[n]
      PROVE \E m \in DOMAIN l : l[m] = i
  <2>1. PICK m \in DOMAIN list : list[m] = i
    <3>1. i \in (Of("event") \cap pending) \ requeued BY <1>6
    <3>2. n + 1 \in DOMAIN list /\ i < list[n + 1] BY <1>2, <1>6
    <3> QED BY <3>1, <3>2 DEF PassInv
  <2>2. m # 1 BY <1>2, <1>6, <2>1
  <2> QED BY <1>2, <2>1, <2>2
<1>7. \A k \in queued', i \in Jobs : i < k => i \in queued' BY DEF PassInv
<1> QED BY <1>4, <1>5, <1>6, <1>7 DEF PassInv, Working, l

\* Jobs stay accounted for when each keeps a place and the nodes of trees do.
LEMMA PlacesKept ==
  ASSUME JobsAccounted, UNCHANGED queued,
         \A j \in Jobs \ Of("tree") : j \in Unplaced \cup sent \cup reissued => j \in Unplaced' \cup sent' \cup reissued',
         remote \subseteq remote',
         \A i \in Unplaced \cap Of("tree") :
           tree[i] \subseteq remote' \cup UNION {tree'[k] : k \in Unplaced' \cap Of("tree")},
         queued \subseteq Jobs
  PROVE JobsAccounted'
<1>1. (queued \ Of("tree")) \subseteq Unplaced' \cup sent' \cup reissued'
  BY DEF JobsAccounted, Unplaced
<1>2. ASSUME NEW j \in queued \cap Of("tree")
      PROVE Nodes[j] \subseteq remote' \cup UNION {tree'[k] : k \in Unplaced' \cap Of("tree")}
  <2>1. Nodes[j] \subseteq remote \cup UNION {tree[i] : i \in Unplaced \cap Of("tree")} BY DEF JobsAccounted, Unplaced
  <2> QED BY <2>1
<1> QED BY <1>1, <1>2 DEF JobsAccounted, Unplaced

\* Where nothing leaves the directories.
LEMMA PlacesGrow ==
  ASSUME JobsAccounted, UNCHANGED <<queued, remote>>, Unplaced \subseteq Unplaced', sent \subseteq sent',
         reissued \subseteq reissued', \A i \in Jobs : tree[i] \subseteq tree'[i], queued \subseteq Jobs
  PROVE JobsAccounted'
<1>1. ASSUME NEW i \in Unplaced \cap Of("tree")
      PROVE tree[i] \subseteq remote' \cup UNION {tree'[k] : k \in Unplaced' \cap Of("tree")}
  BY DEF Of
<1> QED BY <1>1, PlacesKept

Unchanging == UNCHANGED <<queued, pending, list, current, stage>>

\* Steps of an operator or of the world that put no job back.
OperatorStep(j) == Fix \/ Reissue(j) \/ ResolveFailed(j) \/ Vanish(j) \/ Deadline(j) \/ RetryDue(j)

\* Steps of the operator and of the world.
LEMMA OperatorKeeps ==
  ASSUME SpoolInv, NEW j \in Jobs, OperatorStep(j) PROVE SpoolInv'
<1>0. SpoolTypes /\ PassInv /\ PlacedInv /\ JobsAccounted BY DEF SpoolInv
<1>1. /\ UNCHANGED <<queued, pending, list, current, stage, sent, tree, remote, owned, snaps>>
      /\ requeued \subseteq requeued' /\ natives' \subseteq natives /\ deferred' \subseteq deferred
      /\ refusing' \subseteq refusing /\ failed' \subseteq failed
      /\ resolved' \subseteq resolved \cup failed
  <2>1. Fix \/ Reissue(j) \/ ResolveFailed(j) => UNCHANGED <<list, current, stage, deferred>> /\ requeued \subseteq requeued'
    BY DEF Fix, Reissue, ResolveFailed, Repair, passVars
  <2>2. CASE Fix BY <2>1, <2>2 DEF Fix, spoolVars
  <2>3. CASE Reissue(j) BY <2>1, <2>3 DEF Reissue, worldVars
  <2>4. CASE ResolveFailed(j) BY <2>1, <2>4 DEF ResolveFailed, worldVars
  <2>5. CASE Vanish(j) BY <2>5 DEF Vanish, spoolVars, passVars, bounds
  <2>6. CASE Deadline(j) BY <2>6 DEF Deadline, spoolVars, passVars, bounds
  <2>7. CASE RetryDue(j) BY <2>7 DEF RetryDue, spoolVars, worldVars, bounds
  <2> QED BY <2>2, <2>3, <2>4, <2>5, <2>6, <2>7 DEF OperatorStep
<1>2. SpoolTypes' BY <1>0, <1>1 DEF SpoolTypes
<1>3. PassInv' BY <1>0, <1>1, PassFrame
<1>4. PlacedInv' BY <1>0, <1>1 DEF PlacedInv
<1>5. JobsAccounted'
  <2>1. /\ \A i \in Jobs : i \in Unplaced /\ i \notin Unplaced' => i \in Of("event") \cap reissued'
        /\ reissued \subseteq reissued'
    <3>1. CASE Fix BY <3>1 DEF Fix, spoolVars, Unplaced
    <3>2. CASE Reissue(j) BY <3>2 DEF Reissue, Unplaced, Of
    <3>3. CASE ResolveFailed(j) BY <3>3 DEF ResolveFailed, Unplaced
    <3>4. CASE Vanish(j) \/ Deadline(j) \/ RetryDue(j) BY <3>4 DEF Vanish, Deadline, RetryDue, spoolVars, Unplaced
    <3> QED BY <3>1, <3>2, <3>3, <3>4 DEF OperatorStep
  <2>2. Of("event") \cap Of("tree") = {} BY DEF Of
  <2>3. \A i \in Unplaced \cap Of("tree") : i \in Unplaced' BY <2>1, <2>2 DEF Of
  <2>4. ASSUME NEW i \in Unplaced \cap Of("tree")
        PROVE tree[i] \subseteq remote' \cup UNION {tree'[k] : k \in Unplaced' \cap Of("tree")}
    BY <1>1, <2>3
  <2>5. \A i \in Jobs \ Of("tree") : i \in Unplaced \cup sent \cup reissued => i \in Unplaced' \cup sent' \cup reissued'
    BY <1>1, <2>1
  <2>6. queued \subseteq Jobs /\ UNCHANGED queued /\ remote \subseteq remote' BY <1>0, <1>1 DEF SpoolTypes
  <2> QED BY <1>0, <2>4, <2>5, <2>6, PlacesKept
<1> QED BY <1>2, <1>3, <1>4, <1>5 DEF SpoolInv

\* A job is enqueued, or returned to the queue by an operator.
LEMMA QueueKeeps ==
  ASSUME SpoolInv, NEW j \in Jobs, Enqueue(j) \/ RetryFailed(j) \/ RecoverTranscript(j) PROVE SpoolInv'
<1>0. SpoolTypes /\ PassInv /\ PlacedInv /\ JobsAccounted BY DEF SpoolInv
<1>1. /\ UNCHANGED <<list, current, stage, deferred, sent, tree, remote, resolved, reissued, natives, refusing>>
      /\ pending' = pending \cup {j} /\ queued' = queued \cup {j}
      /\ failed' \subseteq failed /\ failed \subseteq failed' \cup {j}
      /\ requeued \subseteq requeued' /\ owned' \subseteq owned \cup ({j} \cap Of("transcript"))
      /\ j \in owned' \ owned => Snapshot[j] \in snaps'
      /\ snaps \subseteq snaps'
      /\ \A i \in 1..(j - 1) : i \in queued
      /\ j \notin queued \/ j \notin Of("event") \/ j \in requeued'
  <2>0. Of("event") \cap Of("transcript") = {} BY DEF Of
  <2>1. CASE Enqueue(j)
    <3>1. owned' \subseteq owned \cup ({j} \cap Of("transcript"))
      BY <1>0, <2>1 DEF Enqueue, StoreSnapshot, SpoolTypes
    <3> QED BY <2>1, <3>1 DEF Enqueue, worldVars, passVars, bounds, StoreSnapshot
  <2>2. ASSUME j \in failed PROVE queued \cup {j} = queued /\ \A i \in 1..(j - 1) : i \in queued
    <3>1. j \in queued BY <1>0, <2>2 DEF SpoolTypes
    <3>2. \A i \in 1..(j - 1) : i \in Jobs /\ i < j BY SpoolAssumption DEF Jobs
    <3> QED BY <1>0, <3>1, <3>2 DEF PassInv
  <2>3. CASE RetryFailed(j)
    <3>1. UNCHANGED <<list, current, stage, deferred>> /\ requeued' = requeued \cup {j}
      BY <2>3 DEF RetryFailed, Repair, passVars
    <3> QED BY <2>2, <2>3, <3>1 DEF RetryFailed, worldVars
  <2>4. CASE RecoverTranscript(j)
    <3>1. UNCHANGED <<list, current, stage, deferred>> /\ requeued \subseteq requeued'
      BY <2>4 DEF RecoverTranscript, Repair, passVars
    <3>2. j \in Of("transcript") BY <2>4 DEF RecoverTranscript, Of
    <3> QED BY <2>0, <2>2, <2>4, <3>1, <3>2 DEF RecoverTranscript, StoreSnapshot
  <2> QED BY <2>1, <2>3, <2>4
<1>2. SpoolTypes' BY <1>0, <1>1 DEF SpoolTypes
<1>3. PassInv' BY <1>0, <1>1, PassGrows
<1>4. PlacedInv' BY <1>0, <1>1 DEF PlacedInv
<1>5. JobsAccounted'
  <2>1. Unplaced \subseteq Unplaced' /\ j \in Unplaced' BY <1>1 DEF Unplaced
  <2>2. \A i \in queued' \ Of("tree") : i \in Unplaced' \cup sent' \cup reissued'
    BY <1>0, <1>1, <2>1 DEF JobsAccounted, Unplaced
  <2>3. ASSUME NEW i \in queued' \cap Of("tree")
        PROVE Nodes[i] \subseteq remote' \cup UNION {tree'[k] : k \in Unplaced' \cap Of("tree")}
    <3>1. CASE i = j
      <4>1. Nodes[j] \subseteq tree[j] BY <1>0 DEF PlacedInv
      <4> QED BY <1>1, <2>1, <2>3, <3>1, <4>1
    <3>2. CASE i # j
      <4>1. Nodes[i] \subseteq remote \cup UNION {tree[k] : k \in Unplaced \cap Of("tree")}
        BY <1>0, <1>1, <2>3, <3>2 DEF JobsAccounted, Unplaced
      <4> QED BY <1>1, <2>1, <4>1
    <3> QED BY <3>1, <3>2
  <2> QED BY <2>2, <2>3 DEF JobsAccounted, Unplaced
<1> QED BY <1>2, <1>3, <1>4, <1>5 DEF SpoolInv

\* A pass starts or ends.
LEMMA PassesKeep ==
  ASSUME SpoolInv, StartPass \/ EndPass \/ Outage \/ ProcessorDies PROVE SpoolInv'
<1>0. SpoolTypes /\ PassInv /\ PlacedInv /\ JobsAccounted BY DEF SpoolInv
<1>1. /\ UNCHANGED <<spoolVars, worldVars, requeued>> /\ deferred' \subseteq deferred
      /\ stage' \in {"idle", "pass"}
  BY DEF StartPass, EndPass, Outage, ProcessorDies, Idle, bounds
<1>2. PassInv' /\ list' \in Seq(Jobs)
  <2>1. CASE StartPass
    <3>1. pending \in SUBSET Jobs /\ list' \in ByStamp(pending) /\ stage' = "pass"
      BY <1>0, <2>1 DEF StartPass, SpoolTypes
    <3>2. /\ list' \in Seq(Jobs)
          /\ \A i \in DOMAIN list' : list'[i] \in pending
          /\ \A o \in pending : \E i \in DOMAIN list' : list'[i] = o
          /\ \A i, j \in DOMAIN list' : i < j => list'[i] < list'[j]
      BY <3>1, ByStampFacts
    <3> QED BY <1>0, <1>1, <3>1, <3>2 DEF PassInv, Working, spoolVars
  <2>2. CASE EndPass \/ Outage \/ ProcessorDies
    <3>1. list' = <<>> /\ stage' = "idle" BY <2>2 DEF EndPass, Outage, ProcessorDies, Idle
    <3> QED BY <1>0, <1>1, <3>1, PassIdle DEF spoolVars
  <2> QED BY <2>1, <2>2
<1>3. SpoolTypes' BY <1>0, <1>1, <1>2 DEF SpoolTypes, spoolVars, worldVars
<1>4. PlacedInv' BY <1>0, <1>1 DEF PlacedInv, spoolVars
<1>5. JobsAccounted' BY <1>0, <1>1 DEF JobsAccounted, spoolVars
<1> QED BY <1>2, <1>3, <1>4, <1>5 DEF SpoolInv

\* The head of the pass is pending.
LEMMA HeadOfPass ==
  ASSUME SpoolTypes, PassInv, list # <<>>
  PROVE /\ Head(list) = list[1] /\ 1 \in DOMAIN list /\ Head(list) \in Jobs /\ Head(list) \in pending
        /\ Tail(list) \in Seq(Jobs) /\ \A n \in DOMAIN list : list[n] \in pending /\ list[n] \in Jobs
<1>1. list \in Seq(Jobs) BY DEF SpoolTypes
<1>2. Head(list) = list[1] /\ 1 \in DOMAIN list /\ Head(list) \in Jobs /\ Tail(list) \in Seq(Jobs)
  BY <1>1, TailOfJobs
<1> QED BY <1>1, <1>2 DEF PassInv

\* The latest tree of the pass is pending, and another one.
LEMMA LatestPending ==
  ASSUME SpoolTypes, PassInv, list # <<>>, Kind[Head(list)] = "tree"
  PROVE LatestTree(Head(list)) \in pending \cap Of("tree")
<1> DEFINE T == {i \in {list[n] : n \in DOMAIN list} : Kind[i] = "tree"}
<1>1. T \subseteq pending /\ T \subseteq Jobs /\ T # {} BY HeadOfPass
<1>2. J \in Nat BY SpoolAssumption
<1>3. IsFiniteSet(Jobs) BY <1>2, FS_Interval DEF Jobs
<1>4. IsFiniteSet(T) BY <1>1, <1>3, FS_Subset
<1>5. T \in SUBSET Nat BY <1>1 DEF Jobs
<1>6. Max(T) \in T BY <1>1, <1>4, <1>5, MaxIsLargest
<1>7. \A i \in T : i \in pending \cap Of("tree") BY <1>1 DEF Of
<1> HIDE DEF T
<1>8. Max(T) \in pending \cap Of("tree") BY <1>6, <1>7
<1> QED BY <1>8 DEF LatestTree, T

\* Steps that work on the head of the pass.
LEMMA WorkKeeps ==
  ASSUME SpoolInv, Coalesce \/ Attempt \/ Accepted \/ DropSnapshot PROVE SpoolInv'
<1>0. SpoolTypes /\ PassInv /\ PlacedInv /\ JobsAccounted BY DEF SpoolInv
<1>1. list # <<>> /\ current' = Head(list) /\ stage' \in Working
  <2>1. Coalesce \/ Attempt => list # <<>> /\ current' = Head(list) /\ stage' \in Working
    BY DEF Coalesce, Attempt, Ready, More, Working
  <2>2. Accepted \/ DropSnapshot => stage \in Working /\ current' = current /\ stage' \in Working
    BY DEF Accepted, DropSnapshot, Working
  <2> QED BY <1>0, <2>1, <2>2 DEF PassInv
<1>2. UNCHANGED <<queued, pending, failed, resolved, reissued, list, natives, refusing, deferred, requeued>>
  BY DEF Coalesce, Attempt, Accepted, DropSnapshot, worldVars, bounds
<1>3. PassInv' BY <1>0, <1>1, <1>2, PassWorks
<1>4. Head(list) \in Jobs /\ Head(list) \in pending BY <1>0, <1>1, HeadOfPass
<1> DEFINE h == Head(list)
<1>5. CASE Coalesce
  <2> DEFINE l == LatestTree(h)
  <2>1. Kind[h] = "tree" /\ l # h /\ stage' = "merged" /\ current' = h BY <1>5 DEF Coalesce
  <2>2. l \in pending \cap Of("tree") BY <1>0, <1>1, <2>1, LatestPending
  <2>3. tree' = [tree EXCEPT ![l] = @ \cup tree[h]] /\ UNCHANGED <<sent, remote, owned, snaps>>
    BY <1>5 DEF Coalesce
  <2>4. l \in Jobs /\ h \in Jobs BY <1>4, <2>2 DEF Of
  <2> HIDE DEF l, h
  <2>5. /\ DOMAIN tree' = Jobs /\ tree'[l] = tree[l] \cup tree[h] /\ tree'[h] = tree[h]
        /\ \A i \in Jobs : tree[i] \subseteq tree'[i]
    BY <1>0, <2>1, <2>3, <2>4 DEF SpoolTypes
  <2>6. SpoolTypes' BY <1>0, <1>2, <2>1, <2>3, <2>5 DEF SpoolTypes, Working
  <2>7. PlacedInv' BY <1>0, <1>2, <2>1, <2>2, <2>3, <2>5 DEF PlacedInv
  <2>8. JobsAccounted'
    <3>1. Unplaced \subseteq Unplaced' BY <1>2 DEF Unplaced
    <3>2. queued \subseteq Jobs BY <1>0 DEF SpoolTypes
    <3> QED BY <1>0, <1>2, <2>3, <2>5, <3>1, <3>2, PlacesGrow
  <2> QED BY <1>3, <2>6, <2>7, <2>8 DEF SpoolInv
<1>6. CASE Attempt
  <2>1. /\ UNCHANGED <<tree, sent, remote>> /\ stage' = "deliver" /\ current' = h
        /\ \/ UNCHANGED <<owned, snaps>>
           \/ h \in natives /\ owned' = owned \cup {h} /\ snaps' = snaps \cup {Snapshot[h]}
    BY <1>6 DEF Attempt, StoreSnapshot
  <2>2. SpoolTypes' BY <1>0, <1>2, <2>1 DEF SpoolTypes, Working
  <2>3. PlacedInv' BY <1>0, <2>1 DEF PlacedInv
  <2>4. JobsAccounted' BY <1>0, <1>2, <2>1 DEF JobsAccounted
  <2> QED BY <1>3, <2>2, <2>3, <2>4 DEF SpoolInv
<1>7. CASE Accepted
  <2>1. /\ UNCHANGED <<tree, owned, snaps>> /\ stage' = "accepted" /\ current' = current
        /\ sent' = sent \cup {current}
        /\ remote' = IF Kind[current] = "tree" THEN remote \cup tree[current] ELSE remote
    BY <1>7 DEF Accepted
  <2>2. SpoolTypes' BY <1>0, <1>2, <2>1 DEF SpoolTypes, Working
  <2>3. remote \subseteq remote' /\ (Kind[current] = "tree" => tree[current] \subseteq remote') BY <2>1
  <2>4. PlacedInv' BY <1>0, <2>1, <2>3 DEF PlacedInv
  <2>5. JobsAccounted' BY <1>0, <1>2, <2>1, <2>3 DEF JobsAccounted
  <2> QED BY <1>3, <2>2, <2>4, <2>5 DEF SpoolInv
<1>8. CASE DropSnapshot
  <2>1. /\ UNCHANGED <<tree, owned, sent, remote>> /\ stage = "accepted" /\ stage' = "dropped" /\ current' = current
        /\ snaps' = snaps \ {Snapshot[current]} /\ Kind[current] = "transcript"
    BY <1>8 DEF DropSnapshot
  <2>2. SpoolTypes' BY <1>0, <1>2, <2>1 DEF SpoolTypes, Working
  <2>3. current \in sent /\ current \in Of("transcript") BY <1>0, <1>1, <1>4, <2>1 DEF PlacedInv, Of
  <2>4. DistinctContents => \A j \in owned \ sent : Snapshot[j] \in snaps'
    BY <1>0, <2>1, <2>3 DEF PlacedInv, SpoolTypes, DistinctContents
  <2>5. PlacedInv' BY <1>0, <2>1, <2>4 DEF PlacedInv
  <2>6. JobsAccounted' BY <1>0, <1>2, <2>1 DEF JobsAccounted
  <2> QED BY <1>3, <2>2, <2>5, <2>6 DEF SpoolInv
<1> QED BY <1>5, <1>6, <1>7, <1>8

\* Steps that pass the head of the list.
LEMMA SkipKeeps ==
  ASSUME SpoolInv, PassOver \/ Coalesced \/ CompleteJob \/ Quarantine \/ Defer PROVE SpoolInv'
<1> DEFINE h == Head(list)
<1>0. SpoolTypes /\ PassInv /\ PlacedInv /\ JobsAccounted BY DEF SpoolInv
<1>1. /\ UNCHANGED <<queued, resolved, reissued, sent, tree, remote, owned, snaps, natives, refusing, requeued>>
      /\ list' = Tail(list) /\ stage' = "pass"
  BY DEF PassOver, Coalesced, CompleteJob, Quarantine, Defer, Skip, worldVars, spoolVars, bounds
<1>2. /\ list # <<>>
      /\ ~PassOver => current = h
  <2>1. PassOver => list # <<>> BY DEF PassOver, More
  <2>2. Coalesced \/ CompleteJob \/ Quarantine \/ Defer => stage \in Working
    BY DEF Coalesced, CompleteJob, Quarantine, Defer, Working
  <2> QED BY <1>0, <2>1, <2>2 DEF PassInv
<1>3. h \in Jobs /\ h \in pending /\ Tail(list) \in Seq(Jobs) BY <1>0, <1>2, HeadOfPass
<1>4. Of("event") \cap Of("transcript") = {} BY DEF Of
<1>5. /\ \/ pending' = pending \ {h} /\ UNCHANGED deferred
         \/ pending' = pending /\ h \notin Of("event") /\ deferred' \subseteq deferred \cup ({h} \cap Of("transcript"))
      /\ failed' \in {failed, failed \cup {h}}
  <2>1. CASE PassOver
    <3>1. h \in deferred BY <1>3, <2>1 DEF PassOver
    <3> QED BY <1>0, <1>4, <2>1, <3>1 DEF PassOver, SpoolTypes, spoolVars
  <2>2. CASE Coalesced \/ CompleteJob \/ Quarantine
    <3>1. pending' = pending \ {current} /\ UNCHANGED deferred /\ failed' \in {failed, failed \cup {current}}
      BY <2>2 DEF Coalesced, CompleteJob, Quarantine
    <3>2. current = h
      <4>1. stage \in Working BY <2>2 DEF Coalesced, CompleteJob, Quarantine, Working
      <4> QED BY <1>0, <4>1 DEF PassInv
    <3> QED BY <3>1, <3>2
  <2>3. CASE Defer
    <3>1. current = h
      <4>1. stage \in Working BY <2>3 DEF Defer, Working
      <4> QED BY <1>0, <4>1 DEF PassInv
    <3>2. h \in Of("transcript") BY <1>3, <2>3, <3>1 DEF Defer, Readable, Of
    <3> QED BY <1>4, <2>3, <3>1, <3>2 DEF Defer, spoolVars
  <2> QED BY <2>1, <2>2, <2>3
<1>6. PassInv' BY <1>0, <1>1, <1>2, <1>5, PassSkips
<1>7. SpoolTypes'
  <2>1. pending' \subseteq pending /\ failed' \subseteq queued /\ deferred' \subseteq Of("transcript")
    BY <1>0, <1>3, <1>5 DEF SpoolTypes
  <2>2. list' \in Seq(Jobs) BY <1>1, <1>3
  <2> QED BY <1>0, <1>1, <2>1, <2>2 DEF SpoolTypes
<1>8. PlacedInv' BY <1>0, <1>1 DEF PlacedInv
<1>9. JobsAccounted'
  <2> HIDE DEF h
  <2>1. queued \subseteq Jobs /\ UNCHANGED <<queued, remote>> BY <1>0, <1>1 DEF SpoolTypes
  <2>2. CASE Unplaced \subseteq Unplaced'
    <3>1. sent \subseteq sent' /\ reissued \subseteq reissued' /\ \A i \in Jobs : tree[i] \subseteq tree'[i] BY <1>1
    <3> QED BY <1>0, <2>1, <2>2, <3>1, PlacesGrow
  <2>3. CASE Coalesced
    <3>1. Kind[current] = "tree" /\ current = h BY <1>0, <1>2, <2>3 DEF Coalesced, PlacedInv, PassOver, More
    <3>2. PICK l \in pending \cap Of("tree") : l # current /\ tree[current] \subseteq tree[l]
      BY <1>0, <2>3 DEF Coalesced, PlacedInv
    <3>3. pending' = pending \ {current} /\ failed' = failed BY <2>3 DEF Coalesced
    <3>4. l \in Unplaced' \cap Of("tree") BY <3>2, <3>3 DEF Unplaced
    <3>5. \A i \in Unplaced : i # current => i \in Unplaced' BY <1>1, <3>3 DEF Unplaced
    <3>6. ASSUME NEW i \in Unplaced \cap Of("tree")
          PROVE tree[i] \subseteq remote' \cup UNION {tree'[k] : k \in Unplaced' \cap Of("tree")}
      <4>1. CASE i = current BY <1>1, <3>2, <3>4, <4>1
      <4>2. CASE i # current BY <1>1, <3>5, <3>6, <4>2
      <4> QED BY <4>1, <4>2
    <3>7. ASSUME NEW i \in Jobs \ Of("tree"), i \in Unplaced \cup sent \cup reissued
          PROVE i \in Unplaced' \cup sent' \cup reissued'
      <4>1. i # current BY <3>1, <3>7 DEF Of
      <4> QED BY <1>1, <3>5, <3>7, <4>1
    <3> QED BY <1>0, <2>1, <3>6, <3>7, PlacesKept
  <2>4. CASE CompleteJob
    <3>1. stage \in {"accepted", "dropped"} /\ pending' = pending \ {current} /\ failed' = failed
      BY <2>4 DEF CompleteJob
    <3>2. current \in sent /\ (Kind[current] = "tree" => tree[current] \subseteq remote)
      BY <1>0, <3>1 DEF PlacedInv
    <3>3. \A i \in Unplaced : i # current => i \in Unplaced' BY <1>1, <3>1 DEF Unplaced
    <3>4. ASSUME NEW i \in Unplaced \cap Of("tree")
          PROVE tree[i] \subseteq remote' \cup UNION {tree'[k] : k \in Unplaced' \cap Of("tree")}
      <4>1. CASE i = current BY <1>1, <3>2, <3>4, <4>1 DEF Of
      <4>2. CASE i # current BY <1>1, <3>3, <3>4, <4>2
      <4> QED BY <4>1, <4>2
    <3>5. ASSUME NEW i \in Jobs \ Of("tree"), i \in Unplaced \cup sent \cup reissued
          PROVE i \in Unplaced' \cup sent' \cup reissued'
      BY <1>1, <3>2, <3>3, <3>5
    <3> QED BY <1>0, <2>1, <3>4, <3>5, PlacesKept
  <2>5. CASE PassOver \/ Defer
    <3>1. pending' = pending /\ failed' = failed BY <2>5 DEF PassOver, Defer, spoolVars
    <3>2. Unplaced \subseteq Unplaced' BY <1>1, <3>1 DEF Unplaced
    <3> QED BY <2>2, <3>2
  <2>6. CASE Quarantine
    <3>1. pending' = pending \ {current} /\ failed' = failed \cup {current} BY <2>6 DEF Quarantine
    <3>2. Unplaced \subseteq Unplaced' BY <1>1, <3>1 DEF Unplaced
    <3> QED BY <2>2, <3>2
  <2> QED BY <2>3, <2>4, <2>5, <2>6
<1> QED BY <1>6, <1>7, <1>8, <1>9 DEF SpoolInv

\* Every step keeps the invariant.
LEMMA SpoolInvStep ==
  ASSUME SpoolInv, [SpoolNext]_spoolAll PROVE SpoolInv'
<1>1. CASE Processor
  BY <1>1, PassesKeep, WorkKeeps, SkipKeeps DEF Processor
<1>2. CASE Outage \/ ProcessorDies BY <1>2, PassesKeep
<1>3. CASE Fix
  <2>1. 1 \in Jobs BY SpoolAssumption DEF Jobs
  <2> QED BY <1>3, <2>1, OperatorKeeps DEF OperatorStep
<1>4. ASSUME NEW j \in Jobs, OperatorStep(j) PROVE SpoolInv' BY <1>4, OperatorKeeps
<1>5. ASSUME NEW j \in Jobs, Enqueue(j) \/ RetryFailed(j) \/ RecoverTranscript(j) PROVE SpoolInv'
  BY <1>5, QueueKeeps
<1>6. CASE UNCHANGED spoolAll
  BY <1>6 DEF SpoolInv, SpoolTypes, PassInv, PlacedInv, JobsAccounted,
              spoolAll, spoolVars, worldVars, passVars, bounds
<1> QED BY <1>1, <1>2, <1>3, <1>4, <1>5, <1>6 DEF SpoolNext, OperatorStep

\* The initial state satisfies the invariant.
LEMMA SpoolInvInit == SpoolInit => SpoolInv
<1> SUFFICES ASSUME SpoolInit PROVE SpoolInv OBVIOUS
<1>1. SpoolTypes BY SpoolAssumption DEF SpoolInit, SpoolTypes
<1>2. PassInv BY DEF SpoolInit, PassInv, Working
<1>3. PlacedInv BY DEF SpoolInit, PlacedInv
<1>4. JobsAccounted BY DEF SpoolInit, JobsAccounted
<1> QED BY <1>1, <1>2, <1>3, <1>4 DEF SpoolInv

\* An event is accepted before a later one, for the pass lists every event that is pending.
LEMMA OrderStep ==
  ASSUME SpoolInv, [SpoolNext]_spoolAll
  PROVE \A j \in Of("event") : j \in sent' \ sent =>
          \A i \in Of("event") : i < j /\ i \in pending => i \in requeued
<1>1. CASE Accepted
  <2> SUFFICES ASSUME NEW j \in Of("event"), j \in sent' \ sent, NEW i \in Of("event"), i < j, i \in pending,
                      i \notin requeued
               PROVE FALSE
    OBVIOUS
  <2>1. j = current /\ stage = "deliver" BY <1>1 DEF Accepted
  <2>2. SpoolTypes /\ PassInv /\ list # <<>> /\ j = Head(list) BY <2>1 DEF SpoolInv, PassInv, Working
  <2>3. j = list[1] /\ 1 \in DOMAIN list /\ j \in Jobs BY <2>2, HeadOfPass
  <2>4. PICK m \in DOMAIN list : list[m] = i BY <2>2, <2>3 DEF PassInv
  <2>5. m = 1 \/ 1 < m BY <2>2 DEF SpoolTypes
  <2>6. i \in Nat /\ j \in Nat BY <2>3 DEF Of, Jobs
  <2>7. m = 1 \/ j < i BY <2>2, <2>3, <2>4, <2>5 DEF PassInv
  <2> QED BY <2>3, <2>4, <2>6, <2>7
<1>2. CASE sent' = sent BY <1>2
<1>3. \/ Accepted \/ sent' = sent
  <2>1. Processor => Accepted \/ sent' = sent
    BY DEF Processor, StartPass, EndPass, PassOver, Coalesce, Coalesced, Attempt, DropSnapshot, CompleteJob,
           Quarantine, Defer, spoolVars
  <2>2. Outage \/ ProcessorDies \/ Fix => sent' = sent BY DEF Outage, ProcessorDies, Fix, spoolVars
  <2>3. ASSUME NEW j \in Jobs, \/ Enqueue(j) \/ RetryDue(j) \/ RetryFailed(j) \/ Reissue(j)
                               \/ RecoverTranscript(j) \/ ResolveFailed(j) \/ Vanish(j) \/ Deadline(j)
        PROVE sent' = sent
    BY <2>3 DEF Enqueue, RetryDue, RetryFailed, Reissue, RecoverTranscript, ResolveFailed, Vanish, Deadline, spoolVars
  <2>4. UNCHANGED spoolAll => sent' = sent BY DEF spoolAll, spoolVars
  <2> QED BY <2>1, <2>2, <2>3, <2>4 DEF SpoolNext
<1> QED BY <1>1, <1>2, <1>3

\* The inductive invariant of the spool holds in every reachable state.
THEOREM SpoolInvariant == SpoolSpec => []SpoolInv
<1>1. SpoolInit => SpoolInv BY SpoolInvInit
<1>2. SpoolInv /\ [SpoolNext]_spoolAll => SpoolInv' BY SpoolInvStep
<1> QED BY <1>1, <1>2, PTL DEF SpoolSpec

\* Whatever the contents of transcripts are, no job and no node of a tree is lost, and
\* events are accepted in the order of their stamps unless an operator requeued one.
THEOREM JobsKeptInOrder == SpoolSpec => []JobsAccounted /\ EventsInOrder
<1>1. SpoolInv => JobsAccounted BY DEF SpoolInv
<1>2. SpoolInv /\ [SpoolNext]_spoolAll =>
        [\A j \in Of("event") : j \in sent' \ sent =>
           \A i \in Of("event") : i < j /\ i \in pending => i \in requeued]_spoolAll
  BY OrderStep
<1> QED BY <1>1, <1>2, SpoolInvariant, PTL DEF SpoolSpec, EventsInOrder

\* When no two transcripts share a snapshot file, moreover, the snapshot that a queued
\* transcript names stays until the transcript was accepted (storage.ts).
THEOREM SpoolKeptHolds == DistinctContents => (SpoolSpec => SpoolKept)
<1> SUFFICES ASSUME DistinctContents PROVE SpoolSpec => SpoolKept OBVIOUS
<1>1. SpoolInv => OwnedSnapshotKept
  BY DEF SpoolInv, PlacedInv, OwnedSnapshotKept
<1> QED BY <1>1, SpoolInvariant, JobsKeptInOrder, PTL DEF SpoolKept

=============================================================================
