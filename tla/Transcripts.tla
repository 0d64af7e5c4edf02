----------------------------- MODULE Transcripts ----------------------------
(***************************************************************************)
(* The transcript catalogue: imports of transcript bundles, snapshots of   *)
(* sessions that grew after an import, reinterpretations by another        *)
(* parser, and the derivations recorded for imported runs.                 *)
(*                                                                         *)
(* An event is named by its key, its place in source order.  A member sees *)
(* every event, an outsider only those without a space.  A bundle names    *)
(* its run, the bytes and the parser of its artifact, its project, the     *)
(* number of its chunks and, for a reinterpretation, the run and the       *)
(* artifact it claims to come from.  Hashes are the values they stand for. *)
(* Commands are atomic here: FoldStore shows that a command commits        *)
(* against the log it read.                                                *)
(***************************************************************************)
EXTENDS Naturals, Sequences, FiniteSets

CONSTANTS Bundles,
          MaxChunks,   \* bound: chunks of a derivation
          MaxKey,      \* bound: keys 1..MaxKey
          MaxImports,  \* bound: imports that append events
          Writers

VARIABLES log,         \* the canonical transcript events
          imported     \* history: the imports that were answered
vars == <<log, imported>>

Readers == {"member", "outsider"}
Scopes == {"all", "space"}
Keys == 1..MaxKey
None == <<>>
Visible(reader) == {ev \in log : ev.scope = "all" \/ reader = "member"}
MaxOf(S) == CHOOSE k \in S \cup {0} : \A j \in S : j <= k

-----------------------------------------------------------------------------
\* The records of a bundle.
ArtifactId(b) == <<b.sha, b.parser>>
Artifact(b) == [id |-> ArtifactId(b), sha |-> b.sha, parser |-> b.parser]
Run(b) == [id |-> b.run, native |-> b.native, artifact |-> ArtifactId(b), project |-> b.project,
           previous |-> b.previous, root |-> b.root]
RecordsOf(b) ==
  << [type |-> "project", value |-> b.project], [type |-> "artifact", value |-> Artifact(b)],
     [type |-> "run", value |-> Run(b)] >>
  \o [k \in 1..b.chunks |-> [type |-> "chunk", value |-> [run |-> b.run, sequence |-> k - 1]]]

Empty == [ok |-> TRUE, projects |-> {}, artifacts |-> {}, runs |-> {}, chunks |-> {}]
Fail(c) == [c EXCEPT !.ok = FALSE]
RunOf(c, id) == {r \in c.runs : r.id = id}

\* validateTranscriptInterpretation: the claimed predecessor is a run of the
\* same session, the claimed root is the artifact its chain started from, and
\* only the parser differs.
RootOf(r) == IF r.root = None THEN r.artifact ELSE r.root
Interpretation(c, run, art) ==
  run.previous # None =>
    \E previous \in RunOf(c, run.previous) :
      /\ previous.id # run.id /\ previous.native = run.native
      /\ run.root = RootOf(previous)
      /\ \E root \in c.artifacts, prior \in c.artifacts :
           /\ root.id = RootOf(previous) /\ prior.id = previous.artifact
           /\ art.id \notin {root.id, prior.id}
           /\ art.parser # prior.parser
           /\ art.sha = root.sha

\* projectTranscriptEvents on one record; insertUnique refuses a changed one.
Insert(c, record) ==
  LET v == record.value
  IN CASE ~c.ok -> c
       [] c.ok /\ record.type = "project" -> [c EXCEPT !.projects = @ \cup {v}]
       [] c.ok /\ record.type = "artifact" ->
            IF \E a \in c.artifacts : a.id = v.id /\ a # v THEN Fail(c) ELSE [c EXCEPT !.artifacts = @ \cup {v}]
       [] c.ok /\ record.type = "run" ->
            IF /\ \E a \in c.artifacts : a.id = v.artifact /\ Interpretation(c, v, a)
               /\ v.project \in c.projects
               /\ \A r \in RunOf(c, v.id) : r = v
            THEN [c EXCEPT !.runs = @ \cup {v}] ELSE Fail(c)
       [] c.ok /\ record.type = "chunk" ->
            IF RunOf(c, v.run) = {} THEN Fail(c) ELSE [c EXCEPT !.chunks = @ \cup {v}]
NoGaps(c) ==
  \A k \in c.chunks : k.sequence > 0 => [k EXCEPT !.sequence = @ - 1] \in c.chunks
rebuildTranscriptCatalog(events) ==
  LET upTo[k \in 0..MaxKey] ==
        IF k = 0 THEN Empty
        ELSE LET before == upTo[k - 1]
             IN IF \E ev \in events : ev.key = k /\ ev.kind = "catalog"
                THEN Insert(before, (CHOOSE ev \in events : ev.key = k).record) ELSE before
      c == upTo[MaxKey]
  IN IF NoGaps(c) THEN c ELSE Fail(c)

\* The source family of a run: the bytes of the artifact its chain of
\* interpretations started from.  Evidence of one family counts once.
independenceKey(c, r) == (CHOOSE a \in c.artifacts : a.id = RootOf(r)).sha

\* The events that hold the records.
CatalogEvent(key, scope, record) == [key |-> key, scope |-> scope, kind |-> "catalog", record |-> record]
DerivationEvent(key, scope, run, sequence) ==
  [key |-> key, scope |-> scope, kind |-> "derivation", record |-> [run |-> run, sequence |-> sequence]]

-----------------------------------------------------------------------------
Init == log = {} /\ imported = {}

\* Mutant: snapshots are numbered.
SnapshotNumbered(b, c) == [b EXCEPT !.run = <<"snapshot", b.run, Cardinality(c.runs)>>]
\* A changed bundle of a known session becomes a snapshot run, named by its
\* bytes; any other change of a known run conflicts.
SnapshotOf(b, c) == [b EXCEPT !.run = <<"snapshot", b.run, b.sha>>]
Known(c, b) == RunOf(c, b.run) # {}
Same(c, b) == Run(b) \in c.runs
Changed(c, b) == \E r \in RunOf(c, b.run) : r.native # b.native \/ r.artifact = ArtifactId(b)
bundleFor(c, b) == IF ~Known(c, b) \/ Same(c, b) THEN b ELSE SnapshotOf(b, c)

Stored(c) == {[type |-> "project", value |-> v] : v \in c.projects} \cup {[type |-> "artifact", value |-> v] : v \in c.artifacts}
             \cup {[type |-> "run", value |-> v] : v \in c.runs} \cup {[type |-> "chunk", value |-> v] : v \in c.chunks}
\* The records an import still has to append; assertSame refuses a changed one.
Missing(c, b) == SelectSeq(RecordsOf(bundleFor(c, b)), LAMBDA record : record \notin Stored(c))
Acceptable(c, b) ==
  /\ Known(c, b) /\ ~Same(c, b) => ~Changed(c, b)
  /\ \A a \in c.artifacts : a.id = ArtifactId(b) => a = Artifact(b)
  /\ \A r \in RunOf(c, bundleFor(c, b).run) : r = Run(bundleFor(c, b))

\* importTranscript: the missing records are appended after everything the
\* writer sees, as one batch, if the whole canonical log replays with them.
importTranscript(writer, scope, b) ==
  \E c \in {rebuildTranscriptCatalog(Visible(writer))},
     contained \in {rebuildTranscriptCatalog({ev \in Visible(writer) : ev.scope \in {"all", scope}})} :
    /\ scope = "all" \/ writer = "member"
    /\ c.ok /\ contained.ok /\ Acceptable(c, b)
    /\ Interpretation(contained, Run(bundleFor(c, b)), Artifact(b))
    /\ imported' = imported \cup {<<writer, scope, b>>}
    /\ \/ Missing(c, b) = <<>> /\ UNCHANGED log
       \/ /\ Missing(c, b) # <<>>
          /\ \E first \in Keys :
               /\ first > MaxOf({ev.key : ev \in Visible(writer)})
               /\ first + Len(Missing(c, b)) - 1 \in Keys
               /\ \A ev \in log : ev.key \notin first..(first + Len(Missing(c, b)) - 1)
               /\ log' = log \cup {CatalogEvent(first + k - 1, scope, Missing(c, b)[k]) : k \in 1..Len(Missing(c, b))}
               /\ rebuildTranscriptCatalog(log').ok

Import == \E writer \in Writers, scope \in Scopes, b \in Bundles :
  /\ Cardinality(imported) < MaxImports \/ <<writer, scope, b>> \in imported
  /\ importTranscript(writer, scope, b)

\* recordTranscriptDerivation: a manifest for a run, then its chunks in order,
\* each in the scope of the first event that imported the run.
Derivations(events, run) == {ev \in events : ev.kind = "derivation" /\ ev.record.run = run}
InOrder(earlier, sequence) == Cardinality({ev \in earlier : ev.record.sequence \in 0..(sequence - 1)}) = sequence
RecordDerivation == \E writer \in Writers : \E c \in {rebuildTranscriptCatalog(Visible(writer))} :
  \E r \in c.runs, sequence \in (0..(MaxChunks - 1)) \cup {MaxChunks}, key \in Keys :
    LET events == Visible(writer)
        manifest == sequence = MaxChunks
        prior == Derivations(events, r.id)
        source == CHOOSE ev \in events :
                    /\ ev.kind = "catalog" /\ ev.record.type = "run" /\ ev.record.value.id = r.id
                    /\ \A o \in events : o.kind = "catalog" /\ o.record = ev.record => ev.key <= o.key
        ev == DerivationEvent(key, source.scope, r.id, sequence)
    IN /\ c.ok /\ \A o \in events : o.key < key
       /\ \A o \in log : o.key # key
       /\ ~manifest => (\E m \in prior : m.record.sequence = MaxChunks) /\ InOrder(prior, sequence)
       /\ \A old \in log : old.kind = "derivation" => old.record # ev.record
       /\ log' = log \cup {ev}
       /\ UNCHANGED imported

Next == Import \/ RecordDerivation
Spec == Init /\ [][Next]_vars

-----------------------------------------------------------------------------
\* An import that was answered is a no-op when it is repeated, whatever was
\* imported meanwhile, also of a session that grew and was imported again.
RetryNoop ==
  \A i \in imported :
    \E c \in {rebuildTranscriptCatalog(Visible(i[1]))} : c.ok => Missing(c, i[3]) = <<>> /\ Acceptable(c, i[3])

\* All interpretations of a transcript, however long the chain, are of the
\* same source family: reprocessing cannot corroborate itself.
OneFamily ==
  \E c \in {rebuildTranscriptCatalog(log)} :
    /\ c.ok
    /\ \A r \in c.runs : r.previous # None =>
         /\ r.artifact[1] = independenceKey(c, r)
         /\ \A p \in RunOf(c, r.previous) : independenceKey(c, p) = independenceKey(c, r)

\* Whoever sees a derivation sees a gapless beginning of its chunks, so that
\* reading it never fails its integrity check.
DerivationsReadable ==
  \A reader \in Readers : \A m \in Visible(reader) :
    (m.kind = "derivation" /\ m.record.sequence = MaxChunks) =>
      LET seen == {ev.record.sequence : ev \in Derivations(Visible(reader), m.record.run)} \ {MaxChunks}
      IN seen = 0..(Cardinality(seen) - 1)
=============================================================================
