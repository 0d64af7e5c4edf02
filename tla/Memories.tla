------------------------------ MODULE Memories ------------------------------
(***************************************************************************)
(* Memories and memory candidates. They exist only as events of the log;   *)
(* every view replays the events its reader may see, in the order of their *)
(* times, and a command may carry a time before events that are already    *)
(* stored. A command builds its event from its own view, and commits it    *)
(* after the references and the whole log with the event have been         *)
(* checked. FoldStore shows that a command reads and commits as one step.  *)
(* At equal times a later event must have the greater id (order.ts), so    *)
(* the log is a sequence in replay order and a new event goes behind the   *)
(* events that are not later than it. The memory lists and the data        *)
(* quality report are answered from SQL over the stored rows, in the order *)
(* of their ingestion sequence, beside the same answers from replay; Next  *)
(* leaves the rows out, NextStored keeps them.                             *)
(***************************************************************************)
EXTENDS Naturals, Sequences, FiniteSets, SequencesExt

CONSTANTS
  NMemories,    \* memory ids are 1..NMemories, in the order of their uuids
  NCandidates,  \* candidate ids
  Principals,
  Scopes,       \* audiences in use: Shared and creators of personal memories
  Shared,       \* workspace audience
  Reviewers,    \* owners and admins of the workspace
  Times,        \* event times
  Relations,    \* relations a memory may state: source, supersedes, contradicts
  Signals,      \* what a feedback reports: offered, injected, used, judged or outcome
  Commands,     \* the commands clients use in this instance
  MaxLog        \* bound: events

MemoriesAssumption ==
  /\ NMemories \in Nat /\ NCandidates \in Nat /\ MaxLog \in Nat
  /\ Times \subseteq Nat /\ Scopes \subseteq Principals \cup {Shared}
  /\ Shared \notin Principals /\ Reviewers \subseteq Principals
  /\ Relations \subseteq {"source", "supersedes", "contradicts"}

MemoryIds == 1..NMemories
CandidateIds == 1..NCandidates
Evidence == {"supports", "opposes"}
None == 0

VARIABLES
  log,      \* canonical events in replay order
  pager,    \* a reader that walks recallMemoryPage
  stayed,   \* memories in its corpus all along its walk
  ranking,  \* a reader in rankMemories
  rows      \* the events in the order in which they were stored

vars == <<log, pager, stayed, ranking>>

Blank == [kind |-> "", t |-> 0, key |-> None, scope |-> Shared, base |-> 0,
          refs |-> {}, ev |-> {}, patch |-> "", from |-> None]
Idle == [on |-> FALSE, who |-> Shared, rows |-> {}, cursor |-> <<>>, got |-> <<>>]
Init == log = <<>> /\ pager = Idle /\ stayed = {} /\ ranking = Idle /\ rows = <<>>

-----------------------------------------------------------------------------
(* rebuildMemoryCandidates                                                 *)
NoCandidates == [ok |-> TRUE, cands |-> <<>>]

Pending(st, e) == e.key \in DOMAIN st.cands /\ st.cands[e.key].decided = ""

\* The checks of one record; a failed one throws.
CandidateRecordFits(st, e) ==
  CASE e.kind = "propose" -> e.key \notin DOMAIN st.cands
    [] e.kind \in {"candidate-support", "candidate-contribute"} ->
         /\ Pending(st, e) /\ e.scope = st.cands[e.key].scope
         /\ e.t >= st.cands[e.key].upd
         /\ e.kind = "candidate-contribute" => e.base = st.cands[e.key].rev
    [] e.kind \in {"accept", "reject"} ->
         /\ Pending(st, e) /\ e.scope = st.cands[e.key].scope
         /\ e.t >= st.cands[e.key].at
         /\ e.kind = "accept" => e.base = st.cands[e.key].rev
    [] OTHER -> TRUE

CandidateStep(st, e) ==
  IF ~ st.ok \/ ~ CandidateRecordFits(st, e) THEN [st EXCEPT !.ok = FALSE]
  ELSE CASE e.kind = "propose" ->
              [st EXCEPT !.cands = @ @@ (e.key :>
                [scope |-> e.scope, refs |-> e.refs, ev |-> e.ev, rev |-> 0, at |-> e.t,
                 upd |-> e.t, decided |-> "", memory |-> None])]
         [] e.kind \in {"candidate-support", "candidate-contribute"} ->
              [st EXCEPT !.cands[e.key].ev = @ \cup e.ev, !.cands[e.key].rev = @ + 1,
                         !.cands[e.key].upd = e.t]
         [] e.kind \in {"accept", "reject"} ->
              [st EXCEPT !.cands[e.key].decided = e.kind, !.cands[e.key].upd = e.t,
                         !.cands[e.key].memory = e.from]
         [] OTHER -> st

CandidatesOf(s) ==
  LET c[i \in 0..Len(s)] == IF i = 0 THEN NoCandidates ELSE CandidateStep(c[i - 1], s[i])
  IN  c[Len(s)]

-----------------------------------------------------------------------------
(* rebuildMemories: the candidates of the whole log first, then the        *)
(* memories event by event. hist keeps every revision.                     *)
NoMemories == [ok |-> TRUE, mems |-> <<>>, gone |-> {}, hist |-> <<>>]

\* Mutant: the ids of forgotten memories may be used again.
UnusedNow(st, id) == id \notin DOMAIN st.mems
Unused(st, id) == id \notin DOMAIN st.mems \cup st.gone

MemoryRecordFits(c, st, e) ==
  CASE e.kind = "record" ->
         /\ Unused(st, e.key)
         /\ e.from # None =>
              /\ e.from \in DOMAIN c.cands
              /\ c.cands[e.from].decided = "accept" /\ c.cands[e.from].memory = e.key
              /\ c.cands[e.from].rev = e.base /\ c.cands[e.from].scope = e.scope
              /\ c.cands[e.from].upd <= e.t
    [] e.kind \in {"revise", "contribute", "forget"} ->
         /\ e.key \in DOMAIN st.mems /\ st.mems[e.key].rev = e.base
         /\ st.mems[e.key].scope = e.scope /\ e.t >= st.mems[e.key].upd
    [] e.kind = "feedback" ->
         /\ e.key \in DOMAIN st.mems /\ <<e.key, e.base>> \in DOMAIN st.hist
         /\ st.hist[<<e.key, e.base>>].upd <= e.t /\ st.mems[e.key].scope = e.scope
    [] OTHER -> TRUE

retain(st, id, m) ==
  [st EXCEPT !.mems = (id :> m) @@ @, !.hist = (<<id, m.rev>> :> m) @@ @]

\* What record.patch does: it replaces the fields it names, and all but tags and
\* evidence start a new claim.
Patched(m, e) ==
  [m EXCEPT !.refs = IF e.patch = "refs" THEN e.refs ELSE @,
            !.ev = IF e.patch = "evidence" THEN e.ev ELSE @,
            !.claim = IF e.patch \in {"refs", "content"} THEN m.rev + 1 ELSE @,
            !.upd = e.t, !.rev = @ + 1]

Contributed(m, e) == [m EXCEPT !.ev = @ \cup e.ev, !.rev = @ + 1, !.upd = e.t]

MemoryStep(c, st, e) ==
  IF ~ st.ok \/ ~ MemoryRecordFits(c, st, e) THEN [st EXCEPT !.ok = FALSE]
  ELSE CASE e.kind = "record" ->
              retain(st, e.key,
                [scope |-> e.scope, refs |-> e.refs, rev |-> 0, at |-> e.t, upd |-> e.t, claim |-> 0,
                 from |-> e.from,
                 ev |-> e.ev \cup (IF e.from = None THEN {} ELSE c.cands[e.from].ev)])
         [] e.kind = "revise" -> retain(st, e.key, Patched(st.mems[e.key], e))
         [] e.kind = "contribute" ->
              retain(st, e.key, Contributed(st.mems[e.key], e))
         [] e.kind = "forget" ->
              [st EXCEPT !.mems = [m \in DOMAIN st.mems \ {e.key} |-> st.mems[m]],
                         !.gone = @ \cup {e.key}]
         [] OTHER -> st

MemoriesOf(s) ==
  LET c == CandidatesOf(s)
      p[i \in 0..Len(s)] == IF i = 0 THEN [NoMemories EXCEPT !.ok = c.ok]
                            ELSE MemoryStep(c, p[i - 1], s[i])
  IN  p[Len(s)]

-----------------------------------------------------------------------------
(* currentness: reasons and status of an active memory                     *)
RefsOf(m, rel) == {r \in m.refs : r.rel = rel}
SameClaim(p, r) == r.m \in DOMAIN p.mems /\ r.rev \in p.mems[r.m].claim..p.mems[r.m].rev
Incoming(p, id, rel) ==
  \E o \in DOMAIN p.mems : \E r \in RefsOf(p.mems[o], rel) : r.m = id /\ SameClaim(p, r)

RECURSIVE Reasons(_, _, _)
\* Superseded is a reason too: any reason makes the status other than current.
Reasons(p, id, visiting) ==
  IF id \in visiting THEN {"dependency-cycle"}
  ELSE UNION {IF r.m \notin DOMAIN p.mems THEN {"source-unavailable"}
              ELSE IF p.mems[r.m].rev # r.rev THEN {"source-revised"}
              ELSE IF Reasons(p, r.m, visiting \cup {id}) # {} THEN {"source-needs-review"}
              ELSE {} : r \in RefsOf(p.mems[id], "source")}
       \cup (IF "opposes" \in p.mems[id].ev THEN {"opposing-evidence"} ELSE {})
       \cup (IF Incoming(p, id, "supersedes") THEN {"superseded"} ELSE {})
       \cup (IF \/ Incoming(p, id, "contradicts")
                \/ \E r \in RefsOf(p.mems[id], "contradicts") : SameClaim(p, r)
             THEN {"contradictory-memory"} ELSE {})

Current(p, id) == Reasons(p, id, {}) = {}

-----------------------------------------------------------------------------
(* What a principal may see, and what an audience may cite                 *)
\* Mutant: revisions of personal memories are not scoped to their creator.
SeesRecords(who, e) == e.scope \in {Shared, who} \/ e.kind = "revise"
authorizeEventAccess(who, e) == e.scope \in {Shared, who}
View(who, s) == SelectSeq(s, LAMBDA e : authorizeEventAccess(who, e))
CanCite(source, target) == source \in {Shared, target}
CanWrite(who, scope) == scope \in {Shared, who}
CanReview(who, scope) == scope = who \/ (scope = Shared /\ who \in Reviewers)

\* insertion behind the events that are not later
Insert(s, e) ==
  LET n == Len(SelectSeq(s, LAMBDA x : x.t <= e.t))
  IN  SubSeq(s, 1, n) \o <<e>> \o SubSeq(s, n + 1, Len(s))
Before(s, e) == SelectSeq(s, LAMBDA x : x.t <= e.t)

\* assertValidity: every reference names the revision current where the event goes
RefsHold(p, scope, refs) ==
  \A r \in refs : /\ r.m \in DOMAIN p.mems /\ p.mems[r.m].rev = r.rev
                  /\ CanCite(p.mems[r.m].scope, scope)

\* validateMemoryReferences, on the events before e in the log it would join
ReferencesValid(who, e, before) ==
  \E p \in {MemoriesOf(View(who, before))}, c \in {CandidatesOf(View(who, before))} :
      CASE e.kind = "record" ->
             /\ RefsHold(p, e.scope, e.refs)
             /\ e.from # None => e.from \in DOMAIN c.cands /\ RefsHold(p, e.scope, c.cands[e.from].refs)
        [] e.kind = "revise" -> e.key \in DOMAIN p.mems /\ RefsHold(p, e.scope, e.refs)
        [] e.kind \in {"forget", "contribute"} -> e.key \in DOMAIN p.mems
        [] e.kind = "propose" -> RefsHold(p, e.scope, e.refs)
        [] e.kind = "accept" -> e.key \in DOMAIN c.cands /\ RefsHold(p, e.scope, c.cands[e.key].refs)
        [] e.kind \in {"reject", "candidate-support", "candidate-contribute"} -> e.key \in DOMAIN c.cands
        [] OTHER -> TRUE

MemoryKinds == {"record", "revise", "forget", "contribute", "feedback"}
CandidateKinds == {"propose", "accept", "reject", "candidate-support", "candidate-contribute"}

\* The complete log is replayed before any durable write.
Replays(kinds, s) ==
  /\ kinds \cap MemoryKinds # {} => MemoriesOf(s).ok
  /\ kinds \cap CandidateKinds # {} => CandidatesOf(s).ok

\* recallMemoryCorpus: what the caller may see and what needs no review, newest first
Corpus(who, s) ==
  LET p == MemoriesOf(View(who, s)) IN {id \in DOMAIN p.mems : Current(p, id)}
StillThere == IF pager.on THEN stayed \cap Corpus(pager.who, log') ELSE stayed

\* A personal record is readable only if its actor is the creator in its scope.
validateEnvelope(who, e) == e.scope \in {Shared, who}
\* Parsing an event: its kind says what record it holds.
memoryLogRecordsFromEvent(who, e) == e.kind \in MemoryKinds /\ validateEnvelope(who, e)
memoryCandidateLogRecordsFromEvent(who, e) == e.kind \in CandidateKinds /\ validateEnvelope(who, e)

commitEntryBatch(who, e) ==
  /\ memoryLogRecordsFromEvent(who, e) \/ memoryCandidateLogRecordsFromEvent(who, e)
  /\ ReferencesValid(who, e, Before(log, e))
  /\ Replays({e.kind}, Insert(log, e))
  /\ log' = Insert(log, e)
  /\ stayed' = StillThere
  /\ UNCHANGED <<pager, ranking>>

-----------------------------------------------------------------------------
(* Commands. who is the caller, p and c its own view.                      *)
RefSets == {{}} \cup {{[rel |-> rel, m |-> m, rev |-> r]} : rel \in Relations, m \in MemoryIds, r \in 0..1}
EvidenceSets == {{x} : x \in Evidence}

\* The events of a new memory, of a proposal and of a decision.
makeMemoryRecordedEvent(t, id, scope, refs) ==
  [Blank EXCEPT !.kind = "record", !.t = t, !.key = id, !.scope = scope, !.refs = refs]
makeMemoryCandidateProposedEvent(t, cid, scope, refs) ==
  [Blank EXCEPT !.kind = "propose", !.t = t, !.key = cid, !.scope = scope, !.refs = refs,
                !.ev = {"supports"}]
makeMemoryCandidateAcceptedEvent(t, cid, cand, id) ==
  [Blank EXCEPT !.kind = "accept", !.t = t, !.key = cid, !.scope = cand.scope, !.base = cand.rev,
                !.from = id]

recordMemory(who, t, id, scope, refs) ==
  /\ "record" \in Commands /\ CanWrite(who, scope)
  /\ LET p == MemoriesOf(View(who, log)) IN id \notin DOMAIN p.mems \cup p.gone
  /\ commitEntryBatch(who, makeMemoryRecordedEvent(t, id, scope, refs))

\* revise, contribute and forget start from the active memory the caller sees
Mutate(who, t, id, kind, e) ==
  /\ kind \in Commands
  /\ LET p == MemoriesOf(View(who, log))
     IN  /\ id \in DOMAIN p.mems /\ CanWrite(who, p.mems[id].scope)
         /\ t >= p.mems[id].upd
         /\ commitEntryBatch(who, [e EXCEPT !.kind = kind, !.t = t, !.key = id, !.base = p.mems[id].rev,
                                            !.scope = p.mems[id].scope])
reviseMemory(who, t, id) ==
  \/ \E patch \in {"tags", "content"} : Mutate(who, t, id, "revise", [Blank EXCEPT !.patch = patch])
  \/ \E refs \in RefSets : Mutate(who, t, id, "revise", [Blank EXCEPT !.patch = "refs", !.refs = refs])
  \/ \E ev \in EvidenceSets : Mutate(who, t, id, "revise", [Blank EXCEPT !.patch = "evidence", !.ev = ev])
contributeMemoryEvidence(who, t, id) ==
  \E ev \in EvidenceSets : Mutate(who, t, id, "contribute", [Blank EXCEPT !.ev = ev])
forgetMemory(who, t, id) == Mutate(who, t, id, "forget", Blank)

\* feedback judges any revision of an active memory
recordMemoryFeedback(who, t, id, rev, signal) ==
  /\ "feedback" \in Commands
  /\ LET p == MemoriesOf(View(who, log))
     IN  /\ id \in DOMAIN p.mems /\ <<id, rev>> \in DOMAIN p.hist
         /\ p.hist[<<id, rev>>].upd <= t
         /\ commitEntryBatch(who, [Blank EXCEPT !.kind = "feedback", !.t = t, !.key = id, !.base = rev,
                                                !.patch = signal, !.scope = p.mems[id].scope])

proposeMemoryCandidate(who, t, cid, scope, refs) ==
  /\ "propose" \in Commands /\ CanWrite(who, scope)
  /\ cid \notin DOMAIN CandidatesOf(View(who, log)).cands
  /\ commitEntryBatch(who, makeMemoryCandidateProposedEvent(t, cid, scope, refs))

\* A command on a pending candidate of the caller's view
OnPending(who, t, cid, kind, ev) ==
  /\ kind \in Commands
  /\ LET c == CandidatesOf(View(who, log))
     IN  /\ cid \in DOMAIN c.cands /\ c.cands[cid].decided = ""
         /\ IF kind = "reject" THEN CanReview(who, c.cands[cid].scope)
                              ELSE CanWrite(who, c.cands[cid].scope)
         /\ commitEntryBatch(who, [Blank EXCEPT !.kind = kind, !.t = t, !.key = cid, !.ev = ev,
                                    !.scope = c.cands[cid].scope, !.base = c.cands[cid].rev])
\* support that adds nothing to the evidence appends nothing
addMemoryCandidateEvidence(who, t, cid) ==
  \E x \in Evidence :
    /\ \A d \in DOMAIN CandidatesOf(View(who, log)).cands \cap {cid} :
          x \notin CandidatesOf(View(who, log)).cands[d].ev
    /\ OnPending(who, t, cid, "candidate-support", {x})
contributeMemoryCandidateEvidence(who, t, cid) ==
  \E x \in Evidence : OnPending(who, t, cid, "candidate-contribute", {x})
rejectMemoryCandidate(who, t, cid) == OnPending(who, t, cid, "reject", {})

\* appendSequenceInternal: the events of a batch are checked where they go beside each
\* other, and all are stored or none is.
InsertAll(s, events) ==
  LET upTo[i \in 0..Len(events)] == IF i = 0 THEN s ELSE Insert(upTo[i - 1], events[i])
  IN  upTo[Len(events)]
BeforeIn(s, e) == SubSeq(s, 1, (CHOOSE i \in DOMAIN s : s[i] = e) - 1)
appendSequence(who, events) ==
  \E all \in {InsertAll(log, events)} :
     /\ \A e \in ToSet(events) : ReferencesValid(who, e, BeforeIn(all, e))
     /\ Replays({e.kind : e \in ToSet(events)}, all)
     /\ log' = all
     /\ stayed' = StillThere
     /\ UNCHANGED <<pager, ranking>>

\* A batch of proposals has one audience and no candidate twice.
proposeMemoryCandidates(who, scope, batch) ==
  /\ CanWrite(who, scope)
  /\ \A i, j \in DOMAIN batch : batch[i].cid = batch[j].cid => i = j
  /\ \A i \in DOMAIN batch : batch[i].cid \notin DOMAIN CandidatesOf(View(who, log)).cands
  /\ \E events \in {[i \in DOMAIN batch |->
          makeMemoryCandidateProposedEvent(batch[i].t, batch[i].cid, scope, batch[i].refs)]} :
        /\ Replays({"propose"}, InsertAll(View(who, log), events))
        /\ appendSequence(who, events)

\* The two events of an acceptance: the decision, and the memory it makes.
DecisionOf(cands, a) == makeMemoryCandidateAcceptedEvent(a.td, a.cid, cands[a.cid], a.id)
AcceptedMemory(cands, a) ==
  [makeMemoryRecordedEvent(a.tm, a.id, cands[a.cid].scope, cands[a.cid].refs) EXCEPT
     !.base = cands[a.cid].rev, !.from = a.cid]

\* A batch of acceptances: pending candidates of one audience, none of them twice, and
\* each with a memory of its own, which is recorded with the decision.
acceptMemoryCandidates(who, batch) ==
  \E cands \in {CandidatesOf(View(who, log)).cands} :
     /\ \A a \in ToSet(batch) : a.cid \in DOMAIN cands /\ cands[a.cid].decided = ""
     /\ \A i, j \in DOMAIN batch : batch[i].cid = batch[j].cid \/ batch[i].id = batch[j].id => i = j
     /\ \A a, b \in ToSet(batch) : cands[a.cid].scope = cands[b.cid].scope
     /\ \A a \in ToSet(batch) : CanReview(who, cands[a.cid].scope)
     /\ \E decisions \in {[i \in DOMAIN batch |-> DecisionOf(cands, batch[i])]},
           events \in {FlattenSeq([i \in DOMAIN batch |->
             <<DecisionOf(cands, batch[i]), AcceptedMemory(cands, batch[i])>>])} :
          /\ Replays({"accept"}, InsertAll(View(who, log), decisions))
          /\ Replays({"record"}, InsertAll(View(who, log), events))
          /\ appendSequence(who, events)

\* Decision and memory are one batch: either both are stored or neither.
acceptMemoryCandidate(who, td, tm, cid, id) ==
  /\ "accept" \in Commands
  /\ acceptMemoryCandidates(who, <<[td |-> td, tm |-> tm, cid |-> cid, id |-> id]>>)

-----------------------------------------------------------------------------
(* Readers                                                                 *)
Place(who, s, id) == <<MemoriesOf(View(who, s)).mems[id].at, id>>
Later(x, cursor) == x[1] < cursor[1] \/ (x[1] = cursor[1] /\ x[2] > cursor[2])

StartPaging(who) ==
  /\ "page" \in Commands /\ ~ pager.on /\ pager.got = <<>>
  /\ pager' = [Idle EXCEPT !.on = TRUE, !.who = who]
  /\ stayed' = Corpus(who, log)
  /\ UNCHANGED <<log, ranking>>

\* One page of one memory; the walk ends when nothing remains behind the cursor.
recallMemoryPage ==
  /\ pager.on
  /\ LET at(id) == Place(pager.who, log, id)
         rest == {id \in Corpus(pager.who, log) : pager.cursor = <<>> \/ Later(at(id), pager.cursor)}
         first == CHOOSE id \in rest : \A o \in rest \ {id} : Later(at(o), at(id))
     IN  pager' = IF rest = {} THEN [pager EXCEPT !.on = FALSE]
                  ELSE [pager EXCEPT !.got = Append(@, first), !.cursor = at(first),
                                     !.on = Cardinality(rest) > 1]
  /\ UNCHANGED <<log, stayed, ranking>>

\* rankMemories reads, waits for the ranker outside the queue, and reads again.
StartRanking(who) ==
  /\ "rank" \in Commands /\ ~ ranking.on /\ ranking.rows = {}
  /\ LET p == MemoriesOf(View(who, log))
     IN  ranking' = [Idle EXCEPT !.on = TRUE, !.who = who,
                                 !.rows = {<<id, p.mems[id].rev>> : id \in Corpus(who, log)}]
  /\ UNCHANGED <<log, pager, stayed>>

Unchanged(who, row) ==
  LET p == MemoriesOf(View(who, log))
  IN  row[1] \in DOMAIN p.mems /\ p.mems[row[1]].rev = row[2] /\ Current(p, row[1])

FinishRanking ==
  /\ ranking.on
  /\ \E picked \in SUBSET ranking.rows :
       ranking' = IF \A row \in picked : Unchanged(ranking.who, row)
                  THEN [ranking EXCEPT !.on = FALSE, !.rows = picked]
                  ELSE [ranking EXCEPT !.on = FALSE, !.rows = {}]
  /\ UNCHANGED <<log, pager, stayed>>

\* The reader has used its answer.
AnswerUsed ==
  /\ ~ pager.on /\ ~ ranking.on /\ (pager.got # <<>> \/ ranking.rows # {})
  /\ pager' = Idle /\ ranking' = Idle /\ stayed' = {} /\ UNCHANGED log

MemoryCommand(who, t, id) ==
  \/ \E scope \in Scopes, refs \in RefSets : recordMemory(who, t, id, scope, refs)
  \/ reviseMemory(who, t, id)
  \/ contributeMemoryEvidence(who, t, id)
  \/ forgetMemory(who, t, id)
  \/ \E rev \in 0..MaxLog, signal \in Signals : recordMemoryFeedback(who, t, id, rev, signal)

CandidateCommand(who, t, cid) ==
  \/ \E scope \in Scopes, refs \in RefSets : proposeMemoryCandidate(who, t, cid, scope, refs)
  \/ addMemoryCandidateEvidence(who, t, cid)
  \/ contributeMemoryCandidateEvidence(who, t, cid)
  \/ rejectMemoryCandidate(who, t, cid)
  \/ \E tm \in Times, id \in MemoryIds : acceptMemoryCandidate(who, t, tm, cid, id)

\* Bound: batches of two.
BatchCommand(who) ==
  LET cands == CandidatesOf(View(who, log)).cands
      pending == {cid \in DOMAIN cands : cands[cid].decided = ""}
      proposals == [t : Times, cid : CandidateIds \ DOMAIN cands, refs : RefSets]
      acceptances == [td : Times, tm : Times, cid : pending, id : MemoryIds]
  IN  /\ "batches" \in Commands
      /\ \/ \E scope \in Scopes, batch \in proposals \X proposals : proposeMemoryCandidates(who, scope, batch)
         \/ \E batch \in acceptances \X acceptances : acceptMemoryCandidates(who, batch)

Next ==
  \/ Len(log) < MaxLog /\ \E who \in Principals : BatchCommand(who)
  \/ /\ Len(log) < MaxLog
     /\ \E who \in Principals, t \in Times :
          \/ \E id \in MemoryIds : MemoryCommand(who, t, id)
          \/ \E cid \in CandidateIds : CandidateCommand(who, t, cid)
  \/ \E who \in Principals : StartPaging(who) \/ StartRanking(who)
  \/ recallMemoryPage
  \/ FinishRanking
  \/ AnswerUsed

Spec == Init /\ [][Next /\ UNCHANGED rows]_<<vars, rows>>

-----------------------------------------------------------------------------
(* The stored rows                                                         *)
\* The events a command has added, in the order of its batch.
Added(old, new) ==
  IF Len(new) = Len(old) THEN <<>>
  ELSE IF Len(new) = Len(old) + 1 THEN <<new[CHOOSE i \in DOMAIN new : RemoveAt(new, i) = old]>>
  ELSE LET both == CHOOSE p \in (DOMAIN new) \X (DOMAIN new) :
                     /\ p[1] # p[2] /\ new[p[1]].kind = "accept"
                     /\ RemoveAt(RemoveAt(new, Max({p[1], p[2]})), Min({p[1], p[2]})) = old
       IN <<new[both[1]], new[both[2]]>>
NextStored == Next /\ rows' = rows \o Added(log, log')

-----------------------------------------------------------------------------
(* The queries                                                             *)
\* The access condition of every query.
VisibleRows(who) == SelectSeq(rows, LAMBDA e : e.scope \in {Shared, who})

\* workspaceMemories: recorded, revised and forgotten rows, one after another.
workspaceMemories(who) ==
  LET s == VisibleRows(who)
      step(mems, e) ==
        CASE e.kind = "record" ->
               (e.key :> [rev |-> 0, refs |-> e.refs, ev |-> e.ev, at |-> e.t, upd |-> e.t]) @@ mems
          [] e.kind = "revise" /\ e.key \in DOMAIN mems ->
               [mems EXCEPT ![e.key] = [@ EXCEPT !.rev = @ + 1, !.upd = e.t,
                                          !.refs = IF e.patch = "refs" THEN e.refs ELSE @,
                                          !.ev = IF e.patch = "evidence" THEN e.ev ELSE @]]
          [] e.kind = "forget" -> [m \in DOMAIN mems \ {e.key} |-> mems[m]]
          [] OTHER -> mems
      upTo[i \in 0..Len(s)] == IF i = 0 THEN <<>> ELSE LET before == upTo[i - 1] IN step(before, s[i])
  IN upTo[Len(s)]

\* workspaceMemoryCandidates: the last decision row of each proposal, and the
\* evidence added before a decision.
DecisionRows(s, cid) == SelectSeq(s, LAMBDA e : e.kind \in {"accept", "reject"} /\ e.key = cid)
workspaceMemoryCandidates(who) ==
  LET s == VisibleRows(who)
      decided(cid) == DecisionRows(s, cid)
      evidence(cid) == UNION {s[i].ev : i \in {j \in DOMAIN s : /\ s[j].kind \in {"propose", "candidate-support"} /\ s[j].key = cid
                                                                /\ DecisionRows(SubSeq(s, 1, j - 1), cid) = <<>>}}
  IN [cid \in {s[i].key : i \in {j \in DOMAIN s : s[j].kind = "propose"}} |->
        [status |-> IF decided(cid) = <<>> THEN "" ELSE decided(cid)[Len(decided(cid))].kind, ev |-> evidence(cid)]]

\* workspaceDataQuality: the counts of memories, candidates and feedback.
RowsOf(s, kinds) == {i \in DOMAIN s : s[i].kind \in kinds}
FeedbackCount(s, signals) == Cardinality({i \in RowsOf(s, {"feedback"}) : s[i].patch \in signals})
Keys(s, kinds) == {s[i].key : i \in RowsOf(s, kinds)}
CurrentMemories(s) == Keys(s, {"record"}) \ Keys(s, {"forget"})
\* The evidence of the last revision in source order that names evidence.
EvidenceOf(s, id) ==
  LET named == {i \in RowsOf(s, {"revise"}) : s[i].key = id /\ s[i].patch = "evidence"}
      last == CHOOSE i \in named : \A j \in named : s[j].t < s[i].t \/ (s[j].t = s[i].t /\ j <= i)
  IN IF named # {} THEN s[last].ev
     ELSE s[CHOOSE i \in RowsOf(s, {"record"}) : s[i].key = id].ev
workspaceDataQuality(who) ==
  LET s == VisibleRows(who)
      cands == workspaceMemoryCandidates(who)
  IN [total |-> Cardinality(CurrentMemories(s)),
      withEvidence |-> Cardinality({id \in CurrentMemories(s) : EvidenceOf(s, id) # {}}),
      proposed |-> Cardinality({cid \in DOMAIN cands : cands[cid].status = ""}),
      accepted |-> Cardinality({cid \in DOMAIN cands : cands[cid].status = "accept"}),
      rejected |-> Cardinality({cid \in DOMAIN cands : cands[cid].status = "reject"}),
      recalled |-> FeedbackCount(s, {"recalled"}), judged |-> FeedbackCount(s, {"helpful", "unhelpful", "superseded"})]

-----------------------------------------------------------------------------
(* The same from replay                                                    *)
buildDataQualityReport(who) ==
  LET s == View(who, log)
      p == MemoriesOf(s)
      cands == CandidatesOf(s).cands
  IN [total |-> Cardinality(DOMAIN p.mems),
      withEvidence |-> Cardinality({id \in DOMAIN p.mems : p.mems[id].ev # {}}),
      proposed |-> Cardinality({cid \in DOMAIN cands : cands[cid].decided = ""}),
      accepted |-> Cardinality({cid \in DOMAIN cands : cands[cid].decided = "accept"}),
      rejected |-> Cardinality({cid \in DOMAIN cands : cands[cid].decided = "reject"}),
      recalled |-> FeedbackCount(s, {"offered", "injected", "used"}), judged |-> FeedbackCount(s, {"judged"})]

-----------------------------------------------------------------------------
(* Properties                                                              *)

\* The log is kept in replay order, whatever the times commands carry, and readers
\* hold rows of known memories.
TypeOK ==
  /\ \A i \in DOMAIN log : log[i].kind \in MemoryKinds \cup CandidateKinds /\ log[i].t \in Times
  /\ \A i, j \in DOMAIN log : i < j => log[i].t <= log[j].t
  /\ stayed \subseteq MemoryIds /\ {row[1] : row \in ranking.rows} \subseteq MemoryIds

\* No committed command makes a replay throw, neither of the whole log nor of the part
\* one principal sees: candidate commands replay only the candidates, and commands are
\* checked against one view (client.ts 594-606).
ViewsReplayable ==
  MemoriesOf(log).ok /\ \A who \in Principals : MemoriesOf(View(who, log)).ok

\* A revision of a memory keeps its content once it exists: a citation (memory, revision)
\* means the same for ever, also when events are inserted before it (project.ts 22-26).
HistoryKept ==
  \A r \in DOMAIN MemoriesOf(log).hist :
    r \in DOMAIN MemoriesOf(log').hist /\ MemoriesOf(log').hist[r] = MemoriesOf(log).hist[r]

\* A forgotten memory stays forgotten and its id is never active again, not even through
\* the acceptance of a candidate, which does not look at forgotten ids (client.ts 1811).
ForgottenKept ==
  LET p == MemoriesOf(log')
  IN  MemoriesOf(log).gone \subseteq p.gone /\ p.gone \cap DOMAIN p.mems = {}

\* Memories whose source references are all up to date never depend on each other in a
\* circle: currentness ends at the same answer from wherever it starts (project.ts 109-123).
NoDependencyCycle ==
  LET p == MemoriesOf(log)
  IN  \A S \in SUBSET DOMAIN p.mems \ {{}} :
        \E id \in S : \A r \in RefsOf(p.mems[id], "source") :
           r.m \in S => p.mems[r.m].rev # r.rev

\* A walk over the pages meets no memory twice, and meets every memory that could be
\* recalled all along, whatever is written meanwhile (client.ts 2162-2196).
PagesComplete ==
  /\ \A i, j \in DOMAIN pager.got : pager.got[i] = pager.got[j] => i = j
  /\ ~ pager.on => stayed \subseteq ToSet(pager.got)

\* No ranking returns a memory that was revised, forgotten, superseded or put in doubt
\* while the ranker ran (client.ts 2261-2266).
RankedFresh ==
  [][ranking.on /\ ~ ranking'.on =>
       LET p == MemoriesOf(View(ranking.who, log))
       IN  \A row \in ranking'.rows :
             row[1] \in DOMAIN p.mems /\ p.mems[row[1]].rev = row[2] /\ Current(p, row[1])]_vars

\* What the API lists is what is active in replay: no list shows a forgotten
\* memory, a decided candidate as pending, or a row of somebody else, although
\* the rows are read in ingestion order and replay sorts them by source time.
ListsActive ==
  \A who \in Principals :
    /\ DOMAIN workspaceMemories(who) = DOMAIN MemoriesOf(View(who, log)).mems
    /\ \E cands \in {CandidatesOf(View(who, log)).cands}, listed \in {workspaceMemoryCandidates(who)} :
         DOMAIN listed = DOMAIN cands /\ \A cid \in DOMAIN cands : listed[cid].status = cands[cid].decided

\* Both implementations of the report count the same memories and candidates.
ReportsAgree ==
  \A who \in Principals :
    \E sql \in {workspaceDataQuality(who)}, replay \in {buildDataQualityReport(who)} :
      \A f \in {"total", "proposed", "accepted", "rejected"} : sql[f] = replay[f]
=============================================================================
