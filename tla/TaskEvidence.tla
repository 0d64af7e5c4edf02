---------------------------- MODULE TaskEvidence ----------------------------
(***************************************************************************)
(* Task manifests, attempt manifests and the evidence about attempts, in   *)
(* the canonical log and in the replays of its readers.                    *)
(*                                                                         *)
(* An event is named by its key, its place in source order.  A member sees *)
(* every event, an outsider only those without a space.  An attempt's      *)
(* context, its condition and the criteria of a task are left out; the     *)
(* task of an attempt is part of its version.  Human approvals and         *)
(* rejections are the sources an acceptance may cite.                      *)
(***************************************************************************)
EXTENDS Naturals, Sequences, FiniteSets

CONSTANTS Versions, Specs, Attempts, Revisions,
          MaxKey,      \* bound: keys 1..MaxKey
          MaxEvents,   \* bound: events in the log
          Writers      \* a subset of Readers

VARIABLE log
vars == <<log>>

Readers == {"member", "outsider"}
Scopes == {"all", "space"}
Keys == 1..MaxKey
None == "none"
NoEvent == 0
Visible(reader) == {ev \in log : ev.scope = "all" \/ reader = "member"}

\* Ids are interchangeable: an observation has a used one, or a new one that
\* stands for its key.
Used == {ev.body.id : ev \in {e \in log : e.type \in {"intervention", "outcome"}}}
NewOrUsed(key) == Used \cup {key}

\* The bodies of the four kinds of event.
TaskBodies == [version : Versions, spec : Specs]
AttemptBodies ==
  {b \in [attempt : Attempts, version : Versions, start : Revisions, parent : Attempts \cup {None},
          final : Revisions \cup {None}, source : Keys \cup {NoEvent}, verdict : {"success", "failure", None}] :
     /\ b.parent # b.attempt
     /\ b.source # NoEvent => b.final # None
     /\ b.source = NoEvent <=> b.verdict = None}
InterventionBodies(key) == [id : NewOrUsed(key), attempt : Attempts, revision : Revisions, verdict : {"success", "failure"}]
OutcomeBodies(key) ==
  [id : NewOrUsed(key), attempt : Attempts, revision : Revisions, source : Keys, verdict : {"success", "failure"}]

-----------------------------------------------------------------------------
\* rebuildTaskEvidence.  The identities are workspace-global: a task version
\* and an attempt keep the scope of their first record.
Empty == [ok |-> TRUE, tasks |-> {}, attempts |-> {}, observed |-> {}, records |-> <<>>, seen |-> {}]
Fail(st) == [st EXCEPT !.ok = FALSE]
Latest(st, attempt) == {a \in st.attempts : a.body.attempt = attempt}

\* sourceFor and assertTaskAcceptanceSource: the source came before, is not
\* narrower than the event that cites it, and is a human decision on the same
\* attempt, revision and verdict.
Backed(st, ev, revision) ==
  \E source \in st.seen : /\ source.key = ev.body.source
                          /\ source.scope \in {"all", ev.scope}
                          /\ source.type = "intervention"
                          /\ source.body.attempt = ev.body.attempt
                          /\ source.body.revision = revision
                          /\ source.body.verdict = ev.body.verdict

addTask(st, ev) ==
  IF \A t \in st.tasks : t.body.version = ev.body.version => t.scope = ev.scope /\ t.body = ev.body
  THEN [st EXCEPT !.tasks = @ \cup {ev}] ELSE Fail(st)

attemptBaseline(b) == <<b.version, b.start, b.parent>>
Unchanged(old, b) ==
  /\ attemptBaseline(old) = attemptBaseline(b)
  /\ old.final # None => b.final = old.final
  /\ old.source # NoEvent => b.source = old.source /\ b.verdict = old.verdict
addAttempt(st, ev) ==
  IF /\ \A a \in Latest(st, ev.body.attempt) : a.scope = ev.scope /\ Unchanged(a.body, ev.body)
     /\ \E t \in st.tasks : t.body.version = ev.body.version
     /\ ev.body.parent # None => Latest(st, ev.body.parent) # {}
     /\ ev.body.source # NoEvent => Backed(st, ev, ev.body.final)
  THEN [st EXCEPT !.attempts = (@ \ Latest(st, ev.body.attempt)) \cup {ev}] ELSE Fail(st)

addObservation(st, ev) ==
  IF /\ \E a \in Latest(st, ev.body.attempt) : ev.body.revision \in {a.body.start, a.body.final}
     /\ ev.type = "outcome" => Backed(st, ev, ev.body.revision)
     /\ ev.body.id \notin st.observed
  THEN [st EXCEPT !.observed = @ \cup {ev.body.id}] ELSE Fail(st)

Apply(st, ev) ==
  LET next == CASE ev.type = "task" -> addTask(st, ev)
                [] ev.type = "attempt" -> addAttempt(st, ev)
                [] OTHER -> addObservation(st, ev)
  IN IF ~st.ok THEN st ELSE [next EXCEPT !.records = Append(@, ev), !.seen = @ \cup {ev}]
rebuildTaskEvidence(events) ==
  LET upTo[k \in 0..MaxKey] ==
        IF k = 0 THEN Empty
        ELSE LET before == upTo[k - 1]
             IN IF \E ev \in events : ev.key = k THEN Apply(before, CHOOSE ev \in events : ev.key = k) ELSE before
  IN upTo[MaxKey]

\* acceptanceSummary of a report: the human verdicts on a revision.
Accepts(st, attempt, revision) ==
  SelectSeq(st.records, LAMBDA ev : ev.type = "outcome" /\ ev.body.attempt = attempt /\ ev.body.revision = revision)
acceptanceSummary(st, attempt, revision) ==
  LET evs == Accepts(st, attempt, revision)
      upTo[k \in 0..Len(evs)] ==
        IF k = 0 THEN None
        ELSE LET before == upTo[k - 1] verdict == evs[k].body.verdict
             IN IF before \notin {None, verdict} THEN "conflicting" ELSE verdict
  IN upTo[Len(evs)]

-----------------------------------------------------------------------------
Init == log = {}

Has(st, type, name) ==
  IF type = "task" THEN \E t \in st.tasks : t.body.version = name ELSE Latest(st, name) # {}
\* validateTaskReferences: what the event refers to, if the writer can see it,
\* must be available in the event's own scope; a parent, an attempt that is
\* reported on and a source must be in any case.
References(writer, ev) ==
  LET earlier == {old \in Visible(writer) : old.key < ev.key}
      visible == rebuildTaskEvidence(earlier)
      contained == rebuildTaskEvidence({old \in earlier : old.scope \in {"all", ev.scope}})
      Contained(type, name) == Has(visible, type, name) => Has(contained, type, name)
      Source == \E old \in earlier : old.key = ev.body.source /\ old.scope \in {"all", ev.scope}
  IN /\ visible.ok /\ contained.ok
     /\ ev.type = "task" => Contained("task", ev.body.version)
     /\ ev.type = "attempt" =>
          /\ Contained("task", ev.body.version) /\ Contained("attempt", ev.body.attempt)
          /\ ev.body.parent # None => Has(contained, "attempt", ev.body.parent)
          /\ ev.body.source # NoEvent => Source
     /\ ev.type = "intervention" => Has(contained, "attempt", ev.body.attempt)
     /\ ev.type = "outcome" => Has(contained, "attempt", ev.body.attempt) /\ Source

\* recordTaskEvidence: the references hold and the whole canonical log
\* replays with the new event in its place.
recordTaskEvidence(writer, key, scope, type, body) ==
  LET ev == [key |-> key, scope |-> scope, type |-> type, body |-> body]
  IN /\ scope = "all" \/ writer = "member"
     /\ References(writer, ev)
     /\ rebuildTaskEvidence(log \cup {ev}).ok
     /\ log' = log \cup {ev}

Free == {key \in Keys : Cardinality(log) < MaxEvents /\ \A old \in log : old.key # key}
Cited == {old.key : old \in {o \in log : o.type = "intervention"}}
recordTaskManifest == \E writer \in Writers, key \in Free, scope \in Scopes, body \in TaskBodies :
  recordTaskEvidence(writer, key, scope, "task", body)
recordAttemptManifest == \E writer \in Writers, key \in Free, scope \in Scopes :
  \E body \in {b \in AttemptBodies : b.source \in Cited \cup {NoEvent}} :
    recordTaskEvidence(writer, key, scope, "attempt", body)
recordTaskIntervention == \E writer \in Writers, key \in Free, scope \in Scopes : \E body \in InterventionBodies(key) :
  recordTaskEvidence(writer, key, scope, "intervention", body)
recordTaskOutcome == \E writer \in Writers, key \in Free, scope \in Scopes :
  \E body \in {b \in OutcomeBodies(key) : b.source \in Cited} :
    recordTaskEvidence(writer, key, scope, "outcome", body)

Next == recordTaskManifest \/ recordAttemptManifest \/ recordTaskIntervention \/ recordTaskOutcome
Spec == Init /\ [][Next]_vars

-----------------------------------------------------------------------------
\* What is known of an attempt never changes, whatever arrives late and is
\* inserted before it: its baseline and scope stay, and so do its final
\* revision and its acceptance once they are recorded.
AttemptsKept ==
  \E old \in {rebuildTaskEvidence(log)}, new \in {rebuildTaskEvidence(log')} :
       /\ new.ok
       /\ \A a \in old.attempts : \E b \in Latest(new, a.body.attempt) :
            /\ b.scope = a.scope /\ attemptBaseline(b.body) = attemptBaseline(a.body)
            /\ a.body.final # None => b.body.final = a.body.final
            /\ a.body.source # NoEvent => b.body.source = a.body.source

\* The report shows a conflict exactly when humans gave both verdicts on a
\* revision, in whatever order and number.
ConflictsShown ==
  \E st \in {rebuildTaskEvidence(log)} :
    \A attempt \in Attempts, revision \in Revisions :
      LET given == {ev.body.verdict : ev \in {e \in log : e.type = "outcome" /\ e.body.attempt = attempt /\ e.body.revision = revision}}
      IN acceptanceSummary(st, attempt, revision) =
           IF given = {} THEN None ELSE IF Cardinality(given) = 2 THEN "conflicting" ELSE CHOOSE v \in given : TRUE
=============================================================================
