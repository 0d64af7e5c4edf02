-------------------------- MODULE IdentityRevisions -------------------------
(***************************************************************************)
(* Reviewed identity records: entities (people and the accounts, agents    *)
(* and machines that act for them), attributions of an entity to a person, *)
(* and aliases of projects.  Administrators open a dialog on the revision  *)
(* they read, review the change (an alias shows its effects first) and     *)
(* apply it; the answer may be lost and the change sent again.             *)
(*                                                                         *)
(* The event id of a revision is a hash of the previous one's, so it is    *)
(* its depth in the chain: revision 0 is null.  The log is replayed in     *)
(* source order, by the time of the process that wrote each record.        *)
(* FoldStore shows that a command commits against the log it read.         *)
(***************************************************************************)
EXTENDS Naturals, FiniteSets

CONSTANTS Actors,
          Inside,        \* the administrators who see the space
          Operations,    \* the changes they may make
          Projects,
          Given,         \* the projects recorded before
          Facts,         \* memories and project records others append
          MaxRevisions,  \* bound: stored revisions
          MaxClock       \* bound: clock readings; processes disagree

VARIABLES log,      \* the identity events
          facts,    \* the other events
          dialogs,  \* [actor -> the open dialog, or none]
          shown     \* history: what the last applied alias had shown
vars == <<log, facts, dialogs, shown>>

Closed == [open |-> FALSE]
Sees(actor, fact) == fact.shared \/ actor \in Inside
Visible(actor) == {fact \in facts : Sees(actor, fact)}

-----------------------------------------------------------------------------
\* canonicalProjectId: active aliases followed to their end; with more steps
\* than there are aliases, the walk is a cycle.
TargetOf(aliases, p) == {a.canonical : a \in {b \in aliases : b.alias = p /\ b.active}}
Walk(aliases, p, steps) ==
  LET at[k \in 0..steps] ==
        IF k = 0 THEN p
        ELSE LET before == at[k - 1]
             IN IF TargetOf(aliases, before) = {} THEN before ELSE CHOOSE q \in TargetOf(aliases, before) : TRUE
  IN at[steps]
Cyclic(aliases) == \E p \in Projects : TargetOf(aliases, Walk(aliases, p, Cardinality(aliases))) # {}
canonicalProjectId(aliases, p) == Walk(aliases, p, Cardinality(aliases))

resolveProjectIds(aliases, requested) ==
  LET targets == {canonicalProjectId(aliases, p) : p \in requested}
  IN {p \in Projects : canonicalProjectId(aliases, p) \in targets}

\* The three kinds of record: what rebuildIdentities refuses, and what it sets.
Empty == [ok |-> TRUE, revision |-> 0, last |-> 0, entities |-> {}, attributions |-> {}, aliases |-> {}]

EntityAllowed(st, op) ==
  /\ \A e \in st.entities : e.id = op.id => e.as = op.as
  /\ op.active /\ op.source # "none" =>
       ~\E e \in st.entities : e.active /\ e.id # op.id /\ e.source = op.source
  /\ ~op.active => ~\E a \in st.attributions : a.active /\ op.id \in {a.entity, a.person}
SetEntity(st, op) == [st EXCEPT !.entities = {e \in @ : e.id # op.id} \cup {op}]

AttributionAllowed(st, op) ==
  \E e \in st.entities, p \in st.entities :
    /\ e.id = op.entity /\ e.as # "person"
    /\ p.id = op.person /\ p.as = "person"
    /\ op.active => e.active /\ p.active
    /\ ~op.active => \E a \in st.attributions : a.entity = op.entity /\ a.person = op.person
SetAttribution(st, op) == [st EXCEPT !.attributions = {a \in @ : a.entity # op.entity} \cup {op}]

SetAlias(st, op) == [st EXCEPT !.aliases = {a \in @ : a.alias # op.alias} \cup {op}]
AliasAllowed(st, op) ==
  /\ op.alias # op.canonical
  /\ ~op.active => \E a \in st.aliases : a.alias = op.alias /\ a.canonical = op.canonical
  /\ ~Cyclic(SetAlias(st, op).aliases)

Allowed(st, op) ==
  \/ op.kind = "entity" /\ EntityAllowed(st, op)
  \/ op.kind = "attribution" /\ AttributionAllowed(st, op)
  \/ op.kind = "alias" /\ AliasAllowed(st, op)
Set(st, op) ==
  CASE op.kind = "entity" -> SetEntity(st, op)
    [] op.kind = "attribution" -> SetAttribution(st, op)
    [] op.kind = "alias" -> SetAlias(st, op)

\* rebuildIdentities: the events in source order, each on its predecessor.
Before(d, e) == d.t < e.t \/ (d.t = e.t /\ d.id < e.id)
rebuildIdentities(events) ==
  LET nth(k) == CHOOSE e \in events : Cardinality({d \in events : Before(d, e)}) = k - 1
      upTo[k \in 0..Cardinality(events)] ==
        IF k = 0 THEN Empty
        ELSE LET before == upTo[k - 1]
                 e == nth(k)
             IN IF before.ok /\ e.prev = before.revision /\ Allowed(before, e.op)
                  THEN [Set(before, e.op) EXCEPT !.revision = e.id, !.last = e.t]
                  ELSE [before EXCEPT !.ok = FALSE]
  IN upTo[Cardinality(events)]

identityRevisionEventId(prev) == prev + 1
makeIdentityEvent(actor, t, prev, op) ==
  [id |-> identityRevisionEventId(prev), t |-> t, prev |-> prev, actor |-> actor, op |-> op]

-----------------------------------------------------------------------------
\* projectAliasPreview: conflicts, the records the alias moves, and a token
\* over everything the administrator sees.
Known(actor) == {f.project : f \in {g \in Visible(actor) : g.type = "project"}}
Shared == {f.project : f \in {g \in facts : g.type = "project" /\ g.shared}}
Affected(actor, st, op) ==
  LET after == IF AliasAllowed(st, op) THEN SetAlias(st, op).aliases ELSE st.aliases
      moved == UNION {resolveProjectIds(aliases, {op.alias, op.canonical}) : aliases \in {st.aliases, after}}
  IN [projects |-> moved,
      memories |-> {f \in Visible(actor) : f.type = "memory" /\ f.project \in moved},
      before |-> canonicalProjectId(st.aliases, op.alias), after |-> canonicalProjectId(after, op.alias)]
Token(actor, op) == <<actor, op, log, Visible(actor)>>
projectAliasPreview(actor, st, op) ==
  [revision |-> st.revision, token |-> Token(actor, op), affected |-> Affected(actor, st, op),
   clear |-> /\ {op.alias, op.canonical} \subseteq Known(actor) \cap Shared
             /\ AliasAllowed(st, op)]

-----------------------------------------------------------------------------
Init == log = {} /\ facts = Given /\ dialogs = [a \in Actors |-> Closed] /\ shown = {}

\* Other commands record projects and memories meanwhile.
Record(fact) ==
  /\ fact \notin facts
  /\ facts' = facts \cup {fact}
  /\ UNCHANGED <<log, dialogs, shown>>

\* The page has read the identities when the dialog opens.
Open(a, op) ==
  /\ ~dialogs[a].open
  /\ dialogs' = [dialogs EXCEPT ![a] = [open |-> TRUE, op |-> op, revision |-> rebuildIdentities(log).revision,
                                        reviewed |-> FALSE, preview |-> <<>>]]
  /\ UNCHANGED <<log, facts, shown>>

\* review: an alias takes the revision of its preview.
Review(a) ==
  /\ dialogs[a].open /\ ~dialogs[a].reviewed
  /\ \E st \in {rebuildIdentities(log)} :
       dialogs' = [dialogs EXCEPT ![a] =
         IF @.op.kind # "alias" THEN [@ EXCEPT !.reviewed = TRUE]
         ELSE [@ EXCEPT !.reviewed = TRUE, !.revision = st.revision, !.preview = <<projectAliasPreview(a, st, dialogs[a].op)>>]]
  /\ UNCHANGED <<log, facts, shown>>

\* The stored record of the expected revision answers a retry of it.
Existing(revision) == {e \in log : e.id = identityRevisionEventId(revision)}
IsRetry(a, d, e) == e.actor = a /\ e.op = d.op

\* Mutant: the record is stamped with the clock of the process.
StampNow(now, st) == now
Stamp(now, st) == IF now > st.last THEN now ELSE st.last + 1

EvidenceShared(a, op) == \A id \in op.evidence : \E f \in facts : f.id = id /\ f.shared
Accepts(a, d, st) ==
  /\ Existing(d.revision) = {} /\ st.revision = d.revision
  /\ d.op.kind = "alias" =>
       /\ d.preview[1].clear /\ projectAliasPreview(a, st, d.op).clear
       /\ d.preview[1].token = Token(a, d.op)
  /\ EvidenceShared(a, d.op)
  /\ Allowed(st, d.op)

\* reviseIdentity: the record is appended, found, or refused; after an error
\* the change must be reviewed again.
Apply(a, now) ==
  LET d == dialogs[a]
  IN /\ d.open /\ d.reviewed
     /\ UNCHANGED facts
     /\ \E st \in {rebuildIdentities(log)} :
          \/ /\ \/ /\ Accepts(a, d, st)
                   /\ log' = log \cup {makeIdentityEvent(a, Stamp(now, st), d.revision, d.op)}
                   /\ shown' = IF d.op.kind = "alias"
                                 THEN {[was |-> d.preview[1].affected, is |-> Affected(a, st, d.op)]}
                                 ELSE shown
                \/ /\ \E e \in Existing(d.revision) : IsRetry(a, d, e)
                   /\ UNCHANGED <<log, shown>>
             /\ \E answered \in BOOLEAN :
                  dialogs' = [dialogs EXCEPT ![a] = IF answered THEN Closed ELSE [@ EXCEPT !.reviewed = FALSE, !.preview = <<>>]]
          \/ /\ ~Accepts(a, d, st) /\ ~\E e \in Existing(d.revision) : IsRetry(a, d, e)
             /\ dialogs' = [dialogs EXCEPT ![a].reviewed = FALSE, ![a].preview = <<>>]
             /\ UNCHANGED <<log, shown>>

Close(a) ==
  /\ dialogs[a].open
  /\ dialogs' = [dialogs EXCEPT ![a] = Closed]
  /\ UNCHANGED <<log, facts, shown>>

Next ==
  \/ \E fact \in Facts : Record(fact)
  \/ \E a \in Actors :
       \/ \E op \in Operations : Cardinality(log) < MaxRevisions /\ Open(a, op)
       \/ Cardinality(log) < MaxRevisions /\ Review(a)
       \/ \E now \in 0..MaxClock : Apply(a, now)
       \/ Close(a)
Spec == Init /\ [][Next]_vars

-----------------------------------------------------------------------------
\* Whatever the clocks of the processes that wrote them, the stored revisions
\* replay: rebuildIdentities never refuses the log, so no reader is locked out.
ChainReplays == rebuildIdentities(log).ok

\* An active attribution joins an active account, agent or machine to an
\* active person, however entities and attributions were revised since; and
\* an account is represented once.
AttributionsHold ==
  \E st \in {rebuildIdentities(log)} :
    /\ \A l \in st.attributions : l.active =>
         \E e \in st.entities, p \in st.entities :
           /\ e.id = l.entity /\ e.active /\ e.as # "person"
           /\ p.id = l.person /\ p.active /\ p.as = "person"
    /\ \A d \in st.entities, e \in st.entities :
         d.active /\ e.active /\ d.source = e.source /\ d.source # "none" => d.id = e.id

\* An alias moves exactly the projects and the memories that its administrator
\* was shown, although others record memories and revise aliases meanwhile.
PreviewHeld == \A s \in shown : s.was = s.is
=============================================================================
