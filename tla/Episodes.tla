------------------------------ MODULE Episodes ------------------------------
(***************************************************************************)
(* Work episodes: a window of source events is synthesised into proposed   *)
(* episodes, from prepared evidence and the current revisions of related   *)
(* episodes, and published as one event.  Readers replay the windows they  *)
(* may see and are shown an episode only while everything it rests on is   *)
(* still theirs to see and unchanged.                                      *)
(*                                                                         *)
(* A source or a publication has a scope: a project, a space or "none",    *)
(* and the owner of personal records or "none".  A source of a memory      *)
(* event is fingerprinted with the memory as it now is: memory maps a      *)
(* memory to its revision, 0 once it is forgotten.  The revision of an     *)
(* episode is the event of its window, which names the window.  Commands   *)
(* are atomic: FoldStore shows that a command commits against the log it   *)
(* read.  Texts, citations within a source and byte budgets are left out.  *)
(***************************************************************************)
EXTENDS Naturals, Sequences, FiniteSets

CONSTANTS Actors, Sources, Scopes,
          Windows,      \* window ids; a window's new episode has its id
          Routes,       \* of "synthesis" and "direct"
          MaxRevision   \* bound: revisions of a memory

VARIABLES members,      \* the actors with a role in the space
          memory,       \* [memory -> revision]
          log,          \* the published windows
          drafts        \* [actor -> a window being synthesised or published]
vars == <<members, memory, log, drafts>>

None == [phase |-> "none"]
New == 0
Memories == {s.memory : s \in Sources} \ {"none"}
CanSee(reader, scope) == scope.owner \in {"none", reader} /\ (scope.space = "none" \/ reader \in members)
Visible(reader) == {w \in log : CanSee(reader, w.scope)}

-----------------------------------------------------------------------------
\* EpisodeService.sources: each is visible, in the scope of the publication,
\* not forgotten, and fingerprinted now.
Usable(reader, s, scope) ==
  /\ CanSee(reader, s.scope) /\ s.scope = scope
  /\ s.memory # "none" => memory[s.memory] # 0
Fingerprint(s) == IF s.memory = "none" THEN 0 ELSE memory[s.memory]
Taken(some) == [s \in some |-> Fingerprint(s)]
Verified(reader, taken, some, scope) == \A s \in some : Usable(reader, s, scope) /\ taken[s] = Fingerprint(s)

\* rebuildWorkEpisodes: windows in the order of their revision links.
Current(st, e) == LET h == st.history[e] IN IF h = <<>> THEN New ELSE h[Len(h)].id
HasRevision(st, link) == \E k \in DOMAIN st.history[link.episode] : st.history[link.episode][k].id = link.revision
Links(w) == w.context \cup UNION {p.links : p \in w.episodes}
Ready(st, w) ==
  /\ \A link \in Links(w) : HasRevision(st, link)
  /\ \A p \in w.episodes : Current(st, p.episode) = p.prev
Compatible(st, w, episode, revision) ==
  \A k \in DOMAIN st.history[episode] : st.history[episode][k].id = revision => st.history[episode][k].scope = w.scope
Fits(st, w) ==
  /\ \A v \in st.windows : v.id # w.id
  /\ \A link \in Links(w) : Compatible(st, w, link.episode, link.revision)
  /\ \A p \in w.episodes : p.prev # New => Compatible(st, w, p.episode, p.prev)
Placed(st, w) ==
  [st EXCEPT !.windows = @ \cup {w},
             !.history = [e \in Windows |-> IF \E p \in w.episodes : p.episode = e THEN Append(@[e], w) ELSE @[e]]]
Empty == [ok |-> TRUE, windows |-> {}, history |-> [e \in Windows |-> <<>>]]
rebuildWorkEpisodes(events) ==
  LET upTo[k \in 0..Cardinality(events)] ==
        IF k = 0 THEN Empty
        ELSE LET st == upTo[k - 1]
                 next == {w \in events \ st.windows : Ready(st, w)}
                 w == CHOOSE w \in next : \A v \in next : w.id <= v.id
             IN IF ~st.ok \/ next = {} THEN [st EXCEPT !.ok = FALSE]
                ELSE IF Fits(st, w) THEN Placed(st, w) ELSE [st EXCEPT !.ok = FALSE]
  IN upTo[Cardinality(events)]

\* available: every revision of the episode, and of every episode its windows
\* used or its revisions continue, still has its evidence.
Uses(w, e) == w.context \cup UNION {p.links : p \in {q \in w.episodes : q.episode = e}}
MembersOf(w, e) == UNION {p.members : p \in {q \in w.episodes : q.episode = e}}
RevisionsOf(st, e) == {st.history[e][k] : k \in DOMAIN st.history[e]}
Reached(st, e) ==
  LET upTo[k \in 0..Cardinality(Windows)] ==
        IF k = 0 THEN {e}
        ELSE LET before == upTo[k - 1]
             IN before \cup {link.episode : link \in UNION {Uses(w, d) : <<w, d>> \in
                               {<<w, d>> \in st.windows \X before : w \in RevisionsOf(st, d)}}}
  IN upTo[Cardinality(Windows)]
available(reader, st, e) ==
  \A d \in Reached(st, e) : \A w \in RevisionsOf(st, d) :
    /\ w.scope.owner \in {"none", reader}
    /\ Verified(reader, w.sources, MembersOf(w, d), w.scope)
    /\ \A link \in Uses(w, d) : HasRevision(st, link)
list(reader, st) == {e \in Windows : st.history[e] # <<>> /\ available(reader, st, e)}

-----------------------------------------------------------------------------
Init ==
  /\ members = Actors
  /\ memory = [m \in Memories |-> 1]
  /\ log = {}
  /\ drafts = [a \in Actors |-> None]

\* Meanwhile memories are revised and forgotten, and space roles change.
Revise(m) ==
  /\ memory[m] \in 1..(MaxRevision - 1)
  /\ memory' = [memory EXCEPT ![m] = @ + 1]
  /\ UNCHANGED <<members, log, drafts>>
Forget(m) ==
  /\ memory[m] # 0
  /\ memory' = [memory EXCEPT ![m] = 0]
  /\ UNCHANGED <<members, log, drafts>>
ChangeRole(a) ==
  /\ \E scope \in Scopes : scope.space # "none"   \* otherwise nobody would notice
  /\ members' = IF a \in members THEN members \ {a} ELSE members \cup {a}
  /\ UNCHANGED <<memory, log, drafts>>

Proposal(e, prev, some, links) == [episode |-> e, prev |-> prev, members |-> some, links |-> links]
LinkOf(st, e) == [episode |-> e, revision |-> Current(st, e)]

\* handleEpisodeSynthesis up to the model call.
Prepare(a, id, scope, some, related) ==
  /\ drafts[a] = None /\ scope.owner \in {"none", a}
  /\ some # {} /\ \A s \in some : Usable(a, s, scope)
  /\ \E st \in {rebuildWorkEpisodes(Visible(a))} :
       /\ st.ok
       /\ \A e \in related : e \in list(a, st) /\ Compatible(st, [scope |-> scope], e, Current(st, e))
       /\ drafts' = [drafts EXCEPT ![a] =
            [phase |-> "prepared", id |-> id, actor |-> a, scope |-> scope, sources |-> Taken(some),
             episodes |-> {}, context |-> {LinkOf(st, e) : e \in related}]]
  /\ UNCHANGED <<members, memory, log>>

\* The model answers: a new episode, or an update of a related one, with
\* continuations of related ones; then everything is read again.
Outputs(d) ==
  {Proposal(d.id, New, DOMAIN d.sources, links) : links \in SUBSET d.context} \cup
  {Proposal(link.episode, link.revision, DOMAIN d.sources, {}) : link \in d.context}
StillCurrent(a, d) ==
  /\ Verified(a, d.sources, DOMAIN d.sources, d.scope)
  /\ \E st \in {rebuildWorkEpisodes(Visible(a))} :
       \A link \in d.context : link.episode \in list(a, st) /\ Current(st, link.episode) = link.revision
Answer(a) ==
  LET d == drafts[a]
  IN /\ d.phase = "prepared"
     /\ \/ /\ StillCurrent(a, d)
           /\ \E p \in Outputs(d) :
                drafts' = [drafts EXCEPT ![a].phase = "ready", ![a].episodes = {p}]
        \/ /\ ~StillCurrent(a, d)
           /\ drafts' = [drafts EXCEPT ![a] = None]
     /\ UNCHANGED <<members, memory, log>>

\* A caller of the publication route writes any window it likes.
Compose(a, id, scope, some, e, links) ==
  /\ drafts[a] = None /\ some # {}
  /\ \E st \in {rebuildWorkEpisodes(Visible(a))} :
       \E targets \in {{LinkOf(st, x) : x \in links}} :
         drafts' = [drafts EXCEPT ![a] =
           [phase |-> "ready", id |-> id, actor |-> a, scope |-> scope, sources |-> Taken(some),
            episodes |-> {Proposal(e, Current(st, e), some, targets)}, context |-> {}]]
  /\ UNCHANGED <<members, memory, log>>

\* publish: a stored window answers its retry; otherwise everything the window
\* rests on must hold now, and all windows of the workspace must replay.
Acceptable(a, d, st) ==
  /\ st.ok
  /\ d.scope.owner \in {"none", a} /\ (d.scope.space # "none" => a \in members)
  /\ Verified(a, d.sources, DOMAIN d.sources, d.scope)
  /\ \A link \in d.context :
       /\ Current(st, link.episode) = link.revision
       /\ Compatible(st, d, link.episode, link.revision) /\ available(a, st, link.episode)
  /\ \A p \in d.episodes :
       /\ Current(st, p.episode) = p.prev
       /\ p.prev # New => available(a, st, p.episode)
       /\ \A link \in p.links : HasRevision(st, link) /\ available(a, st, link.episode)
Event(d) == [id |-> d.id, actor |-> d.actor, scope |-> d.scope, sources |-> d.sources, episodes |-> d.episodes, context |-> d.context]
Publish(a) ==
  LET d == drafts[a]
  IN /\ d.phase = "ready"
     /\ \E st \in {rebuildWorkEpisodes(Visible(a))} :
          log' = IF /\ \A w \in Visible(a) : w.id # d.id
                    /\ Acceptable(a, d, st)
                    /\ rebuildWorkEpisodes(log \cup {Event(d)}).ok
                 THEN log \cup {Event(d)} ELSE log
     /\ \E answered \in BOOLEAN : drafts' = [drafts EXCEPT ![a] = IF answered THEN None ELSE @]
     /\ UNCHANGED <<members, memory>>

\* Window ids are taken in order, also by two writers at once.
Free == {id \in Windows : id <= Cardinality(log) + 1}
Next ==
  \/ \E m \in Memories : Revise(m) \/ Forget(m)
  \/ \E a \in Actors :
       \/ ChangeRole(a)
       \/ \E id \in Free, scope \in Scopes, some \in SUBSET Sources :
            \/ /\ "synthesis" \in Routes
               /\ \E related \in SUBSET {w.id : w \in Visible(a)} : Prepare(a, id, scope, some, related)
            \/ /\ "direct" \in Routes
               /\ \E e \in Free, links \in SUBSET {w.id : w \in Visible(a)} :
                    e \notin links /\ Compose(a, id, scope, some, e, links)
       \/ Answer(a)
       \/ Publish(a)
Spec == Init /\ [][Next]_vars

-----------------------------------------------------------------------------
\* Whoever reads, and whatever they may not see, the windows they see replay:
\* no link leads from a scope into a narrower one.
VisibleReplays == \A reader \in Actors : rebuildWorkEpisodes(Visible(reader)).ok

\* An episode is shown only while every source that it, its earlier revisions
\* and the episodes they used or continue rest on is visible to the reader,
\* not forgotten, and the text that was summarised.
RestsOn(st, e, w) == Uses(w, e) \cup {[episode |-> e, revision |-> p.prev] : p \in {q \in w.episodes : q.episode = e /\ q.prev # New}}
Ancestry(st, e) ==
  LET upTo[k \in 0..(2 * Cardinality(Windows))] ==
        IF k = 0 THEN {LinkOf(st, e)}
        ELSE LET before == upTo[k - 1]
             IN before \cup UNION {RestsOn(st, link.episode, w) : <<link, w>> \in
                   {<<link, w>> \in before \X st.windows : w.id = link.revision}}
  IN upTo[2 * Cardinality(Windows)]
EvidenceCurrent ==
  \A reader \in Actors : \E st \in {rebuildWorkEpisodes(Visible(reader))} :
    st.ok => \A e \in list(reader, st) : \A link \in Ancestry(st, e) :
      \E w \in st.windows :
        /\ w.id = link.revision
        /\ \A s \in MembersOf(w, link.episode) :
             /\ CanSee(reader, s.scope)
             /\ w.sources[s] = Fingerprint(s) /\ (s.memory # "none" => memory[s.memory] # 0)
=============================================================================
