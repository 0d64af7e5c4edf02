---------------------------- MODULE Trajectories ----------------------------
(***************************************************************************)
(* Trajectory records in the canonical log: tree revisions, runs and the   *)
(* operator reviews of runs, recorded by commands and by raw appends, and  *)
(* replayed by every reader from the events it may see.                    *)
(*                                                                         *)
(* An event is named by its key, its place in source order; two keys share *)
(* each time, so the key stands for the pair (t, id).  A member sees every *)
(* event, an outsider only those without a space.  Commands are atomic     *)
(* here: FoldStore shows that a command commits against the log it read.   *)
(* The task manifests and evidence of a run are module TaskEvidence.       *)
(*                                                                         *)
(* A tree is [root, nodes, edges]; a node is [id, kind], an edge           *)
(* [id, from, to], both in recording order.  A run is [id, outcome,        *)
(* steps]; a step is its assignment [kind, node] where kind is "mapped",   *)
(* "ambiguous" or "unmapped".  Labels, methods and reasons are left out;   *)
(* step ids are the positions.  Rates are compared by cross                *)
(* multiplication, which agrees with the code's doubles on small counts.   *)
(*                                                                         *)
(* The task summaries are also answered from SQL over the stored rows and  *)
(* paged.  Next leaves the rows out, NextQ keeps them.                     *)
(***************************************************************************)
EXTENDS Naturals, Sequences, FiniteSets

CONSTANTS Tasks, TreeInputs, RunInputs, Verdicts,
          MaxKey,      \* bound: keys 1..MaxKey, times 1..(MaxKey + 1) \div 2
          MaxEvents,   \* bound: events in the log
          Writers,     \* who writes: a subset of Readers
          RawAppend,   \* the record types also written by raw appends
          Limit        \* tasks on a page, or 0: nobody walks

VARIABLES log,
          stored,      \* the log in the order it was stored
          walk         \* an outsider's walk over the pages
allVars == <<log, stored, walk>>

Readers == {"member", "outsider"}
Scopes == {"all", "space"}
Keys == 1..MaxKey
At(key) == (key + 1) \div 2
NoTree == [root |-> 0, nodes |-> <<>>, edges |-> <<>>]
NoEvent == 0
Last(s) == s[Len(s)]

Visible(reader) == {ev \in log : ev.scope = "all" \/ reader = "member"}
MayWrite(writer, scope) == scope = "all" \/ writer = "member"

-----------------------------------------------------------------------------
(* Trees and runs: what fold-trace computes                                *)
\* The elements of a sequence.
Elements(s) == {s[i] : i \in DOMAIN s}
NodeIds(tree) == {n.id : n \in Elements(tree.nodes)}
edgePairKey(e) == <<e.from, e.to>>
Pairs(tree) == {edgePairKey(e) : e \in Elements(tree.edges)}
Distinct(s) == Cardinality(Elements(s)) = Len(s)

\* The nodes reached from a set of nodes over the edges of a tree.
ReachedFrom(tree, start) ==
  LET upTo[k \in 0..Cardinality(NodeIds(tree))] ==
        IF k = 0 THEN start
        ELSE LET before == upTo[k - 1]
             IN  before \cup {p[2] : p \in {q \in Pairs(tree) : q[1] \in before}}
  IN upTo[Cardinality(NodeIds(tree))]
Targets(tree, n) == {p[2] : p \in {q \in Pairs(tree) : q[1] = n}}

\* indexTree before its search: ids are unique, edges join known nodes, at
\* most one per pair, and none enters the root.
WellFormed(tree) ==
  /\ Distinct([i \in DOMAIN tree.nodes |-> tree.nodes[i].id])
  /\ tree.root \in NodeIds(tree)
  /\ Distinct([i \in DOMAIN tree.edges |-> tree.edges[i].id])
  /\ Distinct([i \in DOMAIN tree.edges |-> edgePairKey(tree.edges[i])])
  /\ \A e \in Elements(tree.edges) : {e.from, e.to} \subseteq NodeIds(tree) /\ e.to # tree.root

\* What indexTree accepts: a rooted structure without cycles in which every
\* node is reachable.
indexTree(tree) ==
  /\ WellFormed(tree)
  /\ \A n \in NodeIds(tree) : n \notin ReachedFrom(tree, Targets(tree, n))
  /\ ReachedFrom(tree, {tree.root}) = NodeIds(tree)

-----------------------------------------------------------------------------
\* Merging a revision: known ids must agree, new nodes and edges follow the
\* known ones, and an edge whose pair is already joined is skipped.  (A
\* revision that repeats an id or a pair itself is never additive.)
Conflicts(tree, incoming) ==
  \/ tree.root # incoming.root
  \/ \E n \in Elements(tree.nodes), m \in Elements(incoming.nodes) : n.id = m.id /\ n # m
  \/ \E e \in Elements(tree.edges), g \in Elements(incoming.edges) : e.id = g.id /\ e # g
mergeSharedDecisionTrees(tree, incoming) ==
  LET newNodes == SelectSeq(incoming.nodes, LAMBDA n : n.id \notin NodeIds(tree))
      newEdges == SelectSeq(incoming.edges, LAMBDA e : edgePairKey(e) \notin Pairs(tree))
  IN [tree EXCEPT !.nodes = @ \o newNodes, !.edges = @ \o newEdges]

\* Mutant: a revision that merges without conflict is enough.
isMergeableRevision(tree, revision) ==
  ~Conflicts(tree, revision) /\ indexTree(mergeSharedDecisionTrees(tree, revision))
isAdditiveTreeRevision(tree, revision) ==
  LET merged == mergeSharedDecisionTrees(tree, revision)
  IN ~Conflicts(tree, revision) /\ indexTree(merged) /\ merged = revision

-----------------------------------------------------------------------------
\* A run fits a tree: it has steps, and every mapped step names a node.
projectTrajectory(run, tree) ==
  /\ indexTree(tree)
  /\ run.steps # <<>>
  /\ \A step \in Elements(run.steps) : step.kind = "mapped" => step.node \in NodeIds(tree)

\* The walk of a run: the pair of every two adjacent steps mapped to
\* different nodes, and a gap where a mapped stretch ends in an unmapped or
\* ambiguous step.  No node is numbered 0.
Gap == <<"gap">>
projectedWalk(run) ==
  LET node(i) == IF run.steps[i].kind = "mapped" THEN run.steps[i].node ELSE 0
      token(i) == IF i = 1 \/ node(i - 1) = 0 \/ node(i - 1) = node(i) THEN <<>>
                  ELSE IF node(i) = 0 THEN <<Gap>> ELSE << <<node(i - 1), node(i)>> >>
      upTo[i \in 0..Len(run.steps)] ==
        IF i = 0 THEN <<>> ELSE LET before == upTo[i - 1] IN before \o token(i)
  IN upTo[Len(run.steps)]
IsGap(token) == Len(token) = 1
\* projectedWalk throws when adjacent mapped steps are not joined by an edge.
Walkable(run, tree) ==
  \A token \in Elements(projectedWalk(run)) : IsGap(token) \/ token \in Pairs(tree)

\* The route of a run that is mapped throughout, from the root to an outcome
\* node; the empty sequence otherwise.
completeRoute(run, tree) ==
  LET starts == {i \in DOMAIN run.steps : i = 1 \/ run.steps[i].node # run.steps[i - 1].node}
      at(k) == CHOOSE i \in starts : Cardinality({j \in starts : j <= i}) = k
      route == [k \in 1..Cardinality(starts) |-> run.steps[at(k)].node]
      whole == \A step \in Elements(run.steps) : step.kind = "mapped"
  IN IF whole /\ route[1] = tree.root
         /\ [id |-> route[Len(route)], kind |-> "outcome"] \in Elements(tree.nodes)
     THEN route ELSE <<>>

-----------------------------------------------------------------------------
\* The counts of one route over a sequence of runs.
CountOf(runs, tree, route, outcome) ==
  Cardinality({i \in DOMAIN runs : completeRoute(runs[i], tree) = route /\ runs[i].outcome \in outcome})
RouteOutcome(runs, tree, route) ==
  [route |-> route, samples |-> CountOf(runs, tree, route, {"success", "failure", "unknown"}),
   successes |-> CountOf(runs, tree, route, {"success"}), failures |-> CountOf(runs, tree, route, {"failure"})]
Classified(r) == r.successes + r.failures
\* successRate is 0 for a route without classified samples.
LowerRate(l, r) ==
  IF Classified(l) = 0 THEN r.successes > 0
  ELSE IF Classified(r) = 0 THEN FALSE
  ELSE l.successes * Classified(r) < r.successes * Classified(l)
\* Nodes are numbered, so that the code's order of the routes' JSON texts is
\* an order of sequences; "]" follows ",", so a longer route comes first.
KeyBefore(a, b) ==
  \E i \in 1..Len(a) : /\ \A j \in 1..(i - 1) : j <= Len(b) /\ a[j] = b[j]
                       /\ i > Len(b) \/ a[i] < b[i]
Better(l, r) ==
  \/ LowerRate(r, l)
  \/ ~LowerRate(l, r) /\ l.samples > r.samples
  \/ ~LowerRate(l, r) /\ l.samples = r.samples /\ KeyBefore(l.route, r.route)
Routes(runs, tree) ==
  {RouteOutcome(runs, tree, route) :
     route \in {completeRoute(runs[i], tree) : i \in DOMAIN runs} \ {<<>>}}
\* The first classified route in the order of rate, samples and key.
mostSuccessfulPath(runs, tree) ==
  LET classified == {r \in Routes(runs, tree) : Classified(r) > 0}
  IN IF classified = {} THEN <<>>
     ELSE (CHOOSE r \in classified : \A s \in classified \ {r} : Better(r, s)).route

\* Where a run leaves the consensus path: [kind, compared].
firstDivergentEdge(run, path) ==
  LET mapped == {i \in DOMAIN run.steps : run.steps[i].kind = "mapped"}
      first == CHOOSE i \in mapped : \A j \in mapped : i <= j
      taken == projectedWalk(run)
      expected == [k \in 1..(Len(path) - 1) |-> <<path[k], path[k + 1]>>]
      agree == {k \in 0..Len(taken) : k <= Len(expected) /\ \A j \in 1..k : taken[j] = expected[j]}
      common == CHOOSE k \in agree : \A j \in agree : j <= k
  IN IF path = <<>> \/ mapped = {} THEN [kind |-> "indeterminate", compared |-> 0]
     ELSE IF run.steps[first].node # path[1] THEN [kind |-> "indeterminate", compared |-> 0]
     ELSE IF common = Len(expected) THEN [kind |-> "aligned", compared |-> common]
     ELSE IF common = Len(taken) \/ IsGap(taken[common + 1]) THEN [kind |-> "indeterminate", compared |-> common]
     ELSE [kind |-> "divergent", compared |-> common]

-----------------------------------------------------------------------------
\* Replay.
Empty == [ok |-> TRUE, trees |-> [task \in Tasks |-> NoTree], runs |-> {}, outcomes |-> <<>>]
Fail(st) == [st EXCEPT !.ok = FALSE]
RunsNamed(st, id) == {r \in st.runs : r.body.run.id = id}
\* The reviews of a run, in replay order.
History(st, id) == SelectSeq(st.outcomes, LAMBDA ev : ev.body.run = id)
LatestOf(st, id) == LET h == History(st, id) IN IF h = <<>> THEN NoEvent ELSE Last(h).key

TreeStep(st, ev) ==
  IF st.trees[ev.body.task] # NoTree /\ ~isAdditiveTreeRevision(st.trees[ev.body.task], ev.body.tree)
  THEN Fail(st) ELSE [st EXCEPT !.trees[ev.body.task] = ev.body.tree]
\* Mutant: replay keeps a review whatever it says it corrects.
OutcomeStepAny(st, ev) ==
  IF \E r \in RunsNamed(st, ev.body.run) : r.body.task = ev.body.task /\ r.scope = ev.scope
  THEN [st EXCEPT !.outcomes = Append(@, ev)] ELSE Fail(st)
OutcomeStep(st, ev) ==
  IF /\ \E r \in RunsNamed(st, ev.body.run) : r.body.task = ev.body.task /\ r.scope = ev.scope
     /\ LatestOf(st, ev.body.run) = ev.body.previous
  THEN [st EXCEPT !.outcomes = Append(@, ev)] ELSE Fail(st)
RunStep(st, ev) ==
  IF RunsNamed(st, ev.body.run.id) # {} \/ st.trees[ev.body.task] = NoTree
  THEN Fail(st) ELSE [st EXCEPT !.runs = @ \cup {ev}]

continueTrajectories(st, ev) ==
  CASE ~st.ok -> st
    [] st.ok /\ ev.type = "tree" -> TreeStep(st, ev)
    [] st.ok /\ ev.type = "outcome" -> OutcomeStep(st, ev)
    [] st.ok /\ ev.type = "run" -> RunStep(st, ev)
rebuildTrajectories(events) ==
  LET upTo[k \in 0..MaxKey] ==
        IF k = 0 THEN Empty
        ELSE LET before == upTo[k - 1]
             IN IF \E ev \in events : ev.key = k
                THEN continueTrajectories(before, CHOOSE ev \in events : ev.key = k)
                ELSE before
  IN upTo[MaxKey]

\* The outcome of a run as reports show it: its latest review, if any.
effectiveOutcome(st, r) ==
  LET h == History(st, r.body.run.id)
  IN IF h = <<>> THEN r.body.run.outcome ELSE Last(h).body.outcome
\* The runs of a task as its report sees them, in recording order.
Records(st, task) ==
  LET mine == {r \in st.runs : r.body.task = task}
      at(k) == CHOOSE r \in mine : Cardinality({q \in mine : q.key <= r.key}) = k
  IN [k \in 1..Cardinality(mine) |-> [at(k).body.run EXCEPT !.outcome = effectiveOutcome(st, at(k))]]

-----------------------------------------------------------------------------
Idle == [at |-> "idle"]
Init == log = {} /\ stored = <<>> /\ walk = Idle

\* commitEntryBatch: a used id with another content conflicts, and the whole
\* canonical log must replay with the new event in its place.
Fresh(key) == Cardinality(log) < MaxEvents /\ \A old \in log : old.key # key
Commit(ev) ==
  /\ rebuildTrajectories(log \cup {ev}).ok
  /\ log' = log \cup {ev}

TreeEvent(key, scope, task, tree) ==
  [key |-> key, scope |-> scope, type |-> "tree", body |-> [task |-> task, tree |-> tree]]
RunEvent(key, scope, task, run) ==
  [key |-> key, scope |-> scope, type |-> "run", body |-> [task |-> task, run |-> run]]
OutcomeEvent(key, scope, task, id, outcome, previous) ==
  [key |-> key, scope |-> scope, type |-> "outcome",
   body |-> [task |-> task, run |-> id, outcome |-> outcome, previous |-> previous]]

\* In the commands below st is what the writer's view of the log replays to.
\* The same tree again is answered with the stored revision.
recordTrajectoryTree(writer, st, key, scope, task, tree) ==
  /\ Fresh(key) /\ MayWrite(writer, scope) /\ indexTree(tree)
  /\ st.trees[task] # NoTree =>
       st.trees[task] # tree /\ isAdditiveTreeRevision(st.trees[task], tree)
  /\ rebuildTrajectories(Visible(writer) \cup {TreeEvent(key, scope, task, tree)}).ok
  /\ Commit(TreeEvent(key, scope, task, tree))

recordTrajectory(writer, st, key, scope, task, run) ==
  /\ Fresh(key) /\ MayWrite(writer, scope)
  /\ st.trees[task] # NoTree
  /\ projectTrajectory(run, st.trees[task])
  /\ RunsNamed(st, run.id) = {}
  /\ Commit(RunEvent(key, scope, task, run))

\* A review takes the scope of the run it reviews.
ReviewScope(r, asked) == r.scope
recordTrajectoryOutcome(st, key, asked, task, id, outcome, previous) ==
  /\ Fresh(key)
  /\ \E r \in RunsNamed(st, id) :
       /\ r.body.task = task
       /\ LatestOf(st, id) = previous
       /\ At(key) > At(IF previous = NoEvent THEN r.key ELSE previous)
       /\ Commit(OutcomeEvent(key, ReviewScope(r, asked), task, id, outcome, previous))

RunIds == {run.id : run \in RunInputs}
\* append: a caller-built event of a trajectory kind; its envelope is checked,
\* then only what Commit replays.
append(writer, key, scope) ==
  /\ Fresh(key) /\ MayWrite(writer, scope)
  /\ \E task \in Tasks :
       \/ /\ "tree" \in RawAppend
          /\ \E tree \in TreeInputs : Commit(TreeEvent(key, scope, task, tree))
       \/ /\ "run" \in RawAppend
          /\ \E run \in RunInputs : Commit(RunEvent(key, scope, task, run))
       \/ /\ "outcome" \in RawAppend
          /\ \E id \in RunIds, outcome \in Verdicts, previous \in {old.key : old \in log} \cup {NoEvent} :
               Commit(OutcomeEvent(key, scope, task, id, outcome, previous))

View(writer) == {st \in {rebuildTrajectories(Visible(writer))} : st.ok}
RecordTree == \E writer \in Writers : \E st \in View(writer) :
  \E key \in Keys, scope \in Scopes, task \in Tasks, tree \in TreeInputs :
    recordTrajectoryTree(writer, st, key, scope, task, tree)
RecordRun == \E writer \in Writers : \E st \in View(writer) :
  \E key \in Keys, scope \in Scopes, task \in Tasks, run \in RunInputs :
    recordTrajectory(writer, st, key, scope, task, run)
RecordOutcome == \E writer \in Writers : \E st \in View(writer) :
  \E key \in Keys, asked \in Scopes, task \in Tasks, id \in RunIds, outcome \in Verdicts,
     previous \in {old.key : old \in log} \cup {NoEvent} :
    recordTrajectoryOutcome(st, key, asked, task, id, outcome, previous)
Append_ == RawAppend # {} /\ \E writer \in Writers, key \in Keys, scope \in Scopes : append(writer, key, scope)

Next == RecordTree \/ RecordRun \/ RecordOutcome \/ Append_

-----------------------------------------------------------------------------
(* The task summaries                                                      *)
\* trees and outcome_reviews: DISTINCT ON with the greatest sequence.
Rows(reader, type) == {i \in DOMAIN stored : stored[i].type = type /\ stored[i] \in Visible(reader)}
LastRow(rows) == {stored[i] : i \in {j \in rows : \A k \in rows : k <= j}}
TreeRow(reader, task) == LastRow({i \in Rows(reader, "tree") : stored[i].body.task = task})
ReviewRow(reader, id) == LastRow({i \in Rows(reader, "outcome") : stored[i].body.run = id})

\* run_events: a run with its outcome reviewed or recorded, and the later time.
RunRows(reader, task) ==
  {LET run == stored[i]
       reviews == ReviewRow(reader, run.body.run.id)
       review == CHOOSE v \in reviews : TRUE
   IN [id |-> run.body.run.id,
       outcome |-> IF reviews = {} THEN run.body.run.outcome ELSE review.body.outcome,
       t |-> IF reviews = {} \/ At(review.key) < At(run.key) THEN At(run.key) ELSE At(review.key)] :
   i \in {j \in Rows(reader, "run") : stored[j].body.task = task}}

Latest(times) == CHOOSE t \in times : \A u \in times : u <= t
Counts(outcomes, ids) == [total |-> Cardinality(ids), of |-> [o \in {"success", "failure", "unknown"} |-> Cardinality({r \in outcomes : r.outcome = o})]]
Summary(reader, task) ==
  LET runs == RunRows(reader, task)
  IN [task |-> task, counts |-> Counts(runs, {r.id : r \in runs}),
      last |-> Latest({At(tree.key) : tree \in TreeRow(reader, task)} \cup {r.t : r \in runs})]
Summaries(reader) == {Summary(reader, task) : task \in {t \in Tasks : TreeRow(reader, t) # {}}}

\* ORDER BY last_recorded_at DESC, task_id, after the cursor.
Precedes(s, r) == s.last > r.last \/ (s.last = r.last /\ s.task < r.task)
After(cursor, s) == Precedes(cursor, s)
Page(reader, cursor) ==
  LET rows == IF cursor = <<>> THEN Summaries(reader) ELSE {s \in Summaries(reader) : After(cursor[1], s)}
      first == {s \in rows : Cardinality({r \in rows : Precedes(r, s)}) < Limit}
  IN [tasks |-> first,
      next |-> IF Cardinality(rows) > Limit
               THEN <<CHOOSE s \in first : \A r \in first : r = s \/ Precedes(r, s)>> ELSE <<>>]

\* trajectoryTasks: the same summary from a replay.
Replayed(st, task) ==
  LET runs == Records(st, task)
  IN Counts({[id |-> runs[k].id, outcome |-> runs[k].outcome] : k \in DOMAIN runs}, {runs[k].id : k \in DOMAIN runs})

-----------------------------------------------------------------------------

Write ==
  /\ Next
  /\ stored' = Append(stored, CHOOSE ev \in log' \ log : TRUE)
  /\ walk' = IF walk.at = "idle" THEN walk
             ELSE [walk EXCEPT !.touched = @ \cup {ev.body.task : ev \in log' \ log}]

\* GET trajectory-tasks: the first page, then the next ones by their cursor.
Start ==
  /\ walk.at = "idle" /\ Limit > 0
  /\ walk' = [at |-> "walking", cursor |-> <<>>, met |-> <<>>, touched |-> {},
              known |-> {s.task : s \in Summaries("outsider")}]
  /\ UNCHANGED <<log, stored>>
Fetch ==
  /\ walk.at = "walking"
  /\ \E page \in {Page("outsider", walk.cursor)} :
       walk' = [walk EXCEPT !.met = Append(@, {s.task : s \in page.tasks}), !.cursor = page.next,
                            !.at = IF page.next = <<>> THEN "done" ELSE @]
  /\ UNCHANGED <<log, stored>>

NextQ == Write \/ Start \/ Fetch
Spec == Init /\ [][NextQ]_allVars

-----------------------------------------------------------------------------
\* Every stored run still fits the current tree of its task, whatever
\* revisions were recorded since, also between older ones: a report of the
\* task never fails on a run that was accepted.
RunsFit ==
  \E st \in {rebuildTrajectories(log)} :
    st.ok /\ \A r \in st.runs : projectTrajectory(r.body.run, st.trees[r.body.task])

\* A verdict corrects the one before it and none is ever inserted into the
\* history of a run, although the log is ordered by source time: the history
\* only grows at its end, and no two reviews correct the same one.
VerdictsExtended ==
  \E old \in {rebuildTrajectories(log)}, new \in {rebuildTrajectories(log')} :
       \A r \in old.runs :
         LET id == r.body.run.id
             before == History(old, id)
             after == History(new, id)
         IN /\ SubSeq(after, 1, Len(before)) = before
            /\ \A i \in DOMAIN after : after[i].body.previous = IF i = 1 THEN NoEvent ELSE after[i - 1].key

\* Everyone who sees a run sees the same reviews of it and so the same
\* outcome: a review inherits the run's visibility.
SameVerdict ==
  \E all \in {rebuildTrajectories(log)}, some \in {rebuildTrajectories(Visible("outsider"))} :
    some.ok => \A r \in some.runs : History(some, r.body.run.id) = History(all, r.body.run.id)

\* A run is reported as aligned with the consensus path only if an unbroken
\* stretch of mapped steps follows it from its first node to its last, and a
\* run whose whole route is the path always is: gaps are never bridged.
ConsensusFollowed ==
  \A task \in Tasks : \E st \in {rebuildTrajectories(log)} : \E runs \in {Records(st, task)} :
    (runs # <<>> /\ \A i \in DOMAIN runs : Walkable(runs[i], st.trees[task])) =>
    \E path \in {mostSuccessfulPath(runs, st.trees[task])} : path # <<>> =>
      \A i \in DOMAIN runs :
        LET steps == runs[i].steps
            found == firstDivergentEdge(runs[i], path)
        IN /\ completeRoute(runs[i], st.trees[task]) = path => found = [kind |-> "aligned", compared |-> Len(path) - 1]
           /\ found.kind = "aligned" =>
                \E from \in DOMAIN steps : \E to \in from..Len(steps) :
                  /\ \A k \in from..to : steps[k].kind = "mapped"
                  /\ steps[from].node = path[1] /\ steps[to].node = Last(path)
                  /\ \A k \in from..(to - 1) : \/ steps[k].node = steps[k + 1].node
                                               \/ <<steps[k].node, steps[k + 1].node>> \in {<<path[j], path[j + 1]>> : j \in 1..(Len(path) - 1)}

\* The SQL summaries list the tasks that replay lists and count each run once
\* under the outcome that replay gives it, for every reader and whatever the
\* order in which backdated trees, runs and reviews were stored.
SummariesAgree ==
  \A reader \in Readers : \E st \in {rebuildTrajectories(Visible(reader))} : st.ok =>
    /\ {s.task : s \in Summaries(reader)} = {task \in Tasks : st.trees[task] # NoTree}
    /\ \A s \in Summaries(reader) : s.counts = Replayed(st, s.task)

\* A task that nothing was recorded for during the walk is met exactly once,
\* although other tasks move to the front meanwhile.
WalkMeets ==
  walk.at = "done" =>
    \A task \in walk.known \ walk.touched :
      Cardinality({k \in DOMAIN walk.met : task \in walk.met[k]}) = 1
=============================================================================
