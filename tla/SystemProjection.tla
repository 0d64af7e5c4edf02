-------------------------- MODULE SystemProjection --------------------------
(***************************************************************************)
(* The system projection kept in PostgreSQL for one reader                  *)
(* (packages/fold-postgres/src/system-projection.ts, and systemProjection   *)
(* in store.ts): the fold of the events the reader may see, saved as cells  *)
(* with a checkpoint and cached by every API process.                       *)
(*                                                                          *)
(* A request advances the projection from the newest of the cache and the   *)
(* cells, page by page, or folds again from the start when an event has     *)
(* arrived that belongs before what is already folded.  Requests run in     *)
(* transactions that one advisory lock serialises; appends interleave with  *)
(* them, transactions fail and processes crash.                             *)
(*                                                                          *)
(* The fold itself (packages/fold/src, schema.ts and fold.ts) applies the   *)
(* changes of events in order to a world of nodes, components, edges and    *)
(* redirects.  A JSON value is a tuple <<kind, value>>, so that values of   *)
(* different kinds can be compared.  A state has ok = FALSE once applying   *)
(* an event has thrown; nobody looks at the rest of it then.                *)
(***************************************************************************)
EXTENDS Integers, FiniteSets, SequencesExt

CONSTANTS Processes, Requests, ProcessOf,
          Bodies,        \* bound: the changes an event may carry
          Times, Ids,    \* bound: stamps and event ids
          MaxEvents,     \* bound: length of the log
          PageSize,      \* rows of a FETCH
          Lowest, Highest   \* the clamp of the component "regard"

----------------------------------------------------------------------------
(* The fold.                                                               *)

\* JSON values and the value of a cell that was never written.
Undefined == <<"undefined", 0>>
Null == <<"null", 0>>
Num(n) == <<"number", n>>
Flag(b) == <<"boolean", b>>
Ref(x) == <<"string", x>>

None == "none"
Change(verb, subject, component, object, before, after) ==
    [verb |-> verb, subject |-> subject, component |-> component, object |-> object,
     before |-> before, after |-> after]

\* The twelve verbs.  "properties" is a function from components to values.
Create(s, properties) == Change("create", s, None, None, Undefined, <<"object", properties>>)
Destroy(s, properties) == Change("destroy", s, None, None, <<"object", properties>>, Undefined)
Set(s, c, before, after) == Change("set", s, c, None, before, after)
Adjust(s, c, before, amount) == Change("adjust", s, c, None, Num(before), Num(amount))
Mark(s, c, before) == Change("mark", s, c, None, Flag(before), Flag(TRUE))
Unmark(s, c, before) == Change("unmark", s, c, None, Flag(before), Flag(FALSE))
Link(edge, s, o) == Change("link", s, edge, o, Undefined, Undefined)
Unlink(edge, s, o) == Change("unlink", s, edge, o, Undefined, Undefined)
Transfer(s, o, before, after) == Change("transfer", s, None, o, before, after)
Reveal(s, audience, before) == Change("reveal", s, None, audience, Flag(before), Flag(TRUE))
Conceal(s, audience, before) == Change("conceal", s, None, audience, Flag(before), Flag(TRUE))
Merge(s, o) == Change("merge", s, None, o, Undefined, Null)

----------------------------------------------------------------------------
Nothing == [x \in {} |-> 0]
emptyState == [ok |-> TRUE, values |-> Nothing, nodes |-> Nothing, edges |-> Nothing,
               redirects |-> Nothing, diagnostics |-> <<>>]

Put(f, k, x) == [y \in DOMAIN f \cup {k} |-> IF y = k THEN x ELSE f[y]]
Drop(f, K) == [y \in DOMAIN f \ K |-> f[y]]
Get(f, k, otherwise) == IF k \in DOMAIN f THEN f[k] ELSE otherwise

\* The cell a change writes; link and unlink name an edge.
targetKey(c) ==
    CASE c.verb \in {"create", "destroy"} -> <<c.subject, "exists", None>>
      [] c.verb \in {"set", "adjust", "mark", "unmark"} -> <<c.subject, c.component, None>>
      [] c.verb \in {"link", "unlink"} -> <<c.subject, c.component, c.object>>
      [] c.verb = "transfer" -> <<c.object, "possession", None>>
      [] c.verb = "reveal" -> <<c.object, "known", c.subject>>
      [] c.verb = "conceal" -> <<c.object, "shielded", c.subject>>
      [] c.verb = "merge" -> <<c.object, "redirect", None>>

UniqueTargets(changes) ==
    \A i, j \in DOMAIN changes : targetKey(changes[i]) = targetKey(changes[j]) => i = j

\* undefined equals null, and nothing else equals undefined.
jsonEqual(actual, expected) ==
    IF actual = Undefined THEN expected = Null ELSE actual = expected

\* The nodes a chain of redirects passes through, and where it ends; a chain that comes
\* back to a node it has seen throws.
Path(redirects, n) ==
    LET walk[k \in 0 .. Cardinality(DOMAIN redirects) + 1] ==
            IF k = 0 THEN <<n>>
            ELSE LET w == walk[k - 1] last == w[Len(w)] IN
                 IF last \in DOMAIN redirects THEN Append(w, redirects[last]) ELSE w
    IN  walk[Cardinality(DOMAIN redirects) + 1]
Cyclic(redirects, n) == LET w == Path(redirects, n) IN w[Len(w)] \in DOMAIN redirects
resolveNodeId(redirects, n) == LET w == Path(redirects, n) IN w[Len(w)]

Note(st, kind, e, i) == [st EXCEPT !.diagnostics = Append(@, <<kind, e, i>>)]
diagnoseBefore(st, e, i, actual, expected) ==
    IF jsonEqual(actual, expected) THEN st ELSE Note(st, "before-mismatch", e, i)
Throw(st) == [st EXCEPT !.ok = FALSE]

----------------------------------------------------------------------------
(* applyChange, one operator for each verb (existingCreate = "replace").    *)

Exists(st, n) == n \in DOMAIN st.nodes /\ st.nodes[n].exists

ApplyCreate(st, e, i, c) ==
    LET old == IF Exists(st, c.subject) THEN DOMAIN st.nodes[c.subject].properties[2] ELSE {}
        seen == IF Exists(st, c.subject) THEN Note(st, "existing-create-replaced", e, i) ELSE st
        kept == Drop(seen.values, {<<c.subject, p, None>> : p \in old})
        made == Put(kept, <<c.subject, "exists", None>>, Flag(TRUE))
    IN  [seen EXCEPT
           !.nodes = Put(@, c.subject, [exists |-> TRUE, properties |-> c.after]),
           !.values = [k \in DOMAIN made \cup {<<c.subject, p, None>> : p \in DOMAIN c.after[2]} |->
                         IF k[1] = c.subject /\ k[2] \in DOMAIN c.after[2] /\ k[3] = None
                         THEN c.after[2][k[2]] ELSE made[k]]]

ApplyDestroy(st, e, i, c) ==
    LET known == c.subject \in DOMAIN st.nodes
        actual == IF known THEN st.nodes[c.subject].properties ELSE Undefined
        seen == diagnoseBefore(st, e, i, actual, c.before)
    IN  [seen EXCEPT
           !.nodes = Put(@, c.subject, [exists |-> FALSE,
                                        properties |-> IF known THEN actual ELSE c.before]),
           !.values = Put(@, <<c.subject, "exists", None>>, Flag(FALSE))]

\* set, mark, unmark, transfer, reveal, conceal: diagnose what was there, and write.
writeTarget(st, e, i, c) ==
    LET key == targetKey(c)
        absent == IF c.verb \in {"set", "transfer"} THEN Undefined ELSE Flag(FALSE)
        seen == diagnoseBefore(st, e, i, Get(st.values, key, absent), c.before)
    IN  [seen EXCEPT !.values = Put(@, key, c.after)]

Clamped(c, n) ==
    IF c.component # "regard" THEN n
    ELSE IF n < Lowest THEN Lowest ELSE IF n > Highest THEN Highest ELSE n

\* Only a declared numeric component can be adjusted.
ApplyAdjust(st, e, i, c) ==
    LET key == targetKey(c)
        current == Get(st.values, key, Num(0))
        seen == diagnoseBefore(st, e, i, current, c.before)
    IN  IF current[1] # "number" \/ c.component \notin {"regard", "count"} THEN Throw(st)
        ELSE [seen EXCEPT !.values = Put(@, key, Num(Clamped(c, current[2] + c.after[2])))]

ApplyLink(st, c) ==
    [st EXCEPT !.edges = Put(@, c.component, [subject |-> c.subject, object |-> c.object])]
ApplyUnlink(st, c) == [st EXCEPT !.edges = Drop(@, {c.component})]

ApplyMerge(st, c) ==
    LET after == Put(st.redirects, c.object, c.subject) IN
    IF \/ Cyclic(st.redirects, c.subject)
       \/ resolveNodeId(st.redirects, c.subject) = c.object
       \/ Cyclic(after, c.object)
    THEN Throw(st)
    ELSE [st EXCEPT !.redirects = after]

applyChange(st, e, i, c) ==
    CASE c.verb = "create" -> ApplyCreate(st, e, i, c)
      [] c.verb = "destroy" -> ApplyDestroy(st, e, i, c)
      [] c.verb = "adjust" -> ApplyAdjust(st, e, i, c)
      [] c.verb = "link" -> ApplyLink(st, c)
      [] c.verb = "unlink" -> ApplyUnlink(st, c)
      [] c.verb = "merge" -> ApplyMerge(st, c)
      [] OTHER -> writeTarget(st, e, i, c)

applyEvent(st, e) ==
    LET upTo[n \in 0 .. Len(e.changes)] ==
            IF n = 0 THEN st
            ELSE LET before == upTo[n - 1] IN
                 IF before.ok THEN applyChange(before, e.id, n, e.changes[n]) ELSE before
    IN  IF UniqueTargets(e.changes) THEN upTo[Len(e.changes)] ELSE Throw(st)

\* continueFold: a state, and a sequence of events that follow it in order.
continueFold(st, events) ==
    LET upTo[n \in 0 .. Len(events)] ==
            IF n = 0 THEN st
            ELSE LET before == upTo[n - 1] IN
                 IF before.ok THEN applyEvent(before, events[n]) ELSE before
    IN  upTo[Len(events)]

fold(events) == continueFold(emptyState, events)

----------------------------------------------------------------------------
(* The projection.                                                         *)

VARIABLES log,       \* fold_events in ingestion order: [t, id, changes, visible]
          cells,     \* fold_system_projection_cells
          mark,      \* fold_projection_checkpoints: [seq, through]
          cache,     \* systemProjections of each process
          req,       \* of each request: where it is and what it holds
          lock       \* the request that holds the advisory lock
vars == <<log, cells, mark, cache, req, lock>>

Nowhere == [t |-> 0, id |-> 0]
Unread == [seq |-> -1, through |-> Nowhere, state |-> emptyState]
Idle == [at |-> "idle", asked |-> 0, cached |-> Unread, seq |-> 0, prev |-> Unread,
         next |-> Unread, cells |-> emptyState]

Init ==
    /\ log = <<>> /\ cells = emptyState /\ lock = None
    /\ mark = [seq |-> -1, through |-> Nowhere]
    /\ cache = [p \in Processes |-> Unread]
    /\ req = [r \in Requests |-> Idle]

----------------------------------------------------------------------------
KeyBefore(e, f) == e.t < f.t \/ (e.t = f.t /\ e.id < f.id)
sortLog(events) == SetToSortSeq(events, KeyBefore)

\* The rows with seq in (from, to], as the cursor returns them: by time, then ingestion.
Rows(from, to) ==
    LET order == SetToSortSeq(from + 1 .. to,
                     LAMBDA i, j : log[i].t < log[j].t \/ (log[i].t = log[j].t /\ i < j))
    IN  [n \in 1 .. to - from |-> log[order[n]]]

\* Mutant: only earlier times are late.
LateTimes(prev, to) ==
    \E i \in prev.seq + 1 .. to : log[i].visible /\ log[i].t < prev.through.t

\* A late event: it belongs at or before the last one folded, and the reader sees it.
Late(prev, to) ==
    /\ prev.through # Nowhere
    /\ \E i \in prev.seq + 1 .. to :
          log[i].visible /\ (log[i].t < prev.through.t
                             \/ (log[i].t = prev.through.t /\ log[i].id <= prev.through.id))

Visible(rows) == {rows[n] : n \in {k \in DOMAIN rows : rows[k].visible}}
NewestTime(events) == CHOOSE t \in {e.t : e \in events} : \A e \in events : e.t <= t

\* Events of the newest time wait for the next page: its group may not be complete.
Ready(pending, last) ==
    IF last \/ pending = {} THEN pending ELSE {e \in pending : e.t # NewestTime(pending)}

\* The loop over pages: [state, through, pending] after each FETCH, the last one empty.
Pages(rows, state, through) ==
    LET count == (Len(rows) + PageSize - 1) \div PageSize + 1
        page(n) == SubSeq(rows, (n - 1) * PageSize + 1,
                          IF n * PageSize < Len(rows) THEN n * PageSize ELSE Len(rows))
        after[n \in 0 .. count] ==
            IF n = 0 THEN [state |-> state, through |-> through, pending |-> {}]
            ELSE LET before == after[n - 1]
                     pending == before.pending \cup Visible(page(n))
                     ready == Ready(pending, n = count)
                     ordered == sortLog(ready)
                 IN  [state |-> continueFold(before.state, ordered),
                      through |-> IF ordered = <<>> THEN before.through
                                  ELSE [t |-> ordered[Len(ordered)].t, id |-> ordered[Len(ordered)].id],
                      pending |-> pending \ ready]
    IN  after[count]

\* The cells that differ are written and those that are gone deleted.
Diff(stored, old, new) ==
    LET changed == {k \in DOMAIN new : k \notin DOMAIN old \/ old[k] # new[k]}
        gone == DOMAIN old \ DOMAIN new
    IN  [k \in (DOMAIN stored \ gone) \cup changed |-> IF k \in changed THEN new[k] ELSE stored[k]]

\* Diagnostics are cells by index, appended.
DiffList(stored, old, new) == SubSeq(stored, 1, Len(old)) \o SubSeq(new, Len(old) + 1, Len(new))

Write(stored, rebuild, old, new) ==
    IF rebuild THEN new
    ELSE [new EXCEPT !.values = Diff(stored.values, old.values, new.values),
                     !.nodes = Diff(stored.nodes, old.nodes, new.nodes),
                     !.edges = Diff(stored.edges, old.edges, new.edges),
                     !.redirects = Diff(stored.redirects, old.redirects, new.redirects),
                     !.diagnostics = DiffList(stored.diagnostics, old.diagnostics, new.diagnostics)]

----------------------------------------------------------------------------
AppendEvent(t, id, body, visible) ==
    /\ Len(log) < MaxEvents
    /\ \A i \in DOMAIN log : log[i].id # id
    /\ log' = Append(log, [t |-> t, id |-> id, changes |-> body, visible |-> visible])
    /\ UNCHANGED <<cells, mark, cache, req, lock>>

\* The cache is read before the transaction waits for its lock.
Start(r) ==
    /\ req[r].at = "idle"
    /\ req' = [req EXCEPT ![r] = [Idle EXCEPT !.at = "waiting", !.asked = Len(log),
                                               !.cached = cache[ProcessOf[r]]]]
    /\ UNCHANGED <<log, cells, mark, cache, lock>>

\* Another process may have advanced the cells.
Previous(cached) ==
    IF mark.seq # -1 /\ mark.seq # cached.seq
    THEN [seq |-> mark.seq, through |-> mark.through, state |-> cells] ELSE cached

\* With the lock: the head of the log, and what to advance from.
Acquire(r) ==
    LET prev == Previous(req[r].cached) IN
    /\ req[r].at = "waiting" /\ lock = None
    /\ lock' = r
    /\ req' = [req EXCEPT ![r] =
          [@ EXCEPT !.seq = Len(log),
                    !.at = IF Len(log) \in {req[r].cached.seq, prev.seq} THEN "done" ELSE "folding",
                    !.prev = prev, !.cells = cells,
                    !.next = IF req[r].cached.seq = Len(log) THEN req[r].cached ELSE prev]]
    /\ UNCHANGED <<log, cells, mark, cache>>

Rebuild(q) == q.prev = Unread \/ Late(q.prev, q.seq)
Folded(q) ==
    Pages(Rows(IF Rebuild(q) THEN 0 ELSE q.prev.seq, q.seq),
          IF Rebuild(q) THEN emptyState ELSE q.prev.state,
          IF Rebuild(q) THEN Nowhere ELSE q.prev.through)

Advance(r) ==
    LET q == req[r] IN
    /\ q.at = "folding"
    /\ \E result \in {Folded(q)} :
          /\ result.state.ok
          /\ req' = [req EXCEPT ![r] =
                [@ EXCEPT !.at = "writing",
                          !.next = [seq |-> q.seq, through |-> result.through, state |-> result.state],
                          !.cells = Write(cells, Rebuild(q), q.prev.state, result.state)]]
    /\ UNCHANGED <<log, cells, mark, cache, lock>>

\* COMMIT: what the transaction wrote is there, and the lock is free.
Commit(r) ==
    /\ req[r].at \in {"writing", "done"}
    /\ IF req[r].at = "writing"
       THEN /\ cells' = req[r].cells
            /\ mark' = [seq |-> req[r].next.seq, through |-> req[r].next.through]
       ELSE UNCHANGED <<cells, mark>>
    /\ lock' = None
    /\ req' = [req EXCEPT ![r].at = "committed"]
    /\ UNCHANGED <<log, cache>>

Remember(r) ==
    /\ req[r].at = "committed"
    /\ cache' = [cache EXCEPT ![ProcessOf[r]] = req[r].next]
    /\ req' = [req EXCEPT ![r] = Idle]
    /\ UNCHANGED <<log, cells, mark, lock>>

\* An event that the fold throws on, or an error of the database: ROLLBACK.
Rollback(r) ==
    /\ req[r].at \in {"waiting", "folding", "writing", "done"}
    /\ lock' = IF lock = r THEN None ELSE lock
    /\ req' = [req EXCEPT ![r] = Idle]
    /\ UNCHANGED <<log, cells, mark, cache>>

Crash(p) ==
    /\ cache' = [cache EXCEPT ![p] = Unread]
    /\ req' = [r \in Requests |-> IF ProcessOf[r] = p THEN Idle ELSE req[r]]
    /\ lock' = IF lock # None /\ ProcessOf[lock] = p THEN None ELSE lock
    /\ UNCHANGED <<log, cells, mark>>

Next ==
    \/ \E t \in Times, id \in Ids, body \in Bodies, v \in BOOLEAN : AppendEvent(t, id, body, v)
    \/ \E r \in Requests : Start(r) \/ Acquire(r) \/ Advance(r) \/ Commit(r) \/ Remember(r) \/ Rollback(r)
    \/ \E p \in Processes : Crash(p)

Spec == Init /\ [][Next]_vars

----------------------------------------------------------------------------
\* What a reader should see of the first n events: the fold of the visible ones in order.
Replay(n) == fold(sortLog({log[i] : i \in {k \in 1 .. n : log[k].visible}}))

\* Incremental projection is replay: the saved cells at their checkpoint, and every
\* process's cache, are the fold of the reader's events up to there, whatever arrived
\* late, however pages cut groups of equal time, and whichever process wrote before.
ProjectionExact ==
    /\ mark.seq # -1 => cells = Replay(mark.seq)
    /\ \A p \in Processes : cache[p].seq # -1 => cache[p].state = Replay(cache[p].seq)

\* A request answers with at least the events that were stored when it came.
AnswersFresh == \A r \in Requests : req[r].at = "committed" => req[r].next.seq >= req[r].asked

\* No saved world has a chain of redirects that comes back to its start.
NoRedirectCycle == \A n \in DOMAIN cells.redirects : ~Cyclic(cells.redirects, n)
=============================================================================
