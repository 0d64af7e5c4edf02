-------------------------------- MODULE Fleet -------------------------------
(***************************************************************************)
(* Terminal sensors and the fleet that is replayed from their records      *)
(* (fold-activity, fold-fleet, sensorStatusAt).  Each session has one      *)
(* sensor; its signals become events, reach the log late and in any order, *)
(* and every read rebuilds the sessions at the time of the read.           *)
(***************************************************************************)
EXTENDS Naturals, Sequences, FiniteSets, SequencesExt

CONSTANTS
  Sessions,
  Signals,      \* signals the sensors send
  Tasks,        \* what a sensor knows of its task: Unknown or names
  Branches,     \* branches it sees
  Foreign,      \* TRUE: sensors also send records about other sessions
  AfterStop,    \* TRUE: a sensor may observe something after it said offline
  Unknown, None,
  Window,       \* heartbeatWindowMs
  OrphanAfter,  \* orphanAfterMs
  MaxTime, MaxSignals

FleetConstants == Unknown \in Tasks /\ {Window, OrphanAfter, MaxTime, MaxSignals} \subseteq Nat

VARIABLES
  log,    \* delivered events, in source order
  wire,   \* recorded and not yet delivered
  sent,   \* logical time of the last event
  now,
  real    \* session -> what its sensor last said and did
vars == <<log, wire, sent, now, real>>

-----------------------------------------------------------------------------
(* Signals and their events                                                *)
Lifecycle == [session_started |-> "online", session_stopped |-> "offline", session_error |-> "offline",
              heartbeat |-> "heartbeat", sensor_degraded |-> "degraded"]
Observations == [session_ready |-> "status_changed", login_required |-> "login_required", auth_required |-> "auth_required",
                 blocking_prompt |-> "blocking_prompt", stall_detected |-> "stall_detected",
                 task_complete |-> "task_complete", tool_running |-> "tool_running", output |-> "output"]
\* makeTerminalClassificationEvent: a state read off the screen.
Classifications == [sees_approval |-> "awaiting_approval", sees_busy |-> "busy_streaming", sees_done |-> "completed"]
\* eventFromTerminalManagerSignal and the makers of the three records.
eventFromTerminalManagerSignal(sig) ==
  IF sig \in DOMAIN Lifecycle THEN [kind |-> "lifecycle", what |-> Lifecycle[sig]]
  ELSE IF sig \in DOMAIN Observations THEN [kind |-> "terminal.observation", what |-> Observations[sig]]
  ELSE [kind |-> "terminal.classification", what |-> Classifications[sig]]
\* author: the sensor that sent it; session: whom the record is about.
baseEvent(sensor, session, ident, t, sig) ==
  [author |-> sensor, sensor |-> session, session |-> session, task |-> ident.task, branch |-> ident.branch, t |-> t, at |-> now,
   kind |-> eventFromTerminalManagerSignal(sig).kind, what |-> eventFromTerminalManagerSignal(sig).what]
\* The record must be written by the sensor that it names.
validateActivityEventEnvelope(e) == e.kind \in {"lifecycle", "terminal.observation", "terminal.classification"} /\ e.sensor = e.author

-----------------------------------------------------------------------------
(* Replay                                                                  *)
Conflict == "conflict"
refineValue(left, right) == IF left = right \/ right = Unknown THEN left
                            ELSE IF left = Unknown THEN right ELSE Conflict
mapStatus(status) ==
  CASE status \in {"awaiting_input", "awaiting_approval"} -> "blocked"
    [] status \in {"ready_for_input", "completed", "ready"} -> "ready"
    [] status = "busy_streaming" -> "busy"
    [] status = "awaiting_auth" -> "authenticating"
    [] OTHER -> "unknown"
Busy == {"prompt_submitted", "stall_detected", "tool_running", "tool_result", "file_changed",
         "verification_result", "reasoning_checkpoint", "human_decision"}
\* processObservation: the status after an observation.
ObservedStatus(what, status) ==
  CASE what = "status_changed" -> mapStatus("ready")
    [] what \in {"login_required", "auth_required"} -> "authenticating"
    [] what = "blocking_prompt" -> "blocked"
    [] what \in Busy -> "busy"
    [] what = "task_complete" -> "ready"
    [] OTHER -> status
\* The session that an event creates, or refines.
sessionFor(map, e) ==
  IF e.session \notin DOMAIN map
  THEN [sensor |-> e.sensor, task |-> e.task, branch |-> e.branch, status |-> "pending", seen |-> None, phase |-> None, declared |-> None]
  ELSE [map[e.session] EXCEPT !.task = refineValue(@, e.task), !.branch = IF e.branch = Unknown THEN @ ELSE e.branch,
                              !.sensor = IF @ = e.sensor THEN @ ELSE Conflict]
processLifecycle(s, e) ==
  [s EXCEPT !.seen = e.at, !.phase = e.what, !.declared = IF e.what = "heartbeat" THEN @ ELSE e.what,
            !.status = IF e.what = "online" THEN "starting" ELSE IF e.what = "offline" THEN "stopped" ELSE @]
processObservation(s, e) == [s EXCEPT !.status = ObservedStatus(e.what, @)]
processClassification(s, e) == [s EXCEPT !.status = mapStatus(e.what)]
Process(map, e) ==
  LET s == sessionFor(map, e)
      after == CASE e.kind = "lifecycle" -> processLifecycle(s, e)
                 [] e.kind = "terminal.observation" -> processObservation(s, e)
                 [] OTHER -> processClassification(s, e)
  IN [x \in DOMAIN map \cup {e.session} |-> IF x = e.session THEN after ELSE map[x]]
Sessioned(events) ==
  LET upTo[i \in 0..Len(events)] == IF i = 0 THEN <<>> ELSE LET before == upTo[i - 1] IN Process(before, events[i])
  IN upTo[Len(events)]
\* A conflicting identity fails the whole snapshot.
Failed(map) == \E s \in DOMAIN map : map[s].task = Conflict \/ map[s].sensor = Conflict

Active == {"pending", "starting", "authenticating", "ready", "busy", "blocked", "stopping"}
Freshness(seen) == IF seen = None THEN "unknown" ELSE IF now - seen > Window THEN "stale" ELSE "current"
availabilityOf(s) ==
  IF Freshness(s.seen) # "current" THEN "unknown"
  ELSE CASE s.declared = "offline" -> "unavailable" [] s.declared = "degraded" -> "degraded"
         [] s.declared = "online" -> "available" [] OTHER -> "unknown"
Orphaned(s) == /\ Freshness(s.seen) = "stale" /\ s.seen # None /\ now - s.seen > OrphanAfter
               /\ s.status \in Active
planOrphanRecovery(map) == {s \in DOMAIN map : Orphaned(map[s])}

\* lifecycle.ts: the status of a sensor from its lifecycle records alone.
sensorStatusAt(events, sensor) ==
  LET own == SelectSeq(events, LAMBDA e : e.kind = "lifecycle" /\ e.sensor = sensor)
      declared == SelectSeq(own, LAMBDA e : e.what # "heartbeat")
  IN IF own = <<>> \/ now - own[Len(own)].at > Window \/ declared = <<>> THEN "unknown" ELSE declared[Len(declared)].what

-----------------------------------------------------------------------------
(* Sensors, delivery and time                                              *)
Init == /\ log = <<>> /\ wire = {} /\ sent = 0 /\ now = 0
        /\ real = [s \in Sessions |-> [status |-> "pending", seen |-> None, stopped |-> FALSE]]

\* What the sensor knows its session to be after the signal.
RealAfter(r, sig) ==
  LET e == eventFromTerminalManagerSignal(sig)
  IN CASE e.kind = "lifecycle" ->
            [status |-> IF e.what = "online" THEN "starting" ELSE IF e.what = "offline" THEN "stopped" ELSE r.status,
             seen |-> now, stopped |-> (e.what = "offline" \/ (r.stopped /\ e.what # "online"))]
       [] e.kind = "terminal.observation" -> [r EXCEPT !.status = ObservedStatus(e.what, @)]
       [] OTHER -> [r EXCEPT !.status = mapStatus(e.what)]
\* recordActivitySignal: an event is made and sent.
recordActivitySignal(s, sig, ident) ==
  /\ sent < MaxSignals /\ sent' = sent + 1
  /\ real[s].stopped /\ ~AfterStop => sig = "session_started"
  /\ wire' = wire \cup {baseEvent(s, s, ident, sent + 1, sig)}
  /\ real' = [real EXCEPT ![s] = RealAfter(@, sig)]
  /\ UNCHANGED <<log, now>>
\* A record about somebody else's session.
SendForeign(s, other, sig, ident) ==
  /\ Foreign /\ s # other /\ sent < MaxSignals /\ sent' = sent + 1
  /\ wire' = wire \cup {baseEvent(s, other, ident, sent + 1, sig)}
  /\ UNCHANGED <<log, now, real>>
\* Mutant: the log is in order of arrival.
InsertLast(events, e) == Append(events, e)
\* compareEventKeys: replay is in source order.
InsertEvent(events, e) == SelectSeq(events, LAMBDA x : x.t < e.t) \o <<e>> \o SelectSeq(events, LAMBDA x : x.t > e.t)
\* The append validates the envelope; what fails it is refused.
Deliver(e) == /\ wire' = wire \ {e}
              /\ log' = IF validateActivityEventEnvelope(e) THEN InsertEvent(log, e) ELSE log
              /\ UNCHANGED <<sent, now, real>>
Tick == now < MaxTime /\ now' = now + 1 /\ UNCHANGED <<log, wire, sent, real>>
Idents == [task : Tasks, branch : Branches]
Next == \/ \E s \in Sessions, sig \in Signals, ident \in Idents : recordActivitySignal(s, sig, ident)
        \/ \E s, other \in Sessions, sig \in Signals, ident \in Idents : SendForeign(s, other, sig, ident)
        \/ \E e \in wire : Deliver(e)
        \/ Tick
Spec == Init /\ [][Next]_vars

-----------------------------------------------------------------------------
(* Properties                                                              *)
Arrived(s) == \A e \in wire : e.session # s
\* Whatever the order of arrival, a session whose records have arrived shows
\* what its sensor last said, and nothing that another sensor said of it.
Converged ==
  \E map \in {Sessioned(log)} : ~Failed(map) =>
    \A s \in DOMAIN map : Arrived(s) => map[s].status = real[s].status /\ map[s].seen = real[s].seen

\* Recovery is planned for exactly the sessions that fell silent while they
\* were active: never for one that said it stopped.
OrphansSilent ==
  \E map \in {Sessioned(log)} : ~Failed(map) =>
    \A s \in DOMAIN map : Arrived(s) =>
      (s \in planOrphanRecovery(map) <=>
         /\ real[s].seen # None /\ now - real[s].seen > Window /\ now - real[s].seen > OrphanAfter
         /\ ~real[s].stopped)

\* The two implementations of sensor health agree.
SensorsAgree ==
  \E map \in {Sessioned(log)} : ~Failed(map) =>
    \A s \in DOMAIN map :
      availabilityOf(map[s]) = CASE sensorStatusAt(log, s) = "offline" -> "unavailable" [] sensorStatusAt(log, s) = "online" -> "available"
                                 [] OTHER -> sensorStatusAt(log, s)

\* What is known of a session's identity stays as it is while records arrive
\* in any order; a contradiction fails the snapshot and never replaces it.
KnownKept ==
  \E old \in {Sessioned(log)}, new \in {Sessioned(log')} :
       ~Failed(old) /\ ~Failed(new) => \A s \in DOMAIN old : old[s].task # Unknown => new[s].task = old[s].task
=============================================================================
