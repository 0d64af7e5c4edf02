----------------------------- MODULE Steering -----------------------------
(***************************************************************************)
(* Human steering: the intentions of actors as decisions in the log         *)
(* (packages/fold-drives, events.ts and intentions.ts) and the commands     *)
(* that record them (packages/fold-sdk/src/client.ts); and, at the end, the *)
(* drives that intentions come from.                                        *)
(*                                                                          *)
(* A command rebuilds the actor's intentions from every event it can see    *)
(* plus its own, and appends only when that replay accepts; the store       *)
(* refuses the append when the log has grown meanwhile and the command runs *)
(* again.  Stamps are the caller's, so an event may be put before events    *)
(* that are already stored.  The API gives every steering event the         *)
(* workspace's scope and takes intention events from no other route, so all *)
(* commands see the same log.                                               *)
(***************************************************************************)
EXTENDS Integers, FiniteSets, FiniteSetsExt

CONSTANTS Actors, Candidates, Intentions, Commands,
          MaxCommitted,   \* MAX_COMMITTED_INTENTIONS
          MaxTime,        \* bound: stamps
          MaxEvents       \* bound: length of the log

SteeringAssumption ==
    MaxCommitted \in Nat \ {0} /\ MaxTime \in Nat /\ MaxEvents \in Nat

None == "none"
Record(type, candidate, intention) == [type |-> type, candidate |-> candidate, intention |-> intention]

\* The five events of an intention.
Surfaced == {Record("surfaced", c, None) : c \in Candidates}
Committed == {Record("committed", c, i) : c \in Candidates, i \in Intentions}
Declined == {Record("declined", c, None) : c \in Candidates}
Acted == {Record("acted", None, i) : i \in Intentions}
Ended == {Record("ended", None, i) : i \in Intentions}
Records == Surfaced \cup Committed \cup Declined \cup Acted \cup Ended

VARIABLES log,      \* stored events: [id, t, actor, record]
          work      \* of each command: nothing, or the event it records and the log it saw
vars == <<log, work>>

NoEvent == [id |-> 0, t |-> 0, actor |-> None, record |-> Record(None, None, None)]
Idle == [event |-> NoEvent, seen |-> {}]
Busy(c) == work[c].event.id # 0

Init == log = {} /\ work = [c \in Commands |-> Idle]

----------------------------------------------------------------------------
(* rebuildIntentions: the events of one actor in the order of their keys.   *)

Before(e, f) == e.t < f.t \/ (e.t = f.t /\ e.id < f.id)
Newest(S) == CHOOSE e \in S : \A f \in S \ {e} : Before(f, e)

Empty == [ok |-> TRUE, candidates |-> {}, resolved |-> [c \in Candidates |-> None],
          active |-> {}, used |-> {}, attempts |-> [i \in Intentions |-> 0]]
Reject(p) == [p EXCEPT !.ok = FALSE]

SurfaceOk(p, r) == r.candidate \notin p.candidates
CommitOk(p, r) ==
    /\ r.candidate \in p.candidates /\ p.resolved[r.candidate] = None
    /\ r.intention \notin p.used
    /\ Cardinality(p.active) < MaxCommitted

DeclineOk(p, r) == r.candidate \in p.candidates /\ p.resolved[r.candidate] = None
ActiveOk(p, r) == r.intention \in p.active

Step(p, r) ==
    CASE ~p.ok -> p
      [] p.ok /\ r.type = "surfaced" ->
           IF SurfaceOk(p, r) THEN [p EXCEPT !.candidates = @ \cup {r.candidate}] ELSE Reject(p)
      [] p.ok /\ r.type = "committed" ->
           IF CommitOk(p, r)
           THEN [p EXCEPT !.resolved[r.candidate] = r.intention, !.used = @ \cup {r.intention},
                          !.active = @ \cup {r.intention}, !.attempts[r.intention] = 0]
           ELSE Reject(p)
      [] p.ok /\ r.type = "declined" ->
           IF DeclineOk(p, r) THEN [p EXCEPT !.resolved[r.candidate] = "declined"] ELSE Reject(p)
      [] p.ok /\ r.type = "acted" ->
           IF ActiveOk(p, r) THEN [p EXCEPT !.attempts[r.intention] = @ + 1] ELSE Reject(p)
      [] p.ok /\ r.type = "ended" ->
           IF ActiveOk(p, r) THEN [p EXCEPT !.active = @ \ {r.intention}] ELSE Reject(p)

Rebuild(events, actor) ==
    LET own == {e \in events : e.actor = actor}
        upTo[S \in SUBSET own] ==
            IF S = {} THEN Empty ELSE LET e == Newest(S) IN Step(upTo[S \ {e}], e.record)
    IN  upTo[own]

----------------------------------------------------------------------------
(* The commands.                                                           *)

\* Mutant: only what precedes the new event is replayed.
AcceptsPrefix(seen, e) == Rebuild({f \in seen : Before(f, e)} \cup {e}, e.actor).ok

\* appendSteeringEvent: the replay with the new event in its place.
Accepts(seen, e) == Rebuild(seen \cup {e}, e.actor).ok

Ids == {e.id : e \in log} \cup {work[c].event.id : c \in {d \in Commands : Busy(d)}}
NextId == IF Ids = {} THEN 1 ELSE (CHOOSE n \in Ids : \A k \in Ids : k <= n) + 1

Submit(c, actor, t, r) ==
    LET e == [id |-> NextId, t |-> t, actor |-> actor, record |-> r] IN
    /\ ~Busy(c)
    /\ Cardinality(log) + Cardinality({d \in Commands : Busy(d)}) < MaxEvents
    /\ Accepts(log, e)
    /\ work' = [work EXCEPT ![c] = [event |-> e, seen |-> log]]
    /\ UNCHANGED log

Append(c) ==
    /\ Busy(c) /\ work[c].seen = log
    /\ log' = log \cup {work[c].event}
    /\ work' = [work EXCEPT ![c] = Idle]

\* The store has refused the append; the command runs again, and may fail now.
Retry(c) ==
    /\ Busy(c) /\ work[c].seen # log
    /\ work' = [work EXCEPT ![c] = IF Accepts(log, @.event) THEN [@ EXCEPT !.seen = log] ELSE Idle]
    /\ UNCHANGED log

Next ==
    \E c \in Commands :
       \/ \E actor \in Actors, t \in 1 .. MaxTime, r \in Records : Submit(c, actor, t, r)
       \/ Append(c) \/ Retry(c)

Spec == Init /\ [][Next]_vars

----------------------------------------------------------------------------
\* Every actor's stored decisions replay without an error, whoever recorded them in
\* whatever order and under whatever stamps: no accepted command makes steering
\* unreadable for the others (rebuildIntentions throws on the first bad event).
StoredReplays == \A a \in Actors : Rebuild(log, a).ok

\* What was decided stays decided: a candidate keeps its resolution, an intention that
\* has ended does not come back, and recorded actions are never lost, even when events
\* are later inserted before them.
DecisionsKept ==
    \A a \in Actors : \E old \in {Rebuild(log, a)}, new \in {Rebuild(log', a)} :
          /\ \A c \in Candidates : old.resolved[c] # None => new.resolved[c] = old.resolved[c]
          /\ old.used \ old.active \subseteq new.used \ new.active
          /\ \A i \in Intentions : old.attempts[i] <= new.attempts[i]

----------------------------------------------------------------------------
(***************************************************************************)
(* The homeostatic drives of one actor (packages/fold-drives/src/state.ts): *)
(* levels drift down with time and are raised by entries; time spent in     *)
(* need wears the actor, and enough time in comfort heals it.  Samples of   *)
(* the state are events, from the newest of which a restarted runtime       *)
(* resumes (events.ts).                                                     *)
(*                                                                          *)
(* Levels are integers 0 .. Full, time is in units of a few hours, and an   *)
(* exponential drift rounds down.                                           *)
(***************************************************************************)
CONSTANTS Drives,        \* Drive -> [tier, level, drift, rate, amount: entry type -> amount]
          Entries,       \* types of the entries of the log
          Full,          \* level 1.0
          Critical, Recovery,    \* criticalThreshold, recoveryThreshold
          Saturation, Horizon,   \* tier1SaturationMs, recoveryHorizonMs
          MaxElapsed,       \* bound: elapsed time
          MaxStep        \* bound: longest advance

\* validateWearConfig and validateDrive.
ValidConfig ==
    /\ 0 <= Critical /\ Critical < Recovery /\ Recovery <= Full
    /\ Saturation > 0 /\ Horizon > 0
    /\ \A d \in DOMAIN Drives :
          /\ Drives[d].tier \in Nat \ {0} /\ Drives[d].level \in 0 .. Full
          /\ \A e \in Entries : Drives[d].amount[e] \in 0 .. Full

VARIABLES elapsed, level, below, above, load,
          sample,        \* the newest drive.sampled event
          healed         \* history: time above the recovery threshold since the last time below
driveVars == <<elapsed, level, below, above, load, sample, healed>>
D == DOMAIN Drives

DriveInit ==
    /\ elapsed = 0 /\ load = 0
    /\ level = [d \in D |-> Drives[d].level]
    /\ below = [d \in D |-> 0] /\ above = [d \in D |-> 0]
    /\ healed = [d \in D |-> 0]
    /\ sample = [elapsed |-> 0, level |-> level, below |-> below, above |-> above,
                 load |-> 0, healed |-> healed]

----------------------------------------------------------------------------
Clamp(x) == IF x < 0 THEN 0 ELSE IF x > Full THEN Full ELSE x

applyDrift(d, x, dt) ==
    IF Drives[d].drift = "linear" THEN Clamp(x + Drives[d].rate * dt)
    ELSE Clamp(x \div (2 ^ (dt \div Drives[d].rate)))

wearZone(x) == IF x < Critical THEN "below" ELSE IF x > Recovery THEN "above" ELSE "between"

\* tickTracker: the two fields of a tracker after dt at level x.
TickBelow(b, a, x, dt) ==
    CASE wearZone(x) = "below" -> b + dt
      [] wearZone(x) = "above" -> IF a + dt >= Horizon THEN 0 ELSE b
      [] OTHER -> b

TickAbove(a, x, dt) ==
    CASE wearZone(x) = "below" -> 0
      [] wearZone(x) = "above" -> IF a + dt >= Horizon THEN Horizon ELSE a + dt
      [] OTHER -> a

\* chronicLoad in units of 1 / LoadUnit, per drive: raw * (1 - recovery) * tierWeight.
LoadUnit == 12 * Saturation * Horizon
Least(x, y) == IF x < y THEN x ELSE y
TierSaturation(d) == Saturation * (Drives[d].tier + 1)     \* twice saturationMs

Contribution(d, b, a) ==
    (LoadUnit * Least(TierSaturation(d), 2 * b) * (Horizon - Least(Horizon, a)))
        \div (TierSaturation(d) * Horizon * Drives[d].tier)

\* The divisor, the sum of the tier weights, is the same in every state and left out.
chronicLoad(b, a) == MapThenSumSet(LAMBDA d : Contribution(d, b[d], a[d]), D)

advanceDriveSystem(dt) ==
    /\ elapsed + dt <= MaxElapsed
    /\ elapsed' = elapsed + dt
    /\ level' = [d \in D |-> applyDrift(d, level[d], dt)]
    /\ below' = [d \in D |-> TickBelow(below[d], above[d], level'[d], dt)]
    /\ above' = [d \in D |-> TickAbove(above[d], level'[d], dt)]
    /\ load' = chronicLoad(below', above')
    /\ healed' = [d \in D |->
          CASE wearZone(level'[d]) = "below" -> 0
            [] wearZone(level'[d]) = "above" -> healed[d] + dt
            [] OTHER -> healed[d]]
    /\ UNCHANGED sample

\* A drive asks for the amounts of every binding that matches the entry.
integrateDriveEntry(e) ==
    /\ level' = [d \in D |-> Clamp(level[d] + Drives[d].amount[e])]
    /\ UNCHANGED <<elapsed, below, above, load, sample, healed>>

\* snapshotDriveSystem and makeDriveSampleEvent.
Sample ==
    /\ sample' = [elapsed |-> elapsed, level |-> level, below |-> below, above |-> above,
                  load |-> load, healed |-> healed]
    /\ UNCHANGED <<elapsed, level, below, above, load, healed>>

\* The runtime restarts and resumes from the newest sample.
restoreDriveSystem ==
    /\ elapsed' = sample.elapsed /\ level' = sample.level /\ load' = sample.load
    /\ below' = sample.below /\ above' = sample.above /\ healed' = sample.healed
    /\ UNCHANGED sample

DriveNext ==
    \/ \E dt \in 1 .. MaxStep : advanceDriveSystem(dt)
    \/ \E e \in Entries : integrateDriveEntry(e)
    \/ Sample
    \/ restoreDriveSystem

DriveSpec == DriveInit /\ [][DriveNext]_driveVars

----------------------------------------------------------------------------
DriveTypeOK ==
    /\ elapsed \in 0 .. MaxElapsed
    /\ level \in [D -> 0 .. Full]
    /\ below \in [D -> 0 .. MaxElapsed] /\ above \in [D -> 0 .. Horizon]
    /\ load \in 0 .. LoadUnit * Cardinality(D)

\* The load that samples carry is the load of the trackers beside it: a runtime that
\* resumes from a sample reports what it would have computed.
LoadIsCurrent == load = chronicLoad(below, above)

\* A drive's time in need is forgotten only after a whole recovery horizon in comfort
\* with no time in need between, however the comfort was interrupted.
WearForgiven ==
    [][\A d \in D : elapsed' > elapsed /\ below'[d] < below[d] => healed'[d] >= Horizon]_driveVars

\* While time passes the chronic load goes down only by the comfort of some drive, and
\* goes up only by the need of some drive.
LoadHasCause ==
    [][elapsed' > elapsed =>
          /\ load' < load => \E d \in D : wearZone(level'[d]) = "above"
          /\ load' > load => \E d \in D : wearZone(level'[d]) = "below"]_driveVars
=============================================================================
