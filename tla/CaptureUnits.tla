---------------------------- MODULE CaptureUnits ----------------------------
(***************************************************************************)
(* How the capture daemon cuts a coding session into evaluation units and  *)
(* which outcome it gives each (apps/capture-daemon/src/capture.ts).       *)
(* Hooks append steps; a prompt opens a unit; a stop, the next prompt, the *)
(* end of the session or a timeout closes it and queues one trajectory.  A *)
(* task succeeds only by an operator's verdict about the very attempt and  *)
(* repository revision the trajectory ends with.                           *)
(*                                                                         *)
(* Hooks are applied one at a time and atomically: CaptureReceipts models  *)
(* how.  A step is reduced to its kind and a revision to a number; the     *)
(* operator's verdict names the current context, any other is refused.     *)
(***************************************************************************)
EXTENDS Integers, Sequences, FiniteSets

CONSTANTS Tasks,       \* the comparison keys prompts can carry
          NoTask,      \* a prompt without one
          Tools,       \* keys of tool calls
          Revisions,   \* repository revisions
          NoRevision,  \* the repository has no fingerprint
          Reports,     \* whether hooks report usage, checks, tools or lineage: subset of BOOLEAN
          TreeEvery,   \* events between two tree snapshots
          MaxSteps,    \* bound on the steps of the session
          MaxRestarts, \* bound on the restarts of the daemon
          Legacy       \* step sequences a version 1 session may hold

UnitsAssumption ==
    /\ NoTask \notin Tasks
    /\ NoRevision \notin Revisions
    /\ TreeEvery \in Nat \ {0}

VARIABLES s,        \* the session as the state file holds it
          revision, \* the repository's revision
          jobs,     \* the trajectories queued, in order
          up,       \* the daemon has been initialised
          restarts,
          verdicts  \* every verdict of the operator, stale once a hook announced
                    \* a mutation of the unit after it

vars == <<s, revision, jobs, up, restarts, verdicts>>

None == [task |-> NoTask, attempt |-> 0, revision |-> NoRevision, verdict |-> "none"]

NewSession == [steps |-> <<>>, version |-> 2, unitStart |-> 0, completed |-> 0, through |-> 0,
               acceptance |-> None, explicit |-> "none", pending |-> {}, manifest |-> 0,
               task |-> NoTask, rev |-> NoRevision, finalized |-> FALSE, since |-> 0]

Init ==
    /\ s \in {NewSession} \cup {[NewSession EXCEPT !.steps = l, !.version = 1] : l \in Legacy}
    /\ revision \in Revisions
    /\ jobs = <<>>
    /\ up = FALSE
    /\ restarts = 0
    /\ verdicts = {}

----------------------------------------------------------------------------
(* What the handlers are made of.                                          *)

Step(x, kind) == [x EXCEPT !.steps = Append(@, kind)]

WithoutVerifiedOutcome(x) == [x EXCEPT !.acceptance = None, !.explicit = "none"]

AttemptId(x) == x.completed + 1

UnitStart(x) == IF x.unitStart # 0 THEN x.unitStart ELSE IF x.completed = 0 THEN 1 ELSE 0

HasUnit(x) == UnitStart(x) # 0 /\ UnitStart(x) <= Len(x.steps)

\* Mutant: forgets to move the mark of what has been finalized.
CompleteUnmarked(x) ==
    [x EXCEPT !.unitStart = 0, !.manifest = 0, !.version = 2, !.completed = @ + 1]
CompleteCurrentUnit(x) ==
    [x EXCEPT !.unitStart = 0, !.manifest = 0, !.version = 2, !.completed = @ + 1,
              !.through = Len(x.steps)]

\* The verdict about exactly this task, attempt and final revision.
Accepted(x) ==
    LET a == x.acceptance
    IN  IF a.task = x.task /\ a.attempt = AttemptId(x) /\ a.revision = revision
        THEN a.verdict ELSE "none"

\* A success cannot cover tool calls that have not reported a result yet.
Outcome(x) ==
    LET a == Accepted(x)
    IN  IF a # "none" /\ ~(a = "success" /\ x.pending # {}) THEN a
        ELSE IF x.explicit = "failure" THEN "failure" ELSE "unknown"

\* What enqueueTrajectory queues; pending records whether a tool call was.
Trajectory(x, from, to, reason) ==
    [id |-> AttemptId(x), from |-> from, to |-> to, reason |-> reason, outcome |-> Outcome(x),
     acceptance |-> IF x.manifest # 0 /\ x.acceptance.revision = revision
                    THEN x.acceptance ELSE None,
     pending |-> x.pending # {}, revision |-> revision]

EnqueueTrajectory(x, reason) ==
    IF HasUnit(x) THEN Append(jobs, Trajectory(x, UnitStart(x), Len(x.steps), reason)) ELSE jobs

Closed(x) == IF HasUnit(x) THEN CompleteCurrentUnit(x) ELSE x

BeginAttempt(x) == [x EXCEPT !.rev = revision, !.manifest = AttemptId(x)]

\* The session a hook finds: created by the first one, and counting them all.
EnsureSession ==
    [(IF s.steps = <<>> THEN Step(s, "start") ELSE s)
        EXCEPT !.since = IF @ < TreeEvery THEN @ + 1 ELSE @]

\* ... and its attempt, which every hook but a prompt begins if none is open.
Attempted ==
    LET x == EnsureSession
    IN  IF x.manifest = 0 /\ ~x.finalized /\ (x.unitStart # 0 \/ x.completed = 0)
        THEN BeginAttempt(x) ELSE x

\* The end of ingestInternal: a periodic tree snapshot, and the state saved.
Save(x, name) ==
    s' = IF /\ name \notin {"SessionEnd", "Stop"}
            /\ x.unitStart # 0 /\ x.task # NoTask /\ x.since >= TreeEvery
         THEN [x EXCEPT !.since = 0] ELSE x

\* The record of a verdict, and what a mutation makes of the open unit's.
Given(x, r, verdict) ==
    [step |-> Len(x.steps), revision |-> r, verdict |-> verdict, stale |-> FALSE]
Stale ==
    {[d EXCEPT !.stale = @ \/ jobs = <<>> \/ d.step > jobs[Len(jobs)].to] : d \in verdicts}

Room == up /\ Len(s.steps) + 3 <= MaxSteps

----------------------------------------------------------------------------
(* Hooks.                                                                  *)

\* A prompt closes the unit that is still open, without its verdicts, and
\* opens the next one; a hook that reports usage adds a step before it.
UserPromptSubmit(task, usage) ==
    /\ Room
    /\ LET e == EnsureSession
           open == e.unitStart # 0 /\ HasUnit(e)
           x == IF open THEN CompleteCurrentUnit(WithoutVerifiedOutcome(e)) ELSE e
           n == [WithoutVerifiedOutcome(x) EXCEPT !.unitStart = Len(x.steps) + 1, !.task = task,
                                                  !.manifest = 0]
           b == BeginAttempt(n)
           u == IF usage THEN Step(b, "note") ELSE b
       IN  /\ jobs' = IF open THEN EnqueueTrajectory(WithoutVerifiedOutcome(e), "prompt-boundary")
                      ELSE jobs
           /\ Save(Step(u, "prompt"), "UserPromptSubmit")
    /\ UNCHANGED <<revision, up, restarts, verdicts>>

\* Starting a mutation invalidates any verdict recorded for the revision.
PreToolUse(tool, edits) ==
    /\ Room
    /\ LET x == IF edits THEN WithoutVerifiedOutcome(Attempted) ELSE Attempted
           y == Step([x EXCEPT !.pending = @ \cup {tool}], "call")
       IN  Save(y, "PreToolUse")
    /\ verdicts' = IF edits THEN Stale ELSE verdicts
    /\ UNCHANGED <<revision, jobs, up, restarts>>

\* The repository is looked at again after every tool; a change since the
\* last look counts as a mutation whatever the tool.
PostToolUse(tool, edits, verifies) ==
    /\ Room
    /\ LET a == Attempted
           changed == a.rev # revision
           x == Step([a EXCEPT !.pending = @ \ {tool}, !.rev = revision], "result")
           y == IF edits \/ changed THEN WithoutVerifiedOutcome(x) ELSE x
       IN  /\ Save(IF verifies THEN Step(y, "note") ELSE y, "PostToolUse")
           /\ verdicts' = IF edits \/ changed THEN Stale ELSE verdicts
    /\ UNCHANGED <<revision, jobs, up, restarts>>

FileChanged ==
    /\ Room
    /\ Save(WithoutVerifiedOutcome(Attempted), "FileChanged")
    /\ verdicts' = Stale
    /\ UNCHANGED <<revision, jobs, up, restarts>>

\* A Hermes step names the tools it has used, without pending calls.
HermesStep(named) ==
    /\ Room
    /\ Save(IF named THEN Step(Attempted, "call") ELSE Attempted, "HermesStep")
    /\ UNCHANGED <<revision, jobs, up, restarts, verdicts>>

\* Other harness events: compactions and handoffs leave a step.
HarnessEvent(lineage) ==
    /\ Room
    /\ Save(IF lineage THEN Step(Attempted, "note") ELSE Attempted, "HarnessEvent")
    /\ UNCHANGED <<revision, jobs, up, restarts, verdicts>>

\* Permission requests, notifications, reasoning checkpoints and steering
\* leave a step and nothing else.
Note ==
    /\ Room
    /\ Save(Step(Attempted, "note"), "Note")
    /\ UNCHANGED <<revision, jobs, up, restarts, verdicts>>

\* A verdict must name the active task, the attempt and the current revision,
\* which must have a fingerprint.
HumanDecision(verdict) ==
    /\ Room
    /\ revision # NoRevision
    /\ LET x == Step([Attempted EXCEPT !.rev = revision], "verdict")
           a == [task |-> x.task, attempt |-> AttemptId(x), revision |-> revision, verdict |-> verdict]
       IN  /\ Save([x EXCEPT !.acceptance = a, !.explicit = verdict], "HumanDecision")
           /\ verdicts' = verdicts \cup {Given(x, revision, verdict)}
    /\ UNCHANGED <<revision, jobs, up, restarts>>

Stop ==
    /\ Room
    /\ LET x == Step(Attempted, "done")
       IN  /\ jobs' = EnqueueTrajectory(x, "stop")
           /\ Save(Closed(x), "Stop")
    /\ UNCHANGED <<revision, up, restarts, verdicts>>

StopFailure ==
    /\ Room
    /\ LET x == [Step(Attempted, "failed") EXCEPT !.explicit = "failure"]
       IN  /\ jobs' = EnqueueTrajectory(x, "stop")
           /\ Save(Closed(x), "StopFailure")
    /\ UNCHANGED <<revision, up, restarts, verdicts>>

\* Only the first end of a session finalizes it.
SessionEnd ==
    /\ Room
    /\ LET x == Attempted
           y == IF x.finalized THEN x ELSE Closed(x)
       IN  /\ jobs' = IF x.finalized THEN jobs ELSE EnqueueTrajectory(x, "session-end")
           /\ Save([y EXCEPT !.finalized = TRUE], "SessionEnd")
    /\ UNCHANGED <<revision, up, restarts, verdicts>>

----------------------------------------------------------------------------
(* What happens without a hook.                                            *)

\* The heartbeat finalizes a session that was silent for too long.
FinalizeOrphan ==
    /\ up
    /\ s.steps # <<>>
    /\ ~s.finalized
    /\ LET x == [WithoutVerifiedOutcome(s) EXCEPT !.finalized = TRUE]
       IN  /\ jobs' = EnqueueTrajectory(x, "orphan-timeout")
           /\ s' = Closed(x)
    /\ UNCHANGED <<revision, up, restarts, verdicts>>

\* The repository changes on its own, or its fingerprint becomes unavailable.
Change(r) ==
    /\ up
    /\ revision' = r
    /\ r # revision
    /\ UNCHANGED <<s, jobs, up, restarts, verdicts>>

IsBoundary(kind) == kind \in {"done", "failed"}

\* A version 1 session is counted anew, with the prompt nothing has answered
\* as its open unit.
MigrateEvaluationUnits(x) ==
    LET ends == {i \in 1..Len(x.steps) : IsBoundary(x.steps[i])}
        prompts == {i \in 1..Len(x.steps) : x.steps[i] = "prompt" /\ \A e \in ends : e < i}
        open == {i \in prompts : \A j \in prompts : j <= i}
    IN  IF x.version = 2 THEN x
        ELSE [x EXCEPT !.version = 2, !.completed = 0, !.through = 0,
                       !.unitStart = IF open = {} THEN 0 ELSE CHOOSE i \in open : TRUE]

\* The units closed by the steps after the finalized ones: [from, to, reason].
ClosedEvaluationUnits(x) ==
    LET scan[i \in 0..Len(x.steps)] ==
          IF i <= x.through THEN [start |-> 0, last |-> x.through, units |-> <<>>]
          ELSE LET p == scan[i - 1]
                   k == x.steps[i]
                   unit(from, to, reason) ==
                     Append(p.units, [from |-> from, to |-> to, reason |-> reason])
               IN  IF k = "prompt"
                   THEN IF p.start # 0
                        THEN [start |-> i, last |-> i - 1,
                              units |-> unit(p.start, i - 1, "prompt-boundary")]
                        ELSE [p EXCEPT !.start = i]
                   ELSE IF IsBoundary(k)
                   THEN [start |-> 0, last |-> i,
                         units |-> unit(IF p.start # 0 THEN p.start ELSE p.last + 1, i, "stop")]
                   ELSE p
    IN  scan[Len(x.steps)].units

\* Each is queued without verdicts, a harness failure at its boundary excepted.
Backfilled(x, units) ==
    [i \in 1..Len(units) |->
        LET u == units[i]
            y == [WithoutVerifiedOutcome(x) EXCEPT
                    !.completed = x.completed + i - 1,
                    !.explicit = IF u.reason = "stop" /\ x.steps[u.to] = "failed"
                                 THEN "failure" ELSE "none"]
        IN  Trajectory(y, u.from, u.to, u.reason)]

\* initialize: migrate the session and queue what its retained steps close.
Initialize ==
    LET x == MigrateEvaluationUnits(s)
        units == ClosedEvaluationUnits(x)
        n == Len(units)
    IN  /\ jobs' = jobs \o Backfilled(x, units)
        /\ s' = [x EXCEPT !.completed = @ + n,
                          !.through = IF n = 0 THEN @ ELSE units[n].to]
        /\ up' = TRUE

Start ==
    /\ ~up
    /\ Initialize
    /\ UNCHANGED <<revision, restarts, verdicts>>

Restart ==
    /\ up
    /\ restarts < MaxRestarts
    /\ restarts' = restarts + 1
    /\ Initialize
    /\ UNCHANGED <<revision, verdicts>>

Hook ==
    \/ \E task \in Tasks \cup {NoTask}, usage \in Reports : UserPromptSubmit(task, usage)
    \/ \E tool \in Tools, edits \in BOOLEAN : PreToolUse(tool, edits)
    \/ \E tool \in Tools, edits \in BOOLEAN, verifies \in Reports : PostToolUse(tool, edits, verifies)
    \/ FileChanged
    \/ Note
    \/ \E named \in Reports : HermesStep(named)
    \/ \E lineage \in Reports : HarnessEvent(lineage)
    \/ \E verdict \in {"success", "failure"} : HumanDecision(verdict)
    \/ Stop
    \/ StopFailure
    \/ SessionEnd

Next ==
    \/ Hook
    \/ FinalizeOrphan
    \/ \E r \in Revisions \cup {NoRevision} : Change(r)
    \/ Start
    \/ Restart

Spec == Init /\ [][Next]_vars

----------------------------------------------------------------------------
(* Properties.                                                             *)

Covers(t, i) == t.from <= i /\ i <= t.to

\* A trajectory is a success only if, within its own steps, the operator's
\* last verdict approved the very revision it ended with, nothing was mutated
\* after that verdict and every tool had reported (capture.ts:1523-1529).
SuccessVerified ==
    \A j \in 1..Len(jobs) :
        LET t == jobs[j]
            own == {d \in verdicts : Covers(t, d.step)}
        IN  t.outcome = "success" =>
                /\ ~t.pending
                /\ \E d \in own : /\ d.verdict = "success"
                                  /\ d.revision = t.revision
                                  /\ ~d.stale
                                  /\ \A e \in own : e.step <= d.step

\* Trajectories number the attempts without gap and never share a step, also
\* across restarts that queue retained units (capture.ts:1237).
UnitsDisjoint ==
    \A j \in 1..Len(jobs) :
        /\ jobs[j].id = j
        /\ jobs[j].from <= jobs[j].to
        /\ j > 1 => jobs[j - 1].to < jobs[j].from

\* No prompt is lost: once a response or another prompt has followed it, a
\* trajectory covers it (capture.ts:679, 1053).
PromptsCovered ==
    up => \A i \in 1..Len(s.steps) :
              (s.steps[i] = "prompt" /\ \E k \in i + 1..Len(s.steps) :
                                           IsBoundary(s.steps[k]) \/ s.steps[k] = "prompt")
              => \E j \in 1..Len(jobs) : Covers(jobs[j], i)

\* A named unit of a live session never goes TreeEvery events without a
\* snapshot of its tree (capture.ts:1095-1110).
SnapshotsRegular ==
    s.unitStart # 0 /\ s.task # NoTask /\ ~s.finalized /\ up => s.since < TreeEvery
=============================================================================
