------------------------------ MODULE ModelJobs ------------------------------
(***************************************************************************)
(* The model lane of the memory worker (worker.ts). An episode job owns a   *)
(* window of sources: it checks them, has the API prepare an episode,       *)
(* keeps the prepared output and publishes it; a window that is too large   *)
(* loses its optional context and is then split in two. A synthesis job     *)
(* asks the model about exact memory revisions and admits a proposal.       *)
(* Sources are hidden and shown, episodes and memories revised, answers     *)
(* lost and the worker dies between any two of its steps.                   *)
(***************************************************************************)
EXTENDS Naturals, FiniteSets

CONSTANTS
  Sources,      \* the scheduled window has sources 1..Sources
  Manual,       \* intervals <<lo, hi>> an operator may queue
  Budget,       \* how many sources the model input holds; context takes the place of one
  Heavy,        \* sources that are too large by themselves
  MaxActive, MaxAttempts,
  Memories,     \* the memories a synthesis may cite
  MaxRevision, MaxHead, MaxFaults

VARIABLES
  job,          \* window -> state, attempts, context, prepared
  hidden,       \* sources the worker may not read now
  published,    \* window -> what was stored for it
  head,         \* revision of the project's latest episode, 0 if there is none
  policy,       \* the configured policy is the one of the windows
  revision,     \* memory -> current revision, 0 once forgotten
  provider,     \* configuration of the model provider
  synthesis,    \* the synthesis job; seen: the revisions current when its answer came
  proposals,    \* what synthesis handed to enqueueCandidates
  lane,         \* what the lane is doing
  faults

episodeVars == <<job, published, head>>
worldVars == <<hidden, policy, revision, provider>>
synthesisVars == <<synthesis, proposals>>
vars == <<episodeVars, worldVars, synthesisVars, lane, faults>>

Idle == [pc |-> "idle"]
Terminal == {"completed", "excluded", "exhausted"}
NoJob == [state |-> "absent", attempts |-> 0, context |-> "unread", prepared |-> "none", base |-> 0]
NewJob == [NoJob EXCEPT !.state = "pending"]

(* A window is named by where its sources came from and which they are. *)
Windows == {w \in {"scheduled", "manual"} \X (1..Sources) \X (1..Sources) : w[2] <= w[3]}
SourcesOf(w) == w[2]..w[3]
Size(w) == w[3] - w[2] + 1
Halves(w) == LET middle == w[2] + (Size(w) + 1) \div 2
             IN  << <<w[1], w[2], middle - 1>>, <<w[1], middle, w[3]>> >>

Init ==
  /\ job = [w \in Windows |-> NoJob]
  /\ hidden = {} /\ published = {} /\ head = 0 /\ policy = TRUE
  /\ revision = [m \in Memories |-> 1] /\ provider = 1
  /\ synthesis = [state |-> "absent", attempts |-> 0, refs |-> <<>>, provider |-> 1, answer |-> "none",
                  seen |-> <<>>]
  /\ proposals = {} /\ lane = Idle /\ faults = 0

-----------------------------------------------------------------------------
(* The ledger: a job is admitted once, and none while it is full. *)
Admitted(w) == job[w].state # "absent"
Active == {w \in Windows : Admitted(w) /\ job[w].state \notin Terminal}
Full == Cardinality(Active) >= MaxActive
Enqueued(w) == IF Admitted(w) THEN job ELSE [job EXCEPT ![w] = NewJob]

(* The scheduler delivers its window; an operator queues chosen sources, all of
   which must be readable. *)
Deliver ==
  /\ ~Full /\ job' = Enqueued(<<"scheduled", 1, Sources>>)
  /\ UNCHANGED <<published, head, worldVars, synthesisVars, lane, faults>>
QueueEpisodeSources(i) ==
  /\ ~Full /\ i[1]..i[2] \cap hidden = {}
  /\ job' = Enqueued(<<"manual", i[1], i[2]>>)
  /\ UNCHANGED <<published, head, worldVars, synthesisVars, lane, faults>>

(* failJob: retries are counted, and an episode that used them up is left to the
   operator. *)
Failed(j, state) ==
  LET attempts == j.attempts + (IF state = "retry" THEN 1 ELSE 0)
  IN  [j EXCEPT !.attempts = attempts,
                !.state = IF state = "retry" /\ attempts >= MaxAttempts THEN "blocked" ELSE state]
Fail(state) == job' = [job EXCEPT ![lane.w] = Failed(@, state)] /\ lane' = Idle

Step(pc) == lane' = [lane EXCEPT !.pc = pc]
InEpisode == UNCHANGED <<worldVars, synthesisVars>>

TakeEpisode(w) ==
  /\ lane = Idle /\ job[w].state \in {"pending", "waiting", "retry"}
  /\ IF policy THEN lane' = [pc |-> "check", w |-> w, at |-> w[2]] /\ UNCHANGED job
     ELSE job' = [job EXCEPT ![w] = Failed(@, "blocked")] /\ UNCHANGED lane
  /\ InEpisode /\ UNCHANGED <<published, head, faults>>

(* authorizedSource, one request for each source. *)
CheckSource ==
  /\ lane.pc = "check"
  /\ \/ lane.at \in hidden /\ Fail("waiting")
     \/ /\ lane.at \notin hidden /\ UNCHANGED job
        /\ lane' = IF lane.at < lane.w[3] THEN [lane EXCEPT !.at = @ + 1]
                   ELSE [lane EXCEPT !.pc = IF job[lane.w].prepared = "kept" THEN "publish" ELSE "context"]
  /\ InEpisode /\ UNCHANGED <<published, head, faults>>

(* The context is chosen once and kept with the job. *)
ReadContext ==
  /\ lane.pc = "context"
  /\ job' = [job EXCEPT ![lane.w].context =
               IF @ # "unread" THEN @ ELSE IF head > 0 THEN "some" ELSE "empty"]
  /\ Step("prepare")
  /\ InEpisode /\ UNCHANGED <<published, head, faults>>

(* synthesizeEpisodeWindow: refused for hidden sources (403) and for a window over
   the budget (413), and failing with the model or the context (502, 409); the prepared
   episode names the revision of its context. *)
TooLarge(w) == \/ Size(w) + (IF job[w].context = "some" THEN 1 ELSE 0) > Budget
               \/ SourcesOf(w) \cap Heavy # {}
Prepare ==
  /\ lane.pc = "prepare"
  /\ \/ SourcesOf(lane.w) \cap hidden # {} /\ Fail("waiting") /\ UNCHANGED faults
     \/ faults < MaxFaults /\ faults' = faults + 1 /\ Fail("retry")
     \/ /\ SourcesOf(lane.w) \cap hidden = {} /\ TooLarge(lane.w)
        /\ Step("too large") /\ UNCHANGED <<job, faults>>
     \/ /\ SourcesOf(lane.w) \cap hidden = {} /\ ~TooLarge(lane.w)
        /\ lane' = [pc |-> "keep", w |-> lane.w,
                    base |-> IF job[lane.w].context = "some" THEN head ELSE 0]
        /\ UNCHANGED <<job, faults>>
  /\ InEpisode /\ UNCHANGED <<published, head>>
Keep ==
  /\ lane.pc = "keep"
  /\ job' = [job EXCEPT ![lane.w].prepared = "kept", ![lane.w].base = lane.base]
  /\ Step("publish")
  /\ InEpisode /\ UNCHANGED <<published, head, faults>>

(* The refusal of a large window: without its context first, then in halves. *)
DropContext ==
  /\ lane.pc = "too large" /\ job[lane.w].context = "some"
  /\ job' = [job EXCEPT ![lane.w] = Failed([@ EXCEPT !.context = "empty"], "waiting")]
  /\ lane' = Idle
  /\ InEpisode /\ UNCHANGED <<published, head, faults>>
SingleTooLarge ==
  /\ lane.pc = "too large" /\ job[lane.w].context # "some" /\ Size(lane.w) = 1
  /\ Fail("blocked")
  /\ InEpisode /\ UNCHANGED <<published, head, faults>>
NextPc(half) == IF half = 1 THEN "second half" ELSE "done"
AdmitHalf(half) ==
  LET w == Halves(lane.w)[half]
  IN  \/ w[3] \in hidden /\ Fail("waiting")
      \/ w[3] \notin hidden /\ Full /\ ~Admitted(w) /\ Fail("retry")
      \/ /\ w[3] \notin hidden /\ (~Full \/ Admitted(w))
         /\ job' = Enqueued(w) /\ Step(NextPc(half))
SplitFirst ==
  /\ lane.pc = "too large" /\ job[lane.w].context # "some" /\ Size(lane.w) > 1
  /\ AdmitHalf(1)
  /\ InEpisode /\ UNCHANGED <<published, head, faults>>
SplitSecond ==
  /\ lane.pc = "second half" /\ AdmitHalf(2)
  /\ InEpisode /\ UNCHANGED <<published, head, faults>>

(* publishEpisodeWindow: the sources must be readable; a stored window answers its
   retry; a context that was revised since is a conflict (409), which discards the
   prepared output. An episode revises its context or is a new one. *)
Stale(w) == job[w].base # 0 /\ job[w].base # head
HeadAfter(w) == IF head = 0 THEN {1} ELSE IF job[w].base = 0 THEN {head} ELSE {head, head + 1}
Publish ==
  /\ lane.pc = "publish"
  /\ LET w == lane.w
     IN  \/ SourcesOf(w) \cap hidden # {} /\ Fail("waiting") /\ UNCHANGED <<published, head, faults>>
         \/ /\ SourcesOf(w) \cap hidden = {} /\ w \in published
            /\ Step("done") /\ UNCHANGED <<job, published, head, faults>>
         \/ /\ SourcesOf(w) \cap hidden = {} /\ w \notin published /\ Stale(w)
            /\ Step("conflict") /\ UNCHANGED <<job, published, head, faults>>
         \/ /\ SourcesOf(w) \cap hidden = {} /\ w \notin published /\ ~Stale(w)
            /\ published' = published \cup {w} /\ head' \in HeadAfter(w) \cap (0..MaxHead)
            /\ \/ Step("done") /\ UNCHANGED <<job, faults>>
               \/ faults < MaxFaults /\ faults' = faults + 1 /\ Fail("retry")
  /\ InEpisode
Discard ==
  /\ lane.pc = "conflict"
  /\ job' = [job EXCEPT ![lane.w] = Failed([@ EXCEPT !.prepared = "none", !.context = "unread", !.base = 0],
                                           "retry")]
  /\ lane' = Idle
  /\ InEpisode /\ UNCHANGED <<published, head, faults>>

CompleteEpisode ==
  /\ lane.pc = "done"
  /\ job' = [job EXCEPT ![lane.w].state = "completed"] /\ lane' = Idle
  /\ InEpisode /\ UNCHANGED <<published, head, faults>>

-----------------------------------------------------------------------------
(* planSynthesis: the job is named by the prompt, the provider and the revisions. *)
PlanSynthesis ==
  /\ synthesis.state = "absent" /\ \A m \in Memories : revision[m] > 0
  /\ synthesis' = [synthesis EXCEPT !.state = "pending", !.refs = revision, !.provider = provider]
  /\ UNCHANGED <<episodeVars, worldVars, proposals, lane, faults>>

InSynthesis == UNCHANGED <<episodeVars, worldVars>>
FailedSynthesis(state) ==
  LET attempts == synthesis.attempts + (IF state = "retry" THEN 1 ELSE 0)
  IN  [synthesis EXCEPT !.attempts = attempts,
         !.state = IF state = "retry" /\ attempts >= MaxAttempts THEN "exhausted" ELSE state]
FailSynthesis(state) == synthesis' = FailedSynthesis(state) /\ lane' = Idle

TakeSynthesis ==
  /\ lane = Idle /\ synthesis.state \in {"pending", "waiting", "retry"}
  /\ IF provider = synthesis.provider
     THEN lane' = [pc |-> "refs", todo |-> Memories] /\ UNCHANGED synthesis
     ELSE synthesis' = FailedSynthesis("excluded") /\ UNCHANGED lane
  /\ InSynthesis /\ UNCHANGED <<proposals, faults>>

(* Every cited revision is read before the question and again after the answer. *)
StillCited(m) == revision[m] = synthesis.refs[m]
CheckRef(m) ==
  /\ lane.pc \in {"refs", "refs again"} /\ m \in lane.todo
  /\ IF StillCited(m) THEN lane' = [lane EXCEPT !.todo = @ \ {m}] /\ UNCHANGED synthesis
     ELSE FailSynthesis("excluded")
  /\ InSynthesis /\ UNCHANGED <<proposals, faults>>

(* askReasoning, unless an answer was kept: it takes long, may fail, and may cite
   what it was not given. The answer remembers what was current when it was kept. *)
AskReasoning ==
  /\ lane.pc = "refs" /\ lane.todo = {}
  /\ \/ synthesis.answer # "none" /\ lane' = [pc |-> "refs again", todo |-> Memories] /\ UNCHANGED <<synthesis, faults>>
     \/ synthesis.answer = "none" /\ lane' = [pc |-> "asked"] /\ UNCHANGED <<synthesis, faults>>
  /\ InSynthesis /\ UNCHANGED proposals
Answered ==
  /\ lane.pc = "asked"
  /\ \/ \E a \in {"cites", "invents"} :
          /\ synthesis' = [synthesis EXCEPT !.answer = a, !.seen = revision]
          /\ lane' = [pc |-> "refs again", todo |-> Memories] /\ UNCHANGED faults
     \/ faults < MaxFaults /\ faults' = faults + 1 /\ FailSynthesis("retry")
  /\ InSynthesis /\ UNCHANGED proposals

Propose ==
  /\ lane.pc = "refs again" /\ lane.todo = {}
  /\ IF synthesis.answer = "cites"
     THEN /\ proposals' = proposals \cup {synthesis.refs}
          /\ synthesis' = [synthesis EXCEPT !.state = "completed"] /\ lane' = Idle
     ELSE FailSynthesis("excluded") /\ UNCHANGED proposals
  /\ InSynthesis /\ UNCHANGED faults

-----------------------------------------------------------------------------
(* Everyone else. *)
Hide(i) ==
  /\ hidden' = IF i \in hidden THEN hidden \ {i} ELSE hidden \cup {i}
  /\ faults < MaxFaults /\ faults' = faults + 1
  /\ UNCHANGED <<episodeVars, policy, revision, provider, synthesisVars, lane>>
OtherPublishes ==
  /\ head < MaxHead /\ head' = head + 1
  /\ UNCHANGED <<job, published, worldVars, synthesisVars, lane, faults>>
Revise(m) ==
  /\ revision[m] \in 1..(MaxRevision - 1)
  /\ revision' = [revision EXCEPT ![m] = @ + 1]
  /\ UNCHANGED <<episodeVars, hidden, policy, provider, synthesisVars, lane, faults>>
Configure ==
  /\ provider = 1 /\ provider' = 2
  /\ UNCHANGED <<episodeVars, hidden, policy, revision, synthesisVars, lane, faults>>

(* retryBlocked, by an operator. *)
Retriable == {"blocked", "waiting", "retry"}
RetryBlocked ==
  /\ \E w \in Windows : job[w].state = "blocked"
  /\ faults < MaxFaults /\ faults' = faults + 1
  /\ job' = [w \in Windows |-> IF job[w].state \in Retriable
                               THEN [job[w] EXCEPT !.state = "pending", !.attempts = 0] ELSE job[w]]
  /\ UNCHANGED <<published, head, worldVars, synthesisVars, lane>>

(* The worker dies and is started again, with the same or another policy. *)
Restart ==
  /\ faults < MaxFaults /\ faults' = faults + 1
  /\ lane' = Idle /\ policy' \in BOOLEAN
  /\ UNCHANGED <<episodeVars, hidden, revision, provider, synthesisVars>>

EpisodeNext ==
  \/ Deliver \/ \E i \in Manual : QueueEpisodeSources(i)
  \/ \E w \in Windows : TakeEpisode(w)
  \/ CheckSource \/ ReadContext \/ Prepare \/ Keep
  \/ DropContext \/ SingleTooLarge \/ SplitFirst \/ SplitSecond
  \/ Publish \/ Discard \/ CompleteEpisode
  \/ \E i \in 1..Sources : Hide(i)
  \/ OtherPublishes \/ RetryBlocked
SynthesisNext ==
  \/ PlanSynthesis \/ TakeSynthesis
  \/ \E m \in Memories : CheckRef(m) \/ Revise(m)
  \/ AskReasoning \/ Answered \/ Propose \/ Configure
Next == EpisodeNext \/ SynthesisNext \/ Restart

Spec == Init /\ [][Next]_vars

-----------------------------------------------------------------------------
(* No source of an admitted window is dropped: it is in a published window or in one
   that is still to be worked on, whatever was split, refused or retried. *)
SourcesOwned ==
  \A w \in Windows : Admitted(w) =>
    \A i \in SourcesOf(w) :
      \E v \in published \cup Active : v[1] = w[1] /\ i \in SourcesOf(v)

(* A source is published in one window of those that were split from one another. *)
PublishedDisjoint ==
  \A v, w \in published : v[1] = w[1] /\ v # w =>
    \/ SourcesOf(v) \cap SourcesOf(w) = {}
    \/ {<<v[2], v[3]>>, <<w[2], w[3]>>} \subseteq Manual

(* A window that was published is not given to the model again: the prepared output
   is kept before it is sent. *)
NoSecondCall == lane'.pc = "keep" /\ lane.pc = "prepare" => lane.w \notin published

(* What synthesis proposes cites revisions that were current when the answer came, which
   took long, and may have been kept over a restart. *)
ProposedCurrent == \A p \in proposals : p = synthesis.seen
=============================================================================
