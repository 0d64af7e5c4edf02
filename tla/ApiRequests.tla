---------------------------- MODULE ApiRequests ----------------------------
(***************************************************************************)
(* How the HTTP API serves a request (apps/api/src/server.ts,               *)
(* handleRequest).  A request is authenticated, its access to the workspace *)
(* resolved, the credential's capability compared with the route's, and     *)
(* then the route's own program runs: the conditions, awaits and effects    *)
(* of its branch, in their order.  Every word of a program is a step of its *)
(* own, so memberships, scopes and evidence may change in between.          *)
(*                                                                          *)
(*   body      the request body is read                                     *)
(*   orgAdmin, steer, human, manage, author, authority, space               *)
(*             a condition on the access or the credential                  *)
(*   read      stored data is read with the access held                     *)
(*   provider  a ranker, model or diagnostic outside the process is awaited *)
(*   fresh     the membership is resolved again, reauth the credential too  *)
(*   review, eventRefs                                                      *)
(*             a condition that only some bodies ask for                    *)
(*   same      the fresh access is the one the data was read with           *)
(*   pinned    the evidence read is unchanged and readable                  *)
(*   write, cursor, admin, offer                                            *)
(*             the log, a consumer's cursor, a tenancy table is changed, or *)
(*             a delivery record appended (which may fail)                  *)
(*                                                                          *)
(* Event streams and their limits are in EventStream.                       *)
(***************************************************************************)
EXTENDS Naturals, Sequences, FiniteSets

CONSTANTS Requests,     \* requests in flight, each used once
          Principals,
          Human,        \* the principals whose author is a person
          Scopes,       \* the capabilities of each principal, or Unscoped
          Unscoped,     \* a credential without a list of capabilities
          Active,       \* the routes that are called
          MaxChanges    \* bound on changes of membership or scope

NoAccess == [org |-> "none", ws |-> "none"]
\* The access of audited support: an owner who is no member.
Platform == [org |-> "platform", ws |-> "owner"]
Accesses == {NoAccess} \cup [org : {"member", "admin"}, ws : {"member", "admin"}]

----------------------------------------------------------------------------
(* The routes: method, capability and program.                             *)

Route(method, capability, steps) == [method |-> method, capability |-> capability, steps |-> steps]
Get(capability) == Route("GET", capability, <<"read">>)
Post(capability, steps) == Route("POST", capability, steps)

OperationsRoute == Route("GET", "none", <<"operator", "orgAdmin", "provider", "reauth", "operator", "orgAdmin">>)
IdentityRoute == Route("GET", "none", <<>>)
EvaluationRoute == Post("memories:read", <<"body", "eventRefs", "fresh", "read", "fresh", "same">>)
SynthesizeRoute == Post("reasoning:read", <<"eventScope", "body", "read", "provider", "reauth", "eventScope", "pinned">>)
EpisodeRoutes == [episodes |-> Route("GET", "memories:read", <<"eventScope", "read">>),
                  publishEpisodes |-> Post("memories:write", <<"eventScope", "body", "write">>)]
BindingsRoute == Post("organization:admin", <<"orgAdmin", "body", "admin">>)
IdentityAuditRoute == Route("GET", "organization:admin", <<"orgAdmin", "read">>)
AuditRoute == Route("GET", "organization:admin", <<"orgAdmin", "read">>)
EnrollmentRoute == Post("organization:admin", <<"orgAdmin", "body", "admin">>)
ConsumerRoutes == [consumer |-> Get("consumers:read"),
                   commitCursor |-> Post("consumers:write", <<"body", "cursor">>),
                   resetCursor |-> Post("consumers:write", <<"body", "steer", "cursor", "read">>)]
IdentitiesRoutes == [identities |-> Get("events:read"),
                     previewAlias |-> Post("organization:admin", <<"manage", "body", "read">>),
                     reviseIdentity |-> Post("organization:admin", <<"manage", "body", "write">>)]
EventRoutes == [events |-> Get("events:read"),
                append |-> Post("events:write", <<"body", "author", "write">>)]
QualityRoute == Get("events:read")
ProjectionRoute == Get("events:read")
OriginsRoute == Post("transcripts:read", <<"body", "read">>)
TaskRoutes == [taskEvidence |-> Get("trajectories:read"),
               taskManifest |-> Post("trajectories:write", <<"body", "space", "write">>),
               taskOutcome |-> Post("task-outcomes:write", <<"body", "space", "authority", "write">>),
               taskIntervention |-> Post("task-interventions:write", <<"body", "space", "authority", "write">>)]
TrajectoryRoutes == [tasks |-> Get("trajectories:read"),
                     recordTree |-> Post("trajectories:write", <<"body", "write">>)]
FleetRoute == Get("fleet:read")
TranscriptRoutes == [transcripts |-> Get("transcripts:read"),
                     derive |-> Post("transcripts:write", <<"steer", "body", "read", "write">>),
                     importTranscript |-> Post("transcripts:write", <<"steer", "body", "read", "write">>)]
SteeringRoutes == [steering |-> Get("steering:read"),
                   steer |-> Post("steering:write", <<"steer", "body", "write">>)]
AskRoute == Post("reasoning:read", <<"body", "read", "provider", "fresh", "pinned", "offer">>)
ProvidersRoute == Get("reasoning:read")
TaskReadRoutes == [taskTree |-> Get("trajectories:read"), taskReport |-> Get("trajectories:read")]
OutcomeRoutes == [outcomes |-> Get("trajectories:read"),
                  reviewOutcome |-> Post("trajectories:review", <<"human", "body", "write">>),
                  recordTrajectory |-> Post("trajectories:write", <<"body", "write">>)]
CandidateRoutes == [candidates |-> Get("memories:read"),
                    propose |-> Post("memories:write", <<"body", "write">>),
                    promote |-> Post("memories:write", <<"body", "read", "review", "write">>),
                    decide |-> Post("memories:write", <<"read", "review", "body", "write">>)]
RecallRoute == Post("memories:read", <<"body", "read">>)
SearchRoute == Post("memories:read", <<"body", "read", "provider", "fresh", "pinned">>)
MemoryListRoutes == [memories |-> Get("memories:read"),
                     record |-> Post("memories:write", <<"body", "write">>)]
FeedbackRoutes == [feedbackBatch |-> Post("feedback:write", <<"body", "write">>),
                   memoryEvidence |-> Get("memories:read"), feedbackSummary |-> Get("memories:read"),
                   contribute |-> Post("memories:write", <<"read", "body", "write">>),
                   feedback |-> Post("feedback:write", <<"read", "body", "write">>)]
MemoryRoutes == [memory |-> Get("memories:read"),
                 revise |-> Route("PATCH", "memories:write", <<"read", "body", "write">>),
                 forget |-> Route("DELETE", "memories:write", <<"read", "body", "write">>)]

\* One function from the groups and the single routes.
Merge(f, g) == [x \in DOMAIN f \cup DOMAIN g |-> IF x \in DOMAIN f THEN f[x] ELSE g[x]]
Single == [operations |-> OperationsRoute, identity |-> IdentityRoute, evaluation |-> EvaluationRoute,
           synthesize |-> SynthesizeRoute, bindings |-> BindingsRoute, audit |-> AuditRoute, identityAudit |-> IdentityAuditRoute,
           enroll |-> EnrollmentRoute, quality |-> QualityRoute, projection |-> ProjectionRoute,
           origins |-> OriginsRoute, fleet |-> FleetRoute, ask |-> AskRoute,
           providers |-> ProvidersRoute, recall |-> RecallRoute, search |-> SearchRoute]
Routes ==
    Merge(Single, Merge(EpisodeRoutes, Merge(ConsumerRoutes, Merge(IdentitiesRoutes,
    Merge(EventRoutes, Merge(TaskRoutes, Merge(TrajectoryRoutes, Merge(TranscriptRoutes,
    Merge(SteeringRoutes, Merge(OutcomeRoutes, Merge(CandidateRoutes, Merge(TaskReadRoutes,
    Merge(MemoryRoutes, Merge(MemoryListRoutes, FeedbackRoutes))))))))))))))

\* PLATFORM_READABLE_RESOURCES: what audited support may read.
PlatformReadable == {"events", "quality", "projection", "memories", "memory", "memoryEvidence",
                     "feedbackSummary", "tasks", "taskEvidence", "taskTree", "taskReport", "fleet",
                     "transcripts", "steering"}

ApiAssumption ==
    /\ Human \subseteq Principals
    /\ Active \subseteq DOMAIN Routes
    /\ Scopes = [p \in Principals |-> Scopes[p]]
    /\ Unscoped # {}   \* no list is not an empty list
    /\ MaxChanges \in Nat

----------------------------------------------------------------------------
VARIABLES membership,  \* each principal's access now
          scopes,      \* each credential's capabilities now
          evidence,    \* version of the stored data that answers cite
          audit,       \* requests in the platform access audit
          changes,
          req          \* the requests

world == <<membership, scopes, changes>>
apiVars == <<membership, scopes, evidence, audit, changes, req>>

Fresh == [route |-> "identity", who |-> CHOOSE p \in Principals : TRUE, at |-> "new", pc |-> 1,
          access |-> NoAccess, held |-> NoAccess, scope |-> {}, seen |-> 0,
          current |-> FALSE, member |-> FALSE, scoped |-> FALSE, wrote |-> {}]

ApiInit ==
    /\ membership \in [Principals -> {NoAccess, [org |-> "admin", ws |-> "admin"]}]
    /\ scopes = Scopes
    /\ evidence = 0
    /\ audit = {}
    /\ changes = 0
    /\ req = [r \in Requests |-> Fresh]

Set(r, v) == req' = [req EXCEPT ![r] = v]
Deny(r) == Set(r, [req[r] EXCEPT !.at = "refused"])

Allows(scope, c) == c = "none" \/ scope = Unscoped \/ c \in scope
Explicit(scope, c) == scope # Unscoped /\ c \in scope

\* authenticate.
Authenticate(r, who, route) ==
    /\ req[r].at = "new"
    /\ Set(r, [req[r] EXCEPT !.at = "resolve", !.who = who, !.route = route, !.scope = scopes[who]])
    /\ UNCHANGED <<world, evidence, audit>>

\* platformAccessGrant: support that states a reason and an expiry within the next
\* minutes is recorded before anything is read; any other is refused.
Grant(r) ==
    \/ /\ audit' = audit \cup {r}
       /\ Set(r, [req[r] EXCEPT !.at = "scope", !.access = Platform])
    \/ Deny(r) /\ UNCHANGED audit

\* The access of a member, or that of audited support when there is none.
ResolveAccess(r) ==
    LET q == req[r]
        a == membership[q.who]
    IN  /\ q.at = "resolve"
        /\ \/ /\ a # NoAccess
              /\ Set(r, [q EXCEPT !.at = "scope", !.access = a])
              /\ UNCHANGED audit
           \/ /\ a = NoAccess
              /\ Routes[q.route].method = "GET" /\ q.route \in PlatformReadable
              /\ Explicit(q.scope, "platform:data-read")
              /\ Grant(r)
           \/ /\ a = NoAccess
              /\ Deny(r) /\ UNCHANGED audit
        /\ UNCHANGED <<world, evidence>>

\* assertCredentialCapability: audited support is not asked for the route's own.
CheckScope(r) ==
    /\ req[r].at = "scope"
    /\ IF req[r].access = Platform \/ Allows(req[r].scope, Routes[req[r].route].capability)
       THEN Set(r, [req[r] EXCEPT !.at = "run"])
       ELSE Deny(r)
    /\ UNCHANGED <<world, evidence, audit>>

Steps(r) == Routes[req[r].route].steps
Word(r) == Steps(r)[req[r].pc]
Running(r, words) == req[r].at = "run" /\ req[r].pc <= Len(Steps(r)) /\ Word(r) \in words
Advance(q) == [q EXCEPT !.pc = @ + 1]

\* What the conditions of the programs compare.
Holds(r, word) ==
    LET q == req[r] IN
    CASE word = "orgAdmin" -> q.access.org = "admin"
      [] word = "steer" -> q.access.ws \in {"owner", "admin"}
      [] word = "human" -> q.who \in Human
      [] word = "manage" -> /\ q.access # Platform /\ q.access.ws = "admin" /\ q.who \in Human
                            /\ Allows(q.scope, "organization:admin")
      [] word = "operator" -> Explicit(q.scope, "operations:read")
      [] word = "eventScope" -> Allows(q.scope, "events:read")
      [] word = "same" -> q.held = q.access
      [] word = "pinned" -> q.seen = evidence /\ q.access # NoAccess

Conditions == {"orgAdmin", "steer", "human", "manage", "operator", "eventScope", "same", "pinned"}

Condition(r) ==
    /\ Running(r, Conditions)
    /\ IF Holds(r, Word(r)) THEN Set(r, Advance(req[r])) ELSE Deny(r)
    /\ UNCHANGED <<world, evidence, audit>>

\* Workspace candidates are reviewed by administrators, personal ones by their owner;
\* event references need the capability of the trajectories.
BodyCondition(r) ==
    LET needed == IF Word(r) = "review" THEN Holds(r, "steer") ELSE Allows(req[r].scope, "trajectories:read")
    IN  /\ Running(r, {"review", "eventRefs"})
        /\ Set(r, Advance(req[r])) \/ (~needed /\ Deny(r))
        /\ UNCHANGED <<world, evidence, audit>>

\* The body, its author, the space it names and the credential's authority are
\* the caller's; any of them may be refused.
Input(r) ==
    /\ Running(r, {"body", "author", "space", "authority"})
    /\ Set(r, Advance(req[r])) \/ Deny(r)
    /\ UNCHANGED <<world, evidence, audit>>

\* What is read may be missing or out of the caller's sight: then it is refused.
Read(r) ==
    /\ Running(r, {"read"})
    /\ \/ Deny(r)
       \/ Set(r, Advance([req[r] EXCEPT !.seen = evidence, !.held = req[r].access]))
    /\ UNCHANGED <<world, evidence, audit>>

\* The provider answers or fails.  Remembered from its answer on: whether the caller
\* has been a member, the credential still had its capability and the evidence was
\* still what the request had read.
Provider(r) ==
    /\ Running(r, {"provider"})
    /\ \/ Deny(r)
       \/ Set(r, Advance([req[r] EXCEPT !.member = membership[req[r].who] # NoAccess,
                                        !.scoped = Allows(scopes[req[r].who], Routes[req[r].route].capability),
                                        !.current = req[r].seen = evidence]))
    /\ UNCHANGED <<world, evidence, audit>>

\* Mutant: access is renewed from what the request already holds.
RenewHeld(r) ==
    /\ Running(r, {"fresh", "reauth"})
    /\ Set(r, Advance(req[r]))
    /\ UNCHANGED <<world, evidence, audit>>

Renew(r) ==
    LET q == req[r]
        a == membership[q.who]
        s == IF Word(r) = "reauth" THEN scopes[q.who] ELSE q.scope
    IN  /\ Running(r, {"fresh", "reauth"})
        /\ IF a # NoAccess /\ (Word(r) = "reauth" => Allows(s, Routes[q.route].capability))
           THEN Set(r, Advance([q EXCEPT !.access = a, !.scope = s]))
           ELSE Deny(r)
        /\ UNCHANGED <<world, evidence, audit>>

\* A command of the SDK, in the caller's name and scope: what it writes may be evidence
\* that others hold.
Write(r) ==
    /\ Running(r, {"write", "cursor", "admin"})
    /\ \/ Deny(r) /\ UNCHANGED evidence
       \/ /\ Set(r, Advance([req[r] EXCEPT !.wrote = @ \cup {Word(r)}]))
          /\ evidence' \in IF Word(r) = "write" THEN {evidence, evidence + 1} ELSE {evidence}
    /\ UNCHANGED <<world, audit>>

\* Delivery records; a failure is reported and does not change the answer.
Offer(r) ==
    /\ Running(r, {"offer"})
    /\ \/ Set(r, Advance(req[r]))
       \/ Set(r, Advance([req[r] EXCEPT !.wrote = @ \cup {"offer"}]))
    /\ UNCHANGED <<world, evidence, audit>>

Answer(r) ==
    /\ req[r].at = "run" /\ req[r].pc = Len(Steps(r)) + 1
    /\ Set(r, [req[r] EXCEPT !.at = "answered"])
    /\ UNCHANGED <<world, evidence, audit>>

\* The caller goes away: providers are aborted and nothing is answered.
Disconnect(r) ==
    /\ req[r].at \in {"resolve", "scope", "run"}
    /\ Deny(r)
    /\ UNCHANGED <<world, evidence, audit>>

----------------------------------------------------------------------------
(* Memberships and scopes change at any time.                              *)

ChangeMembership(p, a) ==
    /\ changes < MaxChanges /\ a # membership[p]
    /\ changes' = changes + 1
    /\ membership' = [membership EXCEPT ![p] = a]
    /\ req' = [r \in Requests |->
                 IF req[r].who = p /\ a # NoAccess THEN [req[r] EXCEPT !.member = TRUE] ELSE req[r]]
    /\ UNCHANGED <<scopes, evidence, audit>>

ChangeScope(p) ==
    /\ changes < MaxChanges /\ scopes[p] # {}
    /\ changes' = changes + 1
    /\ scopes' = [scopes EXCEPT ![p] = {}]
    /\ UNCHANGED <<membership, evidence, audit, req>>

ApiNext ==
    \/ \E r \in Requests, who \in Principals, route \in Active : Authenticate(r, who, route)
    \/ \E r \in Requests :
          \/ ResolveAccess(r) \/ CheckScope(r) \/ Condition(r) \/ BodyCondition(r) \/ Input(r) \/ Read(r)
          \/ Provider(r) \/ Renew(r) \/ Write(r) \/ Offer(r) \/ Answer(r) \/ Disconnect(r)
    \/ \E p \in Principals, a \in Accesses : ChangeMembership(p, a)
    \/ \E p \in Principals : ChangeScope(p)

ApiSpec == ApiInit /\ [][ApiNext]_apiVars

----------------------------------------------------------------------------
Answered(r) == req[r].at = "answered"
Uses(r, word) == \E i \in DOMAIN Steps(r) : Steps(r)[i] = word

\* An answer made with an outside provider is sent only when, after the provider has
\* answered, the caller was still a member, the evidence it cites had not changed and,
\* where the credential is authenticated again, it still had the route's capability.
AnswersStillAllowed ==
    \A r \in Requests : Answered(r) /\ Uses(r, "provider") =>
        /\ req[r].member
        /\ Uses(r, "pinned") => req[r].current
        /\ Uses(r, "reauth") => req[r].scoped

\* Support reads only with an audit record and never changes anything.
SupportOnlyReads ==
    \A r \in Requests :
        /\ req[r].access = Platform => r \in audit /\ req[r].wrote = {}
        /\ r \in audit => req[r].access \in {NoAccess, Platform}

WriteScopes == {"events:write", "memories:write", "feedback:write", "trajectories:write",
                "task-outcomes:write", "task-interventions:write", "trajectories:review",
                "transcripts:write", "steering:write", "consumers:write", "organization:admin"}

\* Whatever the route, a credential without a writing capability leaves the log, the
\* consumers' cursors and the tenancy tables alone; it can only be offered memories.
ReadersNeverWrite ==
    \A r \in Requests :
        (req[r].scope # Unscoped /\ req[r].scope \cap WriteScopes = {}) => req[r].wrote \subseteq {"offer"}

\* Every answer is one the caller may have at the time it is sent, support only reads,
\* and a caller that may only read changes nothing (server.ts).
RequestsAllowed == AnswersStillAllowed /\ SupportOnlyReads /\ ReadersNeverWrite
=============================================================================
