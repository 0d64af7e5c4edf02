------------------------------ MODULE Identity ------------------------------
(***************************************************************************)
(* How the API learns who may enter an organization: signed webhooks of     *)
(* the identity provider (apps/api/src/clerk.ts), the administrators'       *)
(* identity-bindings route (server.ts) and the bootstrap document, all      *)
(* written to the tenancy tables of packages/fold-postgres/src/tenancy.ts.  *)
(*                                                                          *)
(* Webhooks arrive late, repeatedly and in any order.  Each table is a set  *)
(* of rows.  A webhook names the provider's organization, whose internal    *)
(* name is looked up before the transaction begins.  `now' is the time in   *)
(* milliseconds; the provider never stamps two events with one time.        *)
(***************************************************************************)
EXTENDS Integers, Sequences, FiniteSets

CONSTANTS Exts,        \* organizations of the provider
          Users,       \* its human members
          Machines,    \* its API keys and machine identities, named apart from the members
          Workspaces,
          Default,     \* the workspace of webhook members
          Documents,   \* bootstrap documents; none when webhooks are on from the start
          MaxEvents,   \* bound on provider events
          MaxTime,     \* bound on the clock
          MaxAdmin,    \* bound on administrators' requests
          MaxInFlight  \* bound on webhooks being handled

IdentityAssumption ==
    /\ Default \in Workspaces
    /\ \A n \in {MaxEvents, MaxTime, MaxAdmin, MaxInFlight} : n \in Nat
    /\ Users \cap Machines = {}
    /\ \A d \in Documents :
          /\ \A b \in d.organizations : b = [ext |-> b.ext, org |-> b.org]
          /\ \A c \in d.principals : c = [ext |-> c.ext, principal |-> c.principal]

Own(x) == <<"clerk", x>>           \* provisionedOrganizationId, provisionedPrincipalId
Internal(org) == <<"internal", org>>
Rank == [member |-> 0, admin |-> 1]
OrganizationRoles == DOMAIN Rank
NoRole == "none"

VARIABLES now, mode,
          sent,       \* the provider's events, in the order of their times
          resolving,  \* webhooks whose organization has been looked up
          handled,    \* events whose handling has ended at least once
          admins,     \* administrators' requests made
          granted,    \* <<org, workspace, machine>> they were told have access
          trail, versions, orgBindings, principalBindings, orgMembers, wsMembers,
          boot        \* the bootstrap that runs: its document and the work left,
                      \* and (history) whether any has begun

tables == <<trail, versions, orgBindings, principalBindings, orgMembers, wsMembers>>
identityVars == <<now, mode, sent, resolving, handled, admins, granted, tables, boot>>

NoDocument == [organizations |-> {}, principals |-> {}, memberships |-> {}]
NoBoot == [doc |-> NoDocument, left |-> {}, on |-> FALSE, begun |-> FALSE]

IdentityInit ==
    /\ now = 1
    /\ mode = IF Documents = {} THEN "webhooks" ELSE "documents"
    /\ sent = <<>>
    /\ resolving = {} /\ handled = {}
    /\ admins = 0 /\ granted = {}
    /\ trail = {} /\ versions = {}
    /\ orgBindings = {} /\ principalBindings = {}
    /\ orgMembers = {} /\ wsMembers = {}
    /\ boot = NoBoot

Tick == now < MaxTime /\ now' = now + 1
        /\ UNCHANGED <<mode, sent, resolving, handled, admins, granted, tables, boot>>

----------------------------------------------------------------------------
(* applyExternalIdentityProvisioningEvent: one transaction.                *)

Entity(e) == IF e.kind = "organization" THEN <<"organization">> ELSE <<e.kind, e.who>>

Version(e, entity) ==
    {v \in versions : v.org = e.org /\ v.ext = e.ext /\ v.entity = entity}

\* Mutant: a tombstone is forgotten: only the time of the newest event counts,
\* and a deleted organization no longer shuts out its members' events.
IgnoredWithoutTombstone(e) ==
    \E v \in Version(e, Entity(e)) : e.at < v.at \/ (e.at = v.at /\ ~e.deleted)

Ignored(e) ==
    \/ e.kind # "organization" /\ \E v \in Version(e, <<"organization">>) : v.deleted
    \/ \E v \in Version(e, Entity(e)) :
          \/ e.at < v.at
          \/ e.at = v.at /\ (~e.deleted \/ v.deleted)

Applied(e) == ~Ignored(e) /\ e.id \notin trail

Bind(e) == {b \in orgBindings : b.ext # e.ext} \cup {[ext |-> e.ext, org |-> e.org]}

OfProvider(rows, e) == {r \in rows : r.org = e.org /\ r.source = "provider"}

OrganizationDelete(e) ==
    /\ e.kind = "organization" /\ e.deleted
    /\ wsMembers' = wsMembers \ OfProvider(wsMembers, e)
    /\ orgMembers' = orgMembers \ OfProvider(orgMembers, e)
    /\ orgBindings' = {b \in orgBindings : b.ext # e.ext}
    /\ UNCHANGED principalBindings

OrganizationUpsert(e) ==
    /\ e.kind = "organization" /\ ~e.deleted
    /\ orgBindings' = Bind(e)
    /\ UNCHANGED <<wsMembers, orgMembers, principalBindings>>

\* The principal of a credential is looked up when it is deleted; without a
\* binding nothing more is done.
PrincipalsOf(e) ==
    IF e.kind = "credential"
    THEN {b.principal : b \in {c \in principalBindings : c.ext = e.who}}
    ELSE {e.principal}

Removed(e) == {r \in OfProvider(wsMembers, e) : r.principal \in PrincipalsOf(e) /\ r.ws = e.ws}
Left(e) == {r \in OfProvider(wsMembers, e) \ Removed(e) : r.principal \in PrincipalsOf(e)}

MemberDelete(e) ==
    /\ e.kind # "organization" /\ e.deleted
    /\ orgBindings' = IF e.kind = "membership" THEN Bind(e) ELSE orgBindings
    /\ wsMembers' = wsMembers \ Removed(e)
    /\ orgMembers' = IF Left(e) # {} THEN orgMembers
                     ELSE orgMembers \ {r \in OfProvider(orgMembers, e) : r.principal \in PrincipalsOf(e)}
    /\ principalBindings' =
          IF e.kind = "credential" /\ Left(e) = {}
          THEN {b \in principalBindings : b.ext # e.who} ELSE principalBindings

MemberUpsert(e) ==
    /\ e.kind # "organization" /\ ~e.deleted
    /\ orgBindings' = IF e.kind = "membership" THEN Bind(e) ELSE orgBindings
    /\ principalBindings' = {b \in principalBindings : b.ext # e.who}
                            \cup {[ext |-> e.who, principal |-> e.principal]}
    /\ orgMembers' = {r \in orgMembers : r.org # e.org \/ r.principal # e.principal}
          \cup {[org |-> e.org, principal |-> e.principal, role |-> e.role, source |-> "provider"]}
    /\ wsMembers' = {r \in wsMembers : r.org # e.org \/ r.ws # e.ws \/ r.principal # e.principal}
          \cup {[org |-> e.org, ws |-> e.ws, principal |-> e.principal, role |-> e.role,
                 source |-> "provider"]}

Apply(e) ==
    IF Applied(e)
    THEN /\ trail' = trail \cup {e.id}
         /\ versions' = (versions \ Version(e, Entity(e))) \cup
               {[org |-> e.org, ext |-> e.ext, entity |-> Entity(e), at |-> e.at, deleted |-> e.deleted]}
         /\ OrganizationDelete(e) \/ OrganizationUpsert(e) \/ MemberDelete(e) \/ MemberUpsert(e)
    ELSE UNCHANGED tables

----------------------------------------------------------------------------
(* The provider and its webhook (ClerkProvisioningWebhook.handle).         *)

EventsOf(x, kind, who) ==
    {i \in DOMAIN sent : sent[i].ext = x /\ sent[i].kind = kind /\ sent[i].who = who}

Newest(S) == CHOOSE i \in S : \A j \in S : j <= i

\* The provider: an organization is created, changed and deleted for good;
\* its members come, change their role, leave and come back.
Emit(x, kind, who, deleted, role) ==
    /\ mode = "webhooks" /\ Len(sent) < MaxEvents
    /\ LET org == EventsOf(x, "organization", NoRole)
           mine == EventsOf(x, kind, who)
       IN  /\ kind = "organization" <=> who = NoRole
           /\ kind = "organization" => role = NoRole
           /\ kind = "membership" => role # NoRole
           /\ \A i \in org : ~sent[i].deleted
           /\ kind = "membership" => org # {}
           /\ deleted => mine # {} /\ ~sent[Newest(mine)].deleted
    /\ sent' = Append(sent, [ext |-> x, kind |-> kind, who |-> who, deleted |-> deleted, role |-> role])
    /\ UNCHANGED <<now, mode, resolving, handled, admins, granted, tables, boot>>

\* handle: the internal organization is the bound one, or the provider's own.
ResolveOrganization(i) ==
    /\ Cardinality(resolving) < MaxInFlight
    /\ resolving' = resolving \cup
          {<<i, IF \E b \in orgBindings : b.ext = sent[i].ext
                THEN (CHOOSE b \in orgBindings : b.ext = sent[i].ext).org
                ELSE Own(sent[i].ext)>>}
    /\ UNCHANGED <<now, mode, sent, handled, admins, granted, tables, boot>>

Provision(i, org) ==
    /\ <<i, org>> \in resolving
    /\ resolving' = resolving \ {<<i, org>>}
    /\ handled' = handled \cup {i}
    /\ LET e == [id |-> <<"webhook", i>>, at |-> i, org |-> org, ext |-> sent[i].ext,
                 kind |-> sent[i].kind, who |-> sent[i].who, deleted |-> sent[i].deleted,
                 role |-> sent[i].role, principal |-> Own(sent[i].who), ws |-> Default]
       IN  /\ Apply(e)
           /\ granted' = IF Applied(e) /\ e.kind = "organization" /\ e.deleted
                         THEN {g \in granted : g[1] # org} ELSE granted
    /\ UNCHANGED <<now, mode, sent, admins, boot>>

\* The answer, or the whole handler, is lost; the provider delivers again.
Abandon(i, org) ==
    /\ <<i, org>> \in resolving
    /\ resolving' = resolving \ {<<i, org>>}
    /\ UNCHANGED <<now, mode, sent, handled, admins, granted, tables, boot>>

\* POST and DELETE identity-bindings: stamped with the server's clock.
Credential(org, ws, m, deleted, role) ==
    /\ admins < MaxAdmin
    /\ \E b \in orgBindings : b.org = org
    /\ admins' = admins + 1
    /\ LET e == [id |-> <<"admin", admins>>, at |-> now, org |-> org, ext |-> Internal(org),
                 kind |-> "credential", who |-> m, deleted |-> deleted, role |-> role,
                 principal |-> Own(m), ws |-> ws]
       IN  /\ Apply(e)
           /\ granted' = CASE ~Applied(e) -> granted
                           [] Applied(e) /\ deleted -> granted \ {<<org, ws, m>>}
                           [] OTHER -> granted \cup {<<org, ws, m>>}
    /\ UNCHANGED <<now, mode, sent, resolving, handled, boot>>

----------------------------------------------------------------------------
(* Bootstrap from a document (main.ts, replaceExternalIdentityBindings,    *)
(* replaceMemberships).                                                    *)

\* Of the organizations table, the rows whose memberships could be replaced.
KnownOrganizations == {v.org : v \in versions} \cup {r.org : r \in orgMembers \cup orgBindings}

StartBootstrap(d) ==
    /\ mode = "documents" /\ ~boot.on
    /\ orgBindings' = d.organizations
    /\ principalBindings' = d.principals
    /\ boot' = [doc |-> d, on |-> TRUE, begun |-> TRUE,
                left |-> KnownOrganizations \cup {b.org : b \in d.organizations}]
    /\ UNCHANGED <<now, mode, sent, resolving, handled, admins, granted,
                   trail, versions, orgMembers, wsMembers>>

Rows(d, org) == {m \in d.memberships : m.org = org}

\* replaceMemberships: one transaction for each organization.
ReplaceOrganization(org) ==
    /\ boot.on /\ org \in boot.left
    /\ wsMembers' = {r \in wsMembers : r.org # org \/ r.source # "provider"}
          \cup {[org |-> org, ws |-> m.ws, principal |-> m.principal, role |-> m.role,
                 source |-> "provider"] : m \in Rows(boot.doc, org)}
    /\ orgMembers' = {r \in orgMembers : r.org # org \/ r.source # "provider"}
          \cup {[org |-> org, principal |-> m.principal, role |-> m.role,
                 source |-> "provider"] : m \in Rows(boot.doc, org)}
    /\ boot' = [boot EXCEPT !.left = @ \ {org}]
    /\ UNCHANGED <<now, mode, sent, resolving, handled, admins, granted,
                   trail, versions, orgBindings, principalBindings>>

\* The bootstrap ends, or its process dies with organizations left.
EndBootstrap ==
    /\ boot.on
    /\ boot' = [boot EXCEPT !.on = FALSE]
    /\ UNCHANGED <<now, mode, sent, resolving, handled, admins, granted, tables>>

\* The two sources are exclusive; a deployment moves from documents to webhooks.
SwitchToWebhooks ==
    /\ mode = "documents" /\ ~boot.on
    /\ mode' = "webhooks"
    /\ UNCHANGED <<now, sent, resolving, handled, admins, granted, tables, boot>>

IdentityNext ==
    \/ Tick
    \/ \E x \in Exts, who \in Users \cup {NoRole}, kind \in {"organization", "membership"},
          deleted \in BOOLEAN, role \in OrganizationRoles \cup {NoRole} : Emit(x, kind, who, deleted, role)
    \/ \E i \in DOMAIN sent : ResolveOrganization(i)
    \/ \E r \in resolving : Provision(r[1], r[2]) \/ Abandon(r[1], r[2])
    \/ \E b \in orgBindings, ws \in Workspaces, m \in Machines, deleted \in BOOLEAN :
          Credential(b.org, ws, m, deleted, "member")
    \/ \E d \in Documents : StartBootstrap(d)
    \/ \E org \in boot.left : ReplaceOrganization(org)
    \/ EndBootstrap
    \/ SwitchToWebhooks

IdentitySpec == IdentityInit /\ [][IdentityNext]_identityVars

----------------------------------------------------------------------------
(* Access: ClerkAuthenticator, then PostgresMembershipResolver.            *)

LessPrivileged(a, b) == IF Rank[a] <= Rank[b] THEN a ELSE b

\* A token is accepted when both its organization and its principal are bound.
Authenticated(x, who) ==
    {[org |-> b.org, principal |-> c.principal] :
        b \in {d \in orgBindings : d.ext = x}, c \in {d \in principalBindings : d.ext = who}}

\* The organization memberships of a principal that also is a member of the workspace.
ResolveMembership(org, ws, principal) ==
    {r \in orgMembers :
        /\ r.org = org /\ r.principal = principal
        /\ \E w \in wsMembers : w.org = org /\ w.principal = principal /\ w.ws = ws}

\* The organization roles with which a session enters a workspace.
RolesOf(x, who, ws, limit) ==
    {LessPrivileged(m.role, limit) :
        m \in UNION {ResolveMembership(s.org, ws, s.principal) : s \in Authenticated(x, who)}}

\* A machine identity that reaches a workspace, once its token names the organization.
MachineEnters(org, ws, m) ==
    \E b \in principalBindings : b.ext = m /\ ResolveMembership(org, ws, b.principal) # {}

IdentityTypeOK ==
    /\ now \in 1..MaxTime
    /\ mode \in {"documents", "webhooks"}
    /\ handled \subseteq DOMAIN sent
    /\ \A r \in resolving : r[1] \in DOMAIN sent
    /\ \A b \in orgBindings, c \in orgBindings : b.ext = c.ext => b = c
    /\ \A b \in principalBindings, c \in principalBindings : b.ext = c.ext => b = c
    /\ \A v \in versions, u \in versions :
          (v.org = u.org /\ v.ext = u.ext /\ v.entity = u.entity) => v = u

\* Whatever the order and the repetitions of the webhooks, a member's access is the
\* one the newest handled event of the membership says, and nothing once the deletion
\* of the organization has been handled.
AccessIsNewestHandled ==
    \A x \in Exts, u \in Users, limit \in OrganizationRoles :
        LET mine == EventsOf(x, "membership", u) \cap handled
            gone == \E i \in EventsOf(x, "organization", NoRole) \cap handled : sent[i].deleted
        IN  RolesOf(x, u, Default, limit) =
              IF gone \/ mine = {} THEN {}
              ELSE IF sent[Newest(mine)].deleted THEN {}
              ELSE {LessPrivileged(sent[Newest(mine)].role, limit)}

\* An administrator's answer holds: a machine identity enters exactly the workspaces
\* it was granted and not since revoked from.
CredentialAnswersHold ==
    \A b \in orgBindings, ws \in Workspaces, m \in Machines :
        MachineEnters(b.org, ws, m) <=> <<b.org, ws, m>> \in granted

\* An identity that the document of the last complete bootstrap leaves out has no access.
RemovedLosesAccess ==
    (mode = "documents" /\ ~boot.on /\ boot.left = {} /\ admins = 0) =>
        \A x \in Exts, u \in Users \cup Machines, ws \in Workspaces :
            RolesOf(x, u, ws, "admin") # {} =>
                \E m \in boot.doc.memberships :
                    /\ m.ws = ws
                    /\ [ext |-> x, org |-> m.org] \in boot.doc.organizations
                    /\ [ext |-> u, principal |-> m.principal] \in boot.doc.principals

\* A machine identity belongs to one organization: no second one was ever provisioned.
OneOrganization == \A i, j \in DOMAIN sent : sent[i].ext = sent[j].ext

\* Access follows the webhooks, the administrators and the documents (tenancy.ts). What
\* a bootstrap wrote before the webhooks came is not theirs, so what is said of them
\* is said of a deployment without one.
AccessFollows ==
    /\ ~boot.begun => AccessIsNewestHandled
    /\ ~boot.begun /\ OneOrganization => CredentialAnswersHold
    /\ RemovedLosesAccess
=============================================================================
