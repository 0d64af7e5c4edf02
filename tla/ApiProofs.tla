----------------------------- MODULE ApiProofs ------------------------------
(***************************************************************************)
(* Proofs about what the API allows: that access follows the webhooks, the  *)
(* administrators and the documents (Identity), and that every answer is    *)
(* one its caller may have (ApiRequests).                                   *)
(***************************************************************************)
EXTENDS ApiRequests, Identity, TLAPS

-----------------------------------------------------------------------------
(***************************************************************************)
(* Access follows the webhooks, the administrators and the documents, for   *)
(* any organizations, people, machines and documents, in whatever order     *)
(* the webhooks come and however often.                                     *)
(*                                                                         *)
(* ProviderOK is what the provider sends; NamesOK what all rows have in     *)
(* common before a bootstrap; OrganizationOK and MemberOK what the tables   *)
(* hold of the newest events handled of an organization and of a member;    *)
(* GrantsOK what they hold of the grants when there is one organization;    *)
(* DocumentOK what a bootstrap has replaced so far.                         *)
(***************************************************************************)
SentEvent == [ext : Exts, kind : {"organization", "membership"}, who : Users \cup {NoRole},
              deleted : BOOLEAN, role : OrganizationRoles \cup {NoRole}]

\* The provider deletes an organization for good.
ProviderOK ==
    /\ sent \in Seq(SentEvent) /\ handled \subseteq DOMAIN sent /\ admins \in Nat
    /\ \A r \in resolving : r[1] \in DOMAIN sent
    /\ \A i \in DOMAIN sent : sent[i].kind = "organization" <=> sent[i].who = NoRole
    /\ \A i, j \in DOMAIN sent :
          /\ sent[i].kind = "organization" /\ sent[j].kind = "organization"
          /\ sent[i].ext = sent[j].ext /\ sent[i].deleted
          => j <= i

\* Before any bootstrap all names are the provider's own, and all rows too.
NamesOK ==
    /\ boot.left = {}
    /\ \A b \in orgBindings :
          \E i \in DOMAIN sent : b = [ext |-> sent[i].ext, org |-> Own(sent[i].ext)]
    /\ \A c \in principalBindings : c = [ext |-> c.ext, principal |-> Own(c.ext)]
    /\ \A r \in resolving : r = <<r[1], Own(sent[r[1]].ext)>>
    /\ \A w \in wsMembers :
          w.source = "provider" /\ \A u \in Users : w.principal = Own(u) => w.ws = Default
    /\ \A m \in orgMembers : m.source = "provider"
    /\ \A t \in trail : t[1] = "webhook" => t[2] \in handled

VersionsOf(x, entity) == {v \in versions : v.org = Own(x) /\ v.ext = x /\ v.entity = entity}
OrganizationEvents(x) == EventsOf(x, "organization", NoRole) \cap handled
MemberEvents(x, u) == EventsOf(x, "membership", u) \cap handled
Tombstone(x) == \E v \in VersionsOf(x, <<"organization">>) : v.deleted

OrganizationOK(x) ==
    /\ \A v \in VersionsOf(x, <<"organization">>) :
          v.at \in OrganizationEvents(x) /\ v.deleted = sent[v.at].deleted
    /\ \A i \in OrganizationEvents(x) : sent[i].deleted => Tombstone(x)
    /\ Tombstone(x) => \A b \in orgBindings : b.ext # x

RowsOf(rows, x, u) == {r \in rows : r.org = Own(x) /\ r.principal = Own(u)}

\* The newest event k of a member has been applied last.
NewestApplied(x, u, k) ==
    /\ \A j \in MemberEvents(x, u) : j <= k
    /\ VersionsOf(x, <<"membership", u>>) # {}
    /\ \A v \in VersionsOf(x, <<"membership", u>>) : v.at = k /\ v.deleted = sent[k].deleted
    /\ sent[k].deleted => RowsOf(orgMembers, x, u) = {} /\ RowsOf(wsMembers, x, u) = {}
    /\ ~sent[k].deleted =>
          /\ \E b \in orgBindings : b.ext = x
          /\ \E c \in principalBindings : c.ext = u
          /\ RowsOf(orgMembers, x, u) # {} /\ RowsOf(wsMembers, x, u) # {}
          /\ \A m \in RowsOf(orgMembers, x, u) : m.role = sent[k].role

Unknown(x, u) ==
    /\ MemberEvents(x, u) = {} /\ VersionsOf(x, <<"membership", u>>) = {}
    /\ RowsOf(orgMembers, x, u) = {} /\ RowsOf(wsMembers, x, u) = {}

MemberOK(x, u) ==
    ~Tombstone(x) => Unknown(x, u) \/ \E k \in MemberEvents(x, u) : NewestApplied(x, u, k)

\* A granted machine has its rows and its binding, and no other machine has rows.
GrantsOK ==
    /\ \A g \in granted :
          /\ g = <<g[1], g[2], g[3]>> /\ g[3] \in Machines
          /\ \E w \in wsMembers : w.org = g[1] /\ w.ws = g[2] /\ w.principal = Own(g[3])
          /\ \E r \in orgMembers : r.org = g[1] /\ r.principal = Own(g[3])
          /\ \E c \in principalBindings : c.ext = g[3]
    /\ \A w \in wsMembers :
          /\ \E i \in DOMAIN sent : w.org = Own(sent[i].ext)
          /\ \A m \in Machines : w.principal = Own(m) => <<w.org, w.ws, m>> \in granted

WebhooksOK ==
    /\ NamesOK
    /\ \A x \in Exts : OrganizationOK(x) /\ \A u \in Users : MemberOK(x, u)
    /\ OneOrganization => GrantsOK

DocumentOK ==
    /\ mode = "documents" => sent = <<>> /\ resolving = {}
    /\ mode = "documents" /\ admins = 0 =>
          /\ orgBindings = boot.doc.organizations /\ principalBindings = boot.doc.principals
          /\ \A w \in wsMembers :
                /\ w.source = "provider" /\ \E m \in orgMembers : m.org = w.org
                /\ \/ w.org \in boot.left
                   \/ \E m \in boot.doc.memberships :
                         m.org = w.org /\ m.ws = w.ws /\ m.principal = w.principal
    /\ boot.doc \in Documents \cup {NoDocument}
    /\ boot = [doc |-> boot.doc, left |-> boot.left, on |-> boot.on, begun |-> boot.begun]

AccessInv == ProviderOK /\ DocumentOK /\ (~boot.begun => WebhooksOK)

-----------------------------------------------------------------------------
(* Names.                                                                   *)
LEMMA OwnInjective == \A x, y : Own(x) = Own(y) => x = y
BY DEF Own

LEMMA Entities ==
    /\ \A u : <<"organization">> # <<"membership", u>> /\ <<"organization">> # <<"credential", u>>
    /\ \A u, v : <<"membership", u>> # <<"credential", v>>
    /\ \A u, v : <<"membership", u>> = <<"membership", v>> => u = v
<1>1. \A u, k : Len(<<"organization">>) = 1 /\ Len(<<k, u>>) = 2 OBVIOUS
<1> QED BY <1>1

\* Roles are entered through one binding of each name and one row of each table.
LEMMA InRoles ==
    ASSUME NEW x, NEW who, NEW ws, NEW limit, NEW role
    PROVE  role \in RolesOf(x, who, ws, limit) <=>
             \E b \in orgBindings, c \in principalBindings, r \in orgMembers, w \in wsMembers :
                /\ b.ext = x /\ c.ext = who
                /\ r.org = b.org /\ r.principal = c.principal
                /\ w.org = b.org /\ w.principal = c.principal /\ w.ws = ws
                /\ role = LessPrivileged(r.role, limit)
<1>1. \A s : s \in Authenticated(x, who) <=>
         \E b \in orgBindings, c \in principalBindings :
            b.ext = x /\ c.ext = who /\ s = [org |-> b.org, principal |-> c.principal]
  BY DEF Authenticated
<1>2. role \in RolesOf(x, who, ws, limit) <=>
        \E s \in Authenticated(x, who) : \E m \in ResolveMembership(s.org, ws, s.principal) :
           role = LessPrivileged(m.role, limit)
  BY DEF RolesOf
<1>3. \A org, p : \A m : m \in ResolveMembership(org, ws, p) <=>
        /\ m \in orgMembers /\ m.org = org /\ m.principal = p
        /\ \E w \in wsMembers : w.org = org /\ w.principal = p /\ w.ws = ws
  BY DEF ResolveMembership
<1>4. ASSUME role \in RolesOf(x, who, ws, limit)
      PROVE  \E b \in orgBindings, c \in principalBindings, r \in orgMembers, w \in wsMembers :
                /\ b.ext = x /\ c.ext = who
                /\ r.org = b.org /\ r.principal = c.principal
                /\ w.org = b.org /\ w.principal = c.principal /\ w.ws = ws
                /\ role = LessPrivileged(r.role, limit)
  <2>1. PICK s \in Authenticated(x, who) : \E m \in ResolveMembership(s.org, ws, s.principal) :
           role = LessPrivileged(m.role, limit)
    BY <1>2, <1>4
  <2>2. PICK b \in orgBindings, c \in principalBindings :
            b.ext = x /\ c.ext = who /\ s = [org |-> b.org, principal |-> c.principal]
    BY <1>1, <2>1
  <2>3. PICK r \in ResolveMembership(b.org, ws, c.principal) : role = LessPrivileged(r.role, limit)
    BY <2>1, <2>2
  <2> QED BY <1>3, <2>2, <2>3
<1>5. ASSUME NEW b \in orgBindings, NEW c \in principalBindings, NEW r \in orgMembers, NEW w \in wsMembers,
             b.ext = x, c.ext = who, r.org = b.org, r.principal = c.principal,
             w.org = b.org, w.principal = c.principal, w.ws = ws, role = LessPrivileged(r.role, limit)
      PROVE  role \in RolesOf(x, who, ws, limit)
  <2> DEFINE s == [org |-> b.org, principal |-> c.principal]
  <2>1. s \in Authenticated(x, who) BY <1>1, <1>5
  <2>2. r \in ResolveMembership(s.org, ws, s.principal) BY <1>3, <1>5
  <2> QED BY <1>2, <1>5, <2>1, <2>2
<1> QED BY <1>4, <1>5

-----------------------------------------------------------------------------
(* What the invariant gives.                                                *)
LEMMA NewestIs ==
    ASSUME NEW S, S \subseteq Nat, NEW k \in S, \A j \in S : j <= k
    PROVE  Newest(S) = k
<1>1. \E i \in S : \A j \in S : j <= i OBVIOUS
<1>2. Newest(S) \in S /\ \A j \in S : j <= Newest(S) BY <1>1, Zenon DEF Newest
<1>3. k <= Newest(S) /\ Newest(S) <= k /\ k \in Nat /\ Newest(S) \in Nat BY <1>2
<1> QED BY <1>3

LEMMA EntersOwn ==
    ASSUME NamesOK, NEW x, NEW who,
           NEW b \in orgBindings, b.ext = x, NEW c \in principalBindings, c.ext = who
    PROVE  b.org = Own(x) /\ c.principal = Own(who)
<1>1. PICK i \in DOMAIN sent : b = [ext |-> sent[i].ext, org |-> Own(sent[i].ext)] BY DEF NamesOK
<1>2. c = [ext |-> c.ext, principal |-> Own(c.ext)] BY DEF NamesOK
<1> QED BY <1>1, <1>2

LEMMA NewestHandled ==
    ASSUME AccessInv, ~boot.begun PROVE AccessIsNewestHandled
<1> SUFFICES ASSUME NEW x \in Exts, NEW u \in Users, NEW limit \in OrganizationRoles
             PROVE  RolesOf(x, u, Default, limit) =
                      IF (\E i \in OrganizationEvents(x) : sent[i].deleted) \/ MemberEvents(x, u) = {} THEN {}
                      ELSE IF sent[Newest(MemberEvents(x, u))].deleted THEN {}
                      ELSE {LessPrivileged(sent[Newest(MemberEvents(x, u))].role, limit)}
  BY DEF AccessIsNewestHandled, OrganizationEvents, MemberEvents
<1>0. NamesOK /\ OrganizationOK(x) /\ MemberOK(x, u) BY DEF AccessInv, WebhooksOK
<1> DEFINE mine == MemberEvents(x, u)
           gone == \E i \in OrganizationEvents(x) : sent[i].deleted
<1>1. CASE gone
  <2>1. Tombstone(x) BY <1>0, <1>1 DEF OrganizationOK
  <2>2. \A b \in orgBindings : b.ext # x BY <1>0, <2>1 DEF OrganizationOK
  <2>3. RolesOf(x, u, Default, limit) = {} BY <2>2, InRoles
  <2> QED BY <1>1, <2>3
<1>2. CASE ~gone
  <2>1. ~Tombstone(x) BY <1>0, <1>2 DEF OrganizationOK, Tombstone
  <2>2. ASSUME NEW role \in RolesOf(x, u, Default, limit)
        PROVE  \E r \in RowsOf(orgMembers, x, u) : role = LessPrivileged(r.role, limit)
    <3>1. PICK b \in orgBindings, c \in principalBindings, r \in orgMembers, w \in wsMembers :
                /\ b.ext = x /\ c.ext = u
                /\ r.org = b.org /\ r.principal = c.principal
                /\ w.org = b.org /\ w.principal = c.principal /\ w.ws = Default
                /\ role = LessPrivileged(r.role, limit)
      BY <2>2, InRoles
    <3>2. b.org = Own(x) /\ c.principal = Own(u) BY <1>0, <3>1, EntersOwn
    <3> QED BY <3>1, <3>2 DEF RowsOf
  <2>3. CASE Unknown(x, u)
    <3>1. mine = {} /\ RowsOf(orgMembers, x, u) = {} BY <2>3 DEF Unknown
    <3> QED BY <2>2, <3>1
  <2>4. CASE ~Unknown(x, u)
    <3>1. PICK k \in mine : NewestApplied(x, u, k) BY <1>0, <2>1, <2>4 DEF MemberOK
    <3>2. mine \subseteq Nat BY DEF AccessInv, ProviderOK, MemberEvents, EventsOf
    <3>3. Newest(mine) = k
      <4>1. \A j \in mine : j <= k BY <3>1 DEF NewestApplied
      <4> HIDE DEF mine
      <4> QED BY <3>1, <3>2, <4>1, NewestIs
    <3>4. CASE sent[k].deleted
      <4>1. RowsOf(orgMembers, x, u) = {} BY <3>1, <3>4 DEF NewestApplied
      <4> QED BY <1>2, <2>2, <3>3, <3>4, <4>1
    <3>5. CASE ~sent[k].deleted
      <4>1. /\ \E b \in orgBindings : b.ext = x
            /\ \E c \in principalBindings : c.ext = u
            /\ RowsOf(orgMembers, x, u) # {} /\ RowsOf(wsMembers, x, u) # {}
            /\ \A m \in RowsOf(orgMembers, x, u) : m.role = sent[k].role
        BY <3>1, <3>5 DEF NewestApplied
      <4>2. PICK b \in orgBindings : b.ext = x BY <4>1
      <4>3. PICK c \in principalBindings : c.ext = u BY <4>1
      <4>4. PICK r \in orgMembers : r.org = Own(x) /\ r.principal = Own(u) /\ r.role = sent[k].role
        BY <4>1 DEF RowsOf
      <4>5. PICK w \in wsMembers : w.org = Own(x) /\ w.principal = Own(u) BY <4>1 DEF RowsOf
      <4>6. w.ws = Default BY <1>0, <4>5 DEF NamesOK
      <4>7. b.org = Own(x) /\ c.principal = Own(u) BY <1>0, <4>2, <4>3, EntersOwn
      <4>8. LessPrivileged(sent[k].role, limit) \in RolesOf(x, u, Default, limit)
        BY <4>2, <4>3, <4>4, <4>5, <4>6, <4>7, InRoles
      <4>9. \A role \in RolesOf(x, u, Default, limit) : role = LessPrivileged(sent[k].role, limit)
        BY <2>2, <4>1
      <4> QED BY <1>2, <3>1, <3>3, <3>5, <4>8, <4>9
    <3> QED BY <3>4, <3>5
  <2> QED BY <2>3, <2>4
<1> QED BY <1>1, <1>2

LEMMA CredentialsHold ==
    ASSUME AccessInv, ~boot.begun, OneOrganization PROVE CredentialAnswersHold
<1> SUFFICES ASSUME NEW b \in orgBindings, NEW ws \in Workspaces, NEW m \in Machines
             PROVE  MachineEnters(b.org, ws, m) <=> <<b.org, ws, m>> \in granted
  BY DEF CredentialAnswersHold
<1>0. NamesOK /\ GrantsOK BY DEF AccessInv, WebhooksOK
<1>1. ASSUME MachineEnters(b.org, ws, m) PROVE <<b.org, ws, m>> \in granted
  <2>1. PICK c \in principalBindings : c.ext = m /\ ResolveMembership(b.org, ws, c.principal) # {}
    BY <1>1 DEF MachineEnters
  <2>2. c.principal = Own(m)
    <3>1. c = [ext |-> c.ext, principal |-> Own(c.ext)] BY <1>0 DEF NamesOK
    <3> QED BY <2>1, <3>1
  <2>3. PICK w \in wsMembers : w.org = b.org /\ w.principal = Own(m) /\ w.ws = ws
    BY <2>1, <2>2 DEF ResolveMembership
  <2> QED BY <1>0, <2>3 DEF GrantsOK
<1>2. ASSUME <<b.org, ws, m>> \in granted PROVE MachineEnters(b.org, ws, m)
  <2> DEFINE g == <<b.org, ws, m>>
  <2>1. /\ \E w \in wsMembers : w.org = g[1] /\ w.ws = g[2] /\ w.principal = Own(g[3])
        /\ \E r \in orgMembers : r.org = g[1] /\ r.principal = Own(g[3])
        /\ \E c \in principalBindings : c.ext = g[3]
    BY <1>0, <1>2 DEF GrantsOK
  <2>2. g[1] = b.org /\ g[2] = ws /\ g[3] = m OBVIOUS
  <2>3. PICK c \in principalBindings : c.ext = m BY <2>1, <2>2
  <2>4. c.principal = Own(m)
    <3>1. c = [ext |-> c.ext, principal |-> Own(c.ext)] BY <1>0 DEF NamesOK
    <3> QED BY <2>3, <3>1
  <2>5. ResolveMembership(b.org, ws, c.principal) # {} BY <2>1, <2>2, <2>4 DEF ResolveMembership
  <2> QED BY <2>3, <2>5 DEF MachineEnters
<1> QED BY <1>1, <1>2

LEMMA RemovedOut ==
    ASSUME IdentityAssumption, AccessInv PROVE RemovedLosesAccess
<1> SUFFICES ASSUME mode = "documents", boot.left = {}, admins = 0,
                    NEW x \in Exts, NEW u \in Users \cup Machines, NEW ws \in Workspaces,
                    RolesOf(x, u, ws, "admin") # {}
             PROVE  \E m \in boot.doc.memberships :
                      /\ m.ws = ws
                      /\ [ext |-> x, org |-> m.org] \in boot.doc.organizations
                      /\ [ext |-> u, principal |-> m.principal] \in boot.doc.principals
  BY DEF RemovedLosesAccess
<1>1. PICK b \in orgBindings, c \in principalBindings, r \in orgMembers, w \in wsMembers :
         /\ b.ext = x /\ c.ext = u
         /\ w.org = b.org /\ w.principal = c.principal /\ w.ws = ws
  <2>1. PICK role : role \in RolesOf(x, u, ws, "admin") OBVIOUS
  <2> QED BY <2>1, InRoles
<1>2. /\ b \in boot.doc.organizations /\ c \in boot.doc.principals
      /\ \E m \in boot.doc.memberships : m.org = w.org /\ m.ws = w.ws /\ m.principal = w.principal
  BY DEF AccessInv, DocumentOK
<1>3. b = [ext |-> b.ext, org |-> b.org] /\ c = [ext |-> c.ext, principal |-> c.principal]
  BY <1>2 DEF AccessInv, DocumentOK, IdentityAssumption, NoDocument
<1> QED BY <1>1, <1>2, <1>3

LEMMA InvFollows ==
    ASSUME IdentityAssumption, AccessInv PROVE AccessFollows
BY NewestHandled, CredentialsHold, RemovedOut DEF AccessFollows

LEMMA InitAccess == ASSUME IdentityInit PROVE AccessInv
<1>1. sent = <<>> /\ handled = {} /\ admins = 0 /\ resolving = {} /\ trail = {} /\ granted = {}
      /\ versions = {} /\ orgBindings = {} /\ principalBindings = {} /\ orgMembers = {} /\ wsMembers = {}
      /\ boot.doc = NoDocument /\ boot.left = {}
  BY DEF IdentityInit, NoBoot
<1>2. sent \in Seq(SentEvent) /\ DOMAIN sent = {} BY <1>1
<1>3. ProviderOK BY <1>1, <1>2 DEF ProviderOK
<1>4. DocumentOK BY <1>1 DEF DocumentOK, NoDocument, IdentityInit, NoBoot
<1>5. NamesOK BY <1>1 DEF NamesOK
<1>6. \A x : OrganizationOK(x)
  BY <1>1 DEF OrganizationOK, VersionsOf, OrganizationEvents
<1>7. \A x, u : MemberOK(x, u)
  BY <1>1 DEF MemberOK, Unknown, VersionsOf, MemberEvents, RowsOf
<1>8. GrantsOK BY <1>1 DEF GrantsOK
<1> QED BY <1>3, <1>4, <1>5, <1>6, <1>7, <1>8 DEF AccessInv, WebhooksOK

-----------------------------------------------------------------------------
(* Steps that leave the tables alone.                                       *)
LEMMA EventsKept ==
    ASSUME ProviderOK, handled' = handled, DOMAIN sent \subseteq DOMAIN sent',
           \A i \in DOMAIN sent : sent'[i] = sent[i]
    PROVE  /\ \A x : OrganizationEvents(x)' = OrganizationEvents(x)
           /\ \A x, u : MemberEvents(x, u)' = MemberEvents(x, u)
<1>1. \A x, kind, who : (EventsOf(x, kind, who) \cap handled)' = EventsOf(x, kind, who) \cap handled
  BY DEF ProviderOK, EventsOf
<1> QED BY <1>1 DEF OrganizationEvents, MemberEvents

LEMMA TablesKept ==
    ASSUME ProviderOK, WebhooksOK, DOMAIN sent \subseteq DOMAIN sent',
           \A i \in DOMAIN sent : sent'[i] = sent[i],
           UNCHANGED <<handled, granted, tables>>, boot'.left = boot.left,
           \A r \in resolving' : r \in resolving
                \/ (r[1] \in DOMAIN sent /\ r = <<r[1], Own(sent[r[1]].ext)>>)
    PROVE  WebhooksOK'
<1>1. /\ \A x : OrganizationEvents(x)' = OrganizationEvents(x)
      /\ \A x, u : MemberEvents(x, u)' = MemberEvents(x, u)
  BY EventsKept
<1>2. UNCHANGED <<trail, versions, orgBindings, principalBindings, orgMembers, wsMembers>> BY DEF tables
<1>3. NamesOK' BY <1>2 DEF ProviderOK, WebhooksOK, NamesOK
<1>4. \A x, entity : VersionsOf(x, entity)' = VersionsOf(x, entity) BY <1>2 DEF VersionsOf
<1>5. \A x : Tombstone(x)' = Tombstone(x) BY <1>4 DEF Tombstone
<1>6. ASSUME NEW x \in Exts PROVE OrganizationOK(x)'
  <2>1. OrganizationOK(x) BY DEF WebhooksOK
  <2>2. \A i \in OrganizationEvents(x) : i \in DOMAIN sent BY DEF OrganizationEvents, EventsOf
  <2> QED BY <1>1, <1>2, <1>4, <1>5, <2>1, <2>2 DEF OrganizationOK
<1>7. ASSUME NEW x \in Exts, NEW u \in Users PROVE MemberOK(x, u)'
  <2>1. MemberOK(x, u) BY DEF WebhooksOK
  <2>2. \A i \in MemberEvents(x, u) : i \in DOMAIN sent BY DEF MemberEvents, EventsOf
  <2>3. Unknown(x, u)' = Unknown(x, u) BY <1>1, <1>2, <1>4 DEF Unknown, RowsOf
  <2>4. ASSUME NEW k \in MemberEvents(x, u), NewestApplied(x, u, k) PROVE NewestApplied(x, u, k)'
    BY <1>1, <1>2, <1>4, <2>2, <2>4 DEF NewestApplied, RowsOf
  <2> QED BY <1>1, <1>5, <2>1, <2>3, <2>4 DEF MemberOK
<1>8. ASSUME OneOrganization' PROVE GrantsOK'
  <2>1. OneOrganization BY <1>8 DEF OneOrganization
  <2> QED BY <1>2, <2>1 DEF WebhooksOK, GrantsOK
<1> QED BY <1>3, <1>6, <1>7, <1>8 DEF WebhooksOK

LEMMA AccessKept ==
    ASSUME AccessInv, UNCHANGED <<sent, handled, admins, granted, tables>>, resolving' \subseteq resolving,
           mode' \in {mode, "webhooks"},
           boot' = [doc |-> boot.doc, left |-> boot.left, on |-> boot'.on, begun |-> boot.begun]
    PROVE  AccessInv'
<1>1. UNCHANGED <<trail, versions, orgBindings, principalBindings, orgMembers, wsMembers>> BY DEF tables
<1>2. boot'.doc = boot.doc /\ boot'.left = boot.left /\ boot'.begun = boot.begun OBVIOUS
<1>3. ProviderOK' BY DEF AccessInv, ProviderOK
<1>4. DocumentOK' BY <1>1, <1>2 DEF AccessInv, DocumentOK
<1>5. ASSUME ~boot'.begun PROVE WebhooksOK'
  <2>1. ProviderOK /\ WebhooksOK BY <1>2, <1>5 DEF AccessInv
  <2>2. UNCHANGED <<sent, handled, granted, tables>> OBVIOUS
  <2> QED BY <1>2, <2>1, <2>2, TablesKept
<1> QED BY <1>3, <1>4, <1>5 DEF AccessInv

LEMMA TickAccess == ASSUME AccessInv, Tick PROVE AccessInv'
<1>1. boot = [doc |-> boot.doc, left |-> boot.left, on |-> boot.on, begun |-> boot.begun]
  BY DEF AccessInv, DocumentOK
<1> QED BY <1>1, AccessKept DEF Tick

LEMMA AbandonAccess == ASSUME AccessInv, NEW i, NEW org, Abandon(i, org) PROVE AccessInv'
<1>1. boot = [doc |-> boot.doc, left |-> boot.left, on |-> boot.on, begun |-> boot.begun]
  BY DEF AccessInv, DocumentOK
<1> QED BY <1>1, AccessKept DEF Abandon

LEMMA EndBootstrapAccess == ASSUME AccessInv, EndBootstrap PROVE AccessInv'
<1>1. boot = [doc |-> boot.doc, left |-> boot.left, on |-> boot.on, begun |-> boot.begun]
  BY DEF AccessInv, DocumentOK
<1>2. boot' = [doc |-> boot.doc, left |-> boot.left, on |-> FALSE, begun |-> boot.begun]
  BY <1>1 DEF EndBootstrap
<1> QED BY <1>2, AccessKept DEF EndBootstrap

LEMMA SwitchAccess == ASSUME AccessInv, SwitchToWebhooks PROVE AccessInv'
<1>1. boot = [doc |-> boot.doc, left |-> boot.left, on |-> boot.on, begun |-> boot.begun]
  BY DEF AccessInv, DocumentOK
<1> QED BY <1>1, AccessKept DEF SwitchToWebhooks

LEMMA EmitAccess ==
    ASSUME AccessInv, NEW x \in Exts, NEW who \in Users \cup {NoRole},
           NEW kind \in {"organization", "membership"}, NEW deleted \in BOOLEAN,
           NEW role \in OrganizationRoles \cup {NoRole}, Emit(x, kind, who, deleted, role)
    PROVE  AccessInv'
<1> DEFINE ev == [ext |-> x, kind |-> kind, who |-> who, deleted |-> deleted, role |-> role]
           n == Len(sent) + 1
<1>1. /\ sent \in Seq(SentEvent) /\ handled \subseteq DOMAIN sent /\ admins \in Nat
      /\ \A r \in resolving : r[1] \in DOMAIN sent
      /\ \A i \in DOMAIN sent : sent[i].kind = "organization" <=> sent[i].who = NoRole
  BY DEF AccessInv, ProviderOK
<1>2. ev \in SentEvent BY DEF SentEvent
<1>3. /\ mode = "webhooks" /\ (kind = "organization" <=> who = NoRole)
      /\ \A i \in EventsOf(x, "organization", NoRole) : ~sent[i].deleted
      /\ sent' = Append(sent, ev)
      /\ UNCHANGED <<now, mode, resolving, handled, admins, granted, tables, boot>>
  BY DEF Emit
<1>4. UNCHANGED <<trail, versions, orgBindings, principalBindings, orgMembers, wsMembers>>
  BY <1>3 DEF tables
<1>5. /\ sent' \in Seq(SentEvent) /\ DOMAIN sent' = DOMAIN sent \cup {n} /\ sent'[n] = ev
      /\ \A i \in DOMAIN sent : sent'[i] = sent[i] /\ i < n
  <2> HIDE DEF ev
  <2> QED BY <1>1, <1>2, <1>3
<1>6. ProviderOK'
  <2>1. \A i \in DOMAIN sent' : sent'[i].kind = "organization" <=> sent'[i].who = NoRole
    BY <1>1, <1>3, <1>5
  <2>2. ASSUME NEW i \in DOMAIN sent', NEW j \in DOMAIN sent',
               sent'[i].kind = "organization", sent'[j].kind = "organization",
               sent'[i].ext = sent'[j].ext, sent'[i].deleted
        PROVE  j <= i
    <3>1. CASE i = n BY <1>1, <1>5, <3>1
    <3>2. CASE i # n /\ j = n
      <4>1. i \in EventsOf(x, "organization", NoRole) BY <1>1, <1>5, <2>2, <3>2 DEF EventsOf
      <4> QED BY <1>3, <1>5, <2>2, <3>2, <4>1
    <3>3. CASE i # n /\ j # n BY <1>5, <2>2, <3>3 DEF AccessInv, ProviderOK
    <3> QED BY <3>1, <3>2, <3>3
  <2> QED BY <1>1, <1>3, <1>5, <2>1, <2>2 DEF ProviderOK
<1>7. DocumentOK' BY <1>3, <1>4 DEF AccessInv, DocumentOK
<1>8. ASSUME ~boot'.begun PROVE WebhooksOK'
  <2>1. ProviderOK /\ WebhooksOK BY <1>3, <1>8 DEF AccessInv
  <2>2. UNCHANGED <<handled, granted, tables>> BY <1>3
  <2> QED BY <1>3, <1>5, <2>1, <2>2, TablesKept
<1> QED BY <1>6, <1>7, <1>8 DEF AccessInv

LEMMA ResolvedAccess ==
    ASSUME AccessInv, NEW i \in DOMAIN sent, ResolveOrganization(i) PROVE AccessInv'
<1> DEFINE found == IF \E b \in orgBindings : b.ext = sent[i].ext
                    THEN (CHOOSE b \in orgBindings : b.ext = sent[i].ext).org
                    ELSE Own(sent[i].ext)
<1>1. /\ resolving' = resolving \cup {<<i, found>>}
      /\ UNCHANGED <<now, mode, sent, handled, admins, granted, tables, boot>>
  BY DEF ResolveOrganization
<1>2. UNCHANGED <<trail, versions, orgBindings, principalBindings, orgMembers, wsMembers>>
  BY <1>1 DEF tables
<1>3. ProviderOK' BY <1>1 DEF AccessInv, ProviderOK
<1>4. DocumentOK'
  <2>1. mode # "documents" BY DEF AccessInv, DocumentOK
  <2> QED BY <1>1, <1>2, <2>1 DEF AccessInv, DocumentOK
<1>5. ASSUME ~boot'.begun PROVE WebhooksOK'
  <2>1. ProviderOK /\ WebhooksOK BY <1>1, <1>5 DEF AccessInv
  <2>2. found = Own(sent[i].ext)
    <3>1. CASE \E b \in orgBindings : b.ext = sent[i].ext
      <4> DEFINE b == CHOOSE b \in orgBindings : b.ext = sent[i].ext
      <4>1. b \in orgBindings /\ b.ext = sent[i].ext BY <3>1, Zenon
      <4>2. PICK j \in DOMAIN sent : b = [ext |-> sent[j].ext, org |-> Own(sent[j].ext)]
        BY <2>1, <4>1 DEF WebhooksOK, NamesOK
      <4>3. b.org = Own(sent[i].ext)
        <5> HIDE DEF b
        <5> QED BY <4>1, <4>2
      <4> QED BY <3>1, <4>3
    <3>2. CASE ~\E b \in orgBindings : b.ext = sent[i].ext BY <3>2
    <3> QED BY <3>1, <3>2
  <2>3. UNCHANGED <<sent, handled, granted, tables>> BY <1>1
  <2>4. \A r \in resolving' : r \in resolving
                \/ (r[1] \in DOMAIN sent /\ r = <<r[1], Own(sent[r[1]].ext)>>)
    <3> HIDE DEF found
    <3> QED BY <1>1, <2>2
  <2> QED BY <1>1, <2>1, <2>3, <2>4, TablesKept
<1> QED BY <1>3, <1>4, <1>5 DEF AccessInv

-----------------------------------------------------------------------------
(* The bootstrap.                                                           *)
LEMMA StartBootstrapAccess ==
    ASSUME AccessInv, NEW d \in Documents, StartBootstrap(d) PROVE AccessInv'
<1>1. /\ orgBindings' = d.organizations /\ principalBindings' = d.principals
      /\ boot' = [doc |-> d, on |-> TRUE, begun |-> TRUE,
                  left |-> KnownOrganizations \cup {b.org : b \in d.organizations}]
      /\ UNCHANGED <<mode, sent, resolving, handled, admins, granted,
                     trail, versions, orgMembers, wsMembers>>
  BY DEF StartBootstrap
<1>2. /\ boot'.doc = d /\ boot'.begun
      /\ boot'.left = KnownOrganizations \cup {b.org : b \in d.organizations}
  BY <1>1
<1>3. ProviderOK' BY <1>1 DEF AccessInv, ProviderOK
<1>4. \A m \in orgMembers : m.org \in boot'.left BY <1>2 DEF KnownOrganizations
<1>5. boot' = [doc |-> boot'.doc, left |-> boot'.left, on |-> boot'.on, begun |-> boot'.begun]
  BY <1>1
<1>6. mode' = "documents" /\ admins' = 0 =>
        \A w \in wsMembers' : /\ w.source = "provider" /\ \E m \in orgMembers' : m.org = w.org
                             /\ w.org \in boot'.left
  BY <1>1, <1>4 DEF AccessInv, DocumentOK
<1>7. DocumentOK' BY <1>1, <1>2, <1>5, <1>6 DEF AccessInv, DocumentOK
<1> QED BY <1>2, <1>3, <1>7 DEF AccessInv

LEMMA ReplaceAccess ==
    ASSUME AccessInv, NEW org \in boot.left, ReplaceOrganization(org) PROVE AccessInv'
<1> DEFINE entered == {[org |-> org, ws |-> m.ws, principal |-> m.principal, role |-> m.role,
                        source |-> "provider"] : m \in Rows(boot.doc, org)}
           joined == {[org |-> org, principal |-> m.principal, role |-> m.role,
                       source |-> "provider"] : m \in Rows(boot.doc, org)}
<1>1. /\ wsMembers' = {r \in wsMembers : r.org # org \/ r.source # "provider"} \cup entered
      /\ orgMembers' = {r \in orgMembers : r.org # org \/ r.source # "provider"} \cup joined
      /\ boot' = [boot EXCEPT !.left = @ \ {org}]
      /\ UNCHANGED <<mode, sent, resolving, handled, admins, granted,
                     trail, versions, orgBindings, principalBindings>>
  BY DEF ReplaceOrganization
<1>2. boot = [doc |-> boot.doc, left |-> boot.left, on |-> boot.on, begun |-> boot.begun]
  BY DEF AccessInv, DocumentOK
<1>3. boot' = [doc |-> boot.doc, left |-> boot.left \ {org}, on |-> boot.on, begun |-> boot.begun]
  BY <1>1, <1>2
<1>4. boot'.doc = boot.doc /\ boot'.left = boot.left \ {org} /\ boot'.begun = boot.begun BY <1>3
<1>5. ProviderOK' BY <1>1 DEF AccessInv, ProviderOK
<1>6. boot.begun BY DEF AccessInv, WebhooksOK, NamesOK
<1>7. ASSUME mode = "documents", admins = 0, NEW w \in wsMembers'
      PROVE  /\ w.source = "provider" /\ \E m \in orgMembers' : m.org = w.org
             /\ \/ w.org \in boot'.left
                \/ \E m \in boot.doc.memberships :
                      m.org = w.org /\ m.ws = w.ws /\ m.principal = w.principal
  <2>1. CASE w \in entered
    <3>1. PICK m \in Rows(boot.doc, org) :
             w = [org |-> org, ws |-> m.ws, principal |-> m.principal, role |-> m.role, source |-> "provider"]
      BY <2>1
    <3>2. m \in boot.doc.memberships /\ m.org = org BY DEF Rows
    <3>3. [org |-> org, principal |-> m.principal, role |-> m.role, source |-> "provider"] \in orgMembers'
      BY <1>1
    <3> QED BY <3>1, <3>2, <3>3
  <2>2. CASE w \notin entered
    <3>1. w \in wsMembers /\ (w.org # org \/ w.source # "provider") BY <1>1, <2>2
    <3>2. /\ w.source = "provider" /\ \E m \in orgMembers : m.org = w.org
          /\ \/ w.org \in boot.left
             \/ \E m \in boot.doc.memberships :
                   m.org = w.org /\ m.ws = w.ws /\ m.principal = w.principal
      BY <1>7, <3>1 DEF AccessInv, DocumentOK
    <3>3. \E m \in orgMembers' : m.org = w.org BY <1>1, <3>1, <3>2
    <3> QED BY <1>4, <3>1, <3>2, <3>3
  <2> QED BY <2>1, <2>2
<1>8. DocumentOK'
  <2> HIDE DEF entered, joined
  <2>1. mode' = "documents" /\ admins' = 0 =>
          \A w \in wsMembers' :
             /\ w.source = "provider" /\ \E m \in orgMembers' : m.org = w.org
             /\ \/ w.org \in boot'.left
                \/ \E m \in boot'.doc.memberships :
                      m.org = w.org /\ m.ws = w.ws /\ m.principal = w.principal
    BY <1>1, <1>4, <1>7
  <2>2. boot' = [doc |-> boot'.doc, left |-> boot'.left, on |-> boot'.on, begun |-> boot'.begun]
    BY <1>3
  <2> QED BY <1>1, <1>4, <2>1, <2>2 DEF AccessInv, DocumentOK
<1> QED BY <1>4, <1>5, <1>6, <1>8 DEF AccessInv

-----------------------------------------------------------------------------
(* What one transaction does to the versions, the bindings and the rows.    *)
LEMMA VersionsAfter ==
    ASSUME NEW e, Apply(e), NEW x, NEW entity
    PROVE  VersionsOf(x, entity)' =
             IF Applied(e) /\ e.org = Own(x) /\ e.ext = x /\ Entity(e) = entity
             THEN {[org |-> e.org, ext |-> e.ext, entity |-> entity, at |-> e.at, deleted |-> e.deleted]}
             ELSE VersionsOf(x, entity)
<1> DEFINE new == [org |-> e.org, ext |-> e.ext, entity |-> Entity(e), at |-> e.at, deleted |-> e.deleted]
<1>1. CASE ~Applied(e)
  <2>1. versions' = versions BY <1>1 DEF Apply, tables
  <2> QED BY <1>1, <2>1 DEF VersionsOf
<1>2. CASE Applied(e)
  <2>1. versions' = (versions \ Version(e, Entity(e))) \cup {new} BY <1>2 DEF Apply
  <2>2. new.org = e.org /\ new.ext = e.ext /\ new.entity = Entity(e) OBVIOUS
  <2> HIDE DEF new
  <2>3. CASE e.org = Own(x) /\ e.ext = x /\ Entity(e) = entity
    <3>1. VersionsOf(x, entity)' = {new} BY <2>1, <2>2, <2>3 DEF VersionsOf, Version
    <3> QED BY <1>2, <2>3, <3>1 DEF new
  <2>4. CASE ~(e.org = Own(x) /\ e.ext = x /\ Entity(e) = entity)
    <3>1. VersionsOf(x, entity)' = VersionsOf(x, entity)
      BY <2>1, <2>2, <2>4 DEF VersionsOf, Version
    <3> QED BY <2>4, <3>1
  <2> QED BY <2>3, <2>4
<1> QED BY <1>1, <1>2

LEMMA BindingsAfter ==
    ASSUME NEW e, Apply(e)
    PROVE  /\ \A b \in orgBindings' :
                 \/ b \in orgBindings /\ ~(Applied(e) /\ e.kind = "organization" /\ e.deleted /\ b.ext = e.ext)
                 \/ /\ b = [ext |-> e.ext, org |-> e.org] /\ Applied(e) /\ e.kind # "credential"
                    /\ ~(e.kind = "organization" /\ e.deleted)
           /\ \A x : /\ \E b \in orgBindings : b.ext = x
                    /\ ~(Applied(e) /\ e.kind = "organization" /\ e.deleted /\ e.ext = x)
                    => \E b \in orgBindings' : b.ext = x
           /\ \A c \in principalBindings' :
                 c \in principalBindings \/ c = [ext |-> e.who, principal |-> e.principal]
           /\ \A u : /\ \E c \in principalBindings : c.ext = u
                    /\ ~(Applied(e) /\ e.kind = "credential" /\ e.deleted /\ e.who = u)
                    => \E c \in principalBindings' : c.ext = u
<1>1. CASE ~Applied(e)
  <2>1. orgBindings' = orgBindings /\ principalBindings' = principalBindings BY <1>1 DEF Apply, tables
  <2> QED BY <1>1, <2>1
<1>2. CASE Applied(e)
  <2>1. OrganizationDelete(e) \/ OrganizationUpsert(e) \/ MemberDelete(e) \/ MemberUpsert(e)
    BY <1>2 DEF Apply
  <2>2. \A x : (\E b \in orgBindings : b.ext = x) => \E b \in Bind(e) : b.ext = x
    <3>1. [ext |-> e.ext, org |-> e.org].ext = e.ext OBVIOUS
    <3> QED BY <3>1 DEF Bind
  <2>3. \A b \in Bind(e) : b \in orgBindings \/ b = [ext |-> e.ext, org |-> e.org] BY DEF Bind
  <2>4. CASE OrganizationDelete(e) BY <1>2, <2>4 DEF OrganizationDelete
  <2>5. CASE OrganizationUpsert(e) BY <1>2, <2>2, <2>3, <2>5 DEF OrganizationUpsert
  <2>6. CASE MemberDelete(e)
    <3>1. /\ e.kind # "organization" /\ e.deleted
          /\ orgBindings' = IF e.kind = "membership" THEN Bind(e) ELSE orgBindings
          /\ \/ principalBindings' = principalBindings
             \/ e.kind = "credential" /\ principalBindings' = {b \in principalBindings : b.ext # e.who}
      BY <2>6 DEF MemberDelete
    <3> QED BY <1>2, <2>2, <2>3, <3>1
  <2>7. CASE MemberUpsert(e)
    <3>1. /\ e.kind # "organization" /\ ~e.deleted
          /\ orgBindings' = IF e.kind = "membership" THEN Bind(e) ELSE orgBindings
          /\ principalBindings' = {b \in principalBindings : b.ext # e.who}
                                  \cup {[ext |-> e.who, principal |-> e.principal]}
      BY <2>7 DEF MemberUpsert
    <3>2. [ext |-> e.who, principal |-> e.principal].ext = e.who OBVIOUS
    <3> QED BY <1>2, <2>2, <2>3, <3>1, <3>2
  <2> QED BY <2>1, <2>4, <2>5, <2>6, <2>7
<1> QED BY <1>1, <1>2

\* The rows of another organization, or of another member, stay.
LEMMA RowsApart ==
    ASSUME NEW e, Apply(e), NEW x, NEW u,
           \/ e.org # Own(x)
           \/ e.kind = "organization" /\ ~(Applied(e) /\ e.deleted)
           \/ e.kind # "organization" /\ Own(u) \notin PrincipalsOf(e) /\ e.principal # Own(u)
    PROVE  /\ RowsOf(orgMembers, x, u)' = RowsOf(orgMembers, x, u)
           /\ RowsOf(wsMembers, x, u)' = RowsOf(wsMembers, x, u)
<1>1. CASE ~Applied(e)
  <2>1. orgMembers' = orgMembers /\ wsMembers' = wsMembers BY <1>1 DEF Apply, tables
  <2> QED BY <2>1 DEF RowsOf
<1>2. CASE Applied(e)
  <2>1. OrganizationDelete(e) \/ OrganizationUpsert(e) \/ MemberDelete(e) \/ MemberUpsert(e)
    BY <1>2 DEF Apply
  <2>2. CASE OrganizationDelete(e)
    BY <1>2, <2>2 DEF OrganizationDelete, OfProvider, RowsOf
  <2>3. CASE OrganizationUpsert(e) BY <2>3 DEF OrganizationUpsert, RowsOf
  <2>4. CASE MemberDelete(e)
    <3>1. \A r \in Removed(e) : r.org = e.org /\ r.principal \in PrincipalsOf(e) BY DEF Removed, OfProvider
    <3>2. /\ wsMembers' = wsMembers \ Removed(e)
          /\ e.kind # "organization"
          /\ \A r \in orgMembers : r \in orgMembers' \/ (r.org = e.org /\ r.principal \in PrincipalsOf(e))
          /\ orgMembers' \subseteq orgMembers
      BY <2>4 DEF MemberDelete, OfProvider
    <3> QED BY <3>1, <3>2 DEF RowsOf
  <2>5. CASE MemberUpsert(e)
    <3> DEFINE m == [org |-> e.org, principal |-> e.principal, role |-> e.role, source |-> "provider"]
               w == [org |-> e.org, ws |-> e.ws, principal |-> e.principal, role |-> e.role,
                     source |-> "provider"]
    <3>1. /\ e.kind # "organization"
          /\ orgMembers' = {r \in orgMembers : r.org # e.org \/ r.principal # e.principal} \cup {m}
          /\ wsMembers' = {r \in wsMembers : r.org # e.org \/ r.ws # e.ws \/ r.principal # e.principal}
                          \cup {w}
      BY <2>5 DEF MemberUpsert
    <3>2. m.org = e.org /\ m.principal = e.principal /\ w.org = e.org /\ w.principal = e.principal
      OBVIOUS
    <3> HIDE DEF m, w
    <3> QED BY <3>1, <3>2 DEF RowsOf
  <2> QED BY <2>1, <2>2, <2>3, <2>4, <2>5
<1> QED BY <1>1, <1>2

-----------------------------------------------------------------------------
(* A webhook is handled.                                                    *)
WebhookEvent(i) ==
    [id |-> <<"webhook", i>>, at |-> i, org |-> Own(sent[i].ext), ext |-> sent[i].ext,
     kind |-> sent[i].kind, who |-> sent[i].who, deleted |-> sent[i].deleted,
     role |-> sent[i].role, principal |-> Own(sent[i].who), ws |-> Default]

Handles(i, e) ==
    /\ i \in DOMAIN sent /\ e = WebhookEvent(i)
    /\ handled' = handled \cup {i} /\ resolving' \subseteq resolving
    /\ UNCHANGED <<mode, sent, admins, boot>>
    /\ Apply(e)
    /\ granted' = IF Applied(e) /\ e.kind = "organization" /\ e.deleted
                  THEN {g \in granted : g[1] # e.org} ELSE granted

LEMMA ProvisionHandles ==
    ASSUME ProviderOK, NamesOK, NEW r \in resolving, Provision(r[1], r[2]) PROVE \E e : Handles(r[1], e)
<1>1. r[1] \in DOMAIN sent /\ r[2] = Own(sent[r[1]].ext) BY DEF ProviderOK, NamesOK
<1>2. PICK e : e = WebhookEvent(r[1]) OBVIOUS
<1>3. e = [id |-> <<"webhook", r[1]>>, at |-> r[1], org |-> r[2], ext |-> sent[r[1]].ext,
           kind |-> sent[r[1]].kind, who |-> sent[r[1]].who, deleted |-> sent[r[1]].deleted,
           role |-> sent[r[1]].role, principal |-> Own(sent[r[1]].who), ws |-> Default]
  BY <1>1, <1>2 DEF WebhookEvent
<1>4. e.org = r[2] BY <1>3
<1>5. /\ Apply(e)
      /\ granted' = IF Applied(e) /\ e.kind = "organization" /\ e.deleted
                    THEN {g \in granted : g[1] # e.org} ELSE granted
  BY <1>3, <1>4 DEF Provision
<1>6. /\ handled' = handled \cup {r[1]} /\ resolving' \subseteq resolving
      /\ UNCHANGED <<mode, sent, admins, boot>>
  BY DEF Provision
<1> QED BY <1>1, <1>2, <1>5, <1>6 DEF Handles

LEMMA Fields ==
    ASSUME ProviderOK, NEW i, NEW e, Handles(i, e)
    PROVE  /\ i \in DOMAIN sent /\ i \in Nat /\ e.id = <<"webhook", i>> /\ e.at = i
           /\ e.org = Own(sent[i].ext) /\ e.ext = sent[i].ext /\ e.kind = sent[i].kind
           /\ e.who = sent[i].who /\ e.deleted = sent[i].deleted /\ e.role = sent[i].role
           /\ e.principal = Own(sent[i].who) /\ e.ws = Default
           /\ e.kind \in {"organization", "membership"} /\ e.ext \in Exts
           /\ e.who \in Users \cup {NoRole} /\ e.deleted \in BOOLEAN
           /\ e.kind = "organization" <=> e.who = NoRole
           /\ PrincipalsOf(e) = {e.principal}
           /\ Entity(e) = IF e.kind = "organization" THEN <<"organization">> ELSE <<"membership", e.who>>
<1>1. i \in DOMAIN sent /\ i \in Nat /\ sent[i] \in SentEvent BY DEF Handles, ProviderOK
<1>2. /\ e.id = <<"webhook", i>> /\ e.at = i
      /\ e.org = Own(sent[i].ext) /\ e.ext = sent[i].ext /\ e.kind = sent[i].kind
      /\ e.who = sent[i].who /\ e.deleted = sent[i].deleted /\ e.role = sent[i].role
      /\ e.principal = Own(sent[i].who) /\ e.ws = Default
  BY DEF Handles, WebhookEvent
<1>3. sent[i].kind = "organization" <=> sent[i].who = NoRole BY <1>1 DEF ProviderOK
<1>4. /\ sent[i].kind \in {"organization", "membership"} /\ sent[i].ext \in Exts
      /\ sent[i].who \in Users \cup {NoRole} /\ sent[i].deleted \in BOOLEAN
  BY <1>1 DEF SentEvent
<1>5. PrincipalsOf(e) = {e.principal} BY <1>2, <1>4 DEF PrincipalsOf
<1>6. Entity(e) = IF e.kind = "organization" THEN <<"organization">> ELSE <<"membership", e.who>>
  BY <1>2, <1>4 DEF Entity
<1> QED BY <1>1, <1>2, <1>3, <1>4, <1>5, <1>6

LEMMA EventsAfter ==
    ASSUME ProviderOK, NEW i, NEW e, Handles(i, e), NEW x
    PROVE  /\ OrganizationEvents(x)' = OrganizationEvents(x) \cup
                 (IF e.kind = "organization" /\ e.ext = x THEN {i} ELSE {})
           /\ \A u : MemberEvents(x, u)' = MemberEvents(x, u) \cup
                 (IF e.kind = "membership" /\ e.ext = x /\ e.who = u THEN {i} ELSE {})
<1>1. \A kind, who : (EventsOf(x, kind, who) \cap handled)' =
        (EventsOf(x, kind, who) \cap handled) \cup
           (IF sent[i].kind = kind /\ sent[i].ext = x /\ sent[i].who = who THEN {i} ELSE {})
  BY DEF Handles, EventsOf
<1> QED BY <1>1, Fields DEF OrganizationEvents, MemberEvents

LEMMA ProvisionNames ==
    ASSUME ProviderOK, NamesOK, NEW i, NEW e, Handles(i, e) PROVE NamesOK'
<1>1. /\ i \in DOMAIN sent /\ e.id = <<"webhook", i>> /\ e.org = Own(sent[i].ext) /\ e.ext = sent[i].ext
      /\ e.principal = Own(e.who) /\ e.ws = Default /\ e.kind \in {"organization", "membership"}
  BY Fields
<1>2. /\ sent' = sent /\ boot' = boot /\ handled' = handled \cup {i} /\ resolving' \subseteq resolving
      /\ Apply(e)
  BY DEF Handles
<1>3. \A b \in orgBindings' :
        \E j \in DOMAIN sent' : b = [ext |-> sent'[j].ext, org |-> Own(sent'[j].ext)]
  BY <1>1, <1>2, BindingsAfter DEF NamesOK
<1>4. \A c \in principalBindings' : c = [ext |-> c.ext, principal |-> Own(c.ext)]
  <2> SUFFICES ASSUME NEW c \in principalBindings' PROVE c = [ext |-> c.ext, principal |-> Own(c.ext)]
    OBVIOUS
  <2>1. c \in principalBindings \/ c = [ext |-> e.who, principal |-> e.principal]
    BY <1>2, BindingsAfter
  <2> QED BY <1>1, <2>1 DEF NamesOK
<1>5. \A r \in resolving' : r = <<r[1], Own(sent'[r[1]].ext)>>
  BY <1>2 DEF NamesOK
<1>6. \A t \in trail' : t[1] = "webhook" => t[2] \in handled'
  <2>1. trail' \subseteq trail \cup {e.id} BY <1>2 DEF Apply, tables
  <2> QED BY <1>1, <1>2, <2>1 DEF NamesOK
<1>7. /\ \A w \in wsMembers' : w \in wsMembers \/ (w.source = "provider" /\ w.ws = Default)
      /\ \A m \in orgMembers' : m \in orgMembers \/ m.source = "provider"
  <2>1. CASE ~Applied(e) BY <1>2, <2>1 DEF Apply, tables
  <2>2. CASE Applied(e)
    <3>1. OrganizationDelete(e) \/ OrganizationUpsert(e) \/ MemberDelete(e) \/ MemberUpsert(e)
      BY <1>2, <2>2 DEF Apply
    <3>2. CASE OrganizationDelete(e) BY <3>2 DEF OrganizationDelete
    <3>3. CASE OrganizationUpsert(e) BY <3>3 DEF OrganizationUpsert
    <3>4. CASE MemberDelete(e) BY <3>4 DEF MemberDelete
    <3>5. CASE MemberUpsert(e) BY <1>1, <3>5 DEF MemberUpsert
    <3> QED BY <3>1, <3>2, <3>3, <3>4, <3>5
  <2> QED BY <2>1, <2>2
<1>8. /\ \A w \in wsMembers' :
           w.source = "provider" /\ \A u \in Users : w.principal = Own(u) => w.ws = Default
      /\ \A m \in orgMembers' : m.source = "provider"
  BY <1>7 DEF NamesOK
<1> QED BY <1>2, <1>3, <1>4, <1>5, <1>6, <1>8 DEF NamesOK

LEMMA ProvisionOrganization ==
    ASSUME ProviderOK, NamesOK, NEW x \in Exts, OrganizationOK(x), NEW i, NEW e, Handles(i, e)
    PROVE  OrganizationOK(x)'
<1> DEFINE entity == <<"organization">>
<1>1. /\ i \in DOMAIN sent /\ i \in Nat /\ e.id = <<"webhook", i>> /\ e.at = i
      /\ e.org = Own(e.ext) /\ e.ext = sent[i].ext /\ e.kind = sent[i].kind /\ e.deleted = sent[i].deleted
      /\ e.who = sent[i].who
      /\ e.kind \in {"organization", "membership"} /\ e.deleted \in BOOLEAN
      /\ e.kind = "organization" <=> e.who = NoRole
      /\ Entity(e) = IF e.kind = "organization" THEN entity ELSE <<"membership", e.who>>
  BY Fields
<1>2. sent' = sent /\ Apply(e) BY DEF Handles
<1>3. OrganizationEvents(x)' = OrganizationEvents(x) \cup
        (IF e.kind = "organization" /\ e.ext = x THEN {i} ELSE {})
  BY EventsAfter
<1>4. /\ \A b \in orgBindings' :
            \/ b \in orgBindings /\ ~(Applied(e) /\ e.kind = "organization" /\ e.deleted /\ b.ext = e.ext)
            \/ /\ b = [ext |-> e.ext, org |-> e.org] /\ Applied(e)
               /\ ~(e.kind = "organization" /\ e.deleted)
  BY <1>2, BindingsAfter
<1>5. \A j \in OrganizationEvents(x) :
        j \in DOMAIN sent /\ j \in Nat /\ j \in handled
        /\ sent[j].kind = "organization" /\ sent[j].ext = x /\ sent[j].who = NoRole
  BY DEF OrganizationEvents, EventsOf, ProviderOK
<1>6. /\ \A v \in VersionsOf(x, entity) :
            v.at \in OrganizationEvents(x) /\ v.deleted = sent[v.at].deleted
      /\ \A j \in OrganizationEvents(x) : sent[j].deleted => Tombstone(x)
      /\ Tombstone(x) => \A b \in orgBindings : b.ext # x
  BY DEF OrganizationOK
<1>7. CASE ~(e.kind = "organization" /\ e.ext = x)
  <2>1. VersionsOf(x, entity)' = VersionsOf(x, entity)
    BY <1>1, <1>2, <1>7, VersionsAfter, OwnInjective, Entities
  <2>2. Tombstone(x)' = Tombstone(x) BY <2>1 DEF Tombstone
  <2>3. ASSUME Tombstone(x), NEW b \in orgBindings' PROVE b.ext # x
    <3>1. CASE b \in orgBindings BY <1>6, <2>3, <3>1
    <3>2. CASE b = [ext |-> e.ext, org |-> e.org] /\ Applied(e)
      <4>1. b.ext = e.ext BY <3>2
      <4>2. ASSUME e.ext = x PROVE FALSE
        <5>1. VersionsOf(x, entity) = Version(e, entity) BY <1>1, <4>2 DEF VersionsOf, Version
        <5> QED BY <1>7, <2>3, <3>2, <4>2, <5>1 DEF Applied, Ignored, Tombstone
      <4> QED BY <4>1, <4>2
    <3> QED BY <1>4, <3>1, <3>2
  <2>4. OrganizationEvents(x)' = OrganizationEvents(x) BY <1>3, <1>7
  <2> QED BY <1>2, <1>6, <2>1, <2>2, <2>3, <2>4 DEF OrganizationOK
<1>8. CASE e.kind = "organization" /\ e.ext = x
  <2>1. Entity(e) = entity /\ Version(e, entity) = VersionsOf(x, entity)
    BY <1>1, <1>8 DEF VersionsOf, Version
  <2>2. OrganizationEvents(x)' = OrganizationEvents(x) \cup {i} BY <1>3, <1>8
  <2>3. \A v \in VersionsOf(x, entity) : v.deleted => i <= v.at
    BY <1>1, <1>5, <1>6, <1>8 DEF ProviderOK
  <2>4. CASE ~Applied(e)
    <3>1. VersionsOf(x, entity)' = VersionsOf(x, entity) BY <1>2, <2>4, VersionsAfter
    <3>2. Tombstone(x)' = Tombstone(x) BY <3>1 DEF Tombstone
    <3>3. orgBindings' = orgBindings BY <1>2, <2>4 DEF Apply, tables
    <3>4. ASSUME sent[i].deleted PROVE Tombstone(x)
      <4>1. CASE e.id \in trail
        <5>1. e.id[1] = "webhook" /\ e.id[2] = i BY <1>1
        <5>2. i \in OrganizationEvents(x) BY <1>1, <1>8, <4>1, <5>1 DEF NamesOK, OrganizationEvents, EventsOf
        <5> QED BY <1>6, <3>4, <5>2
      <4>2. CASE Ignored(e)
        <5>1. PICK v \in VersionsOf(x, entity) : e.at < v.at \/ (e.at = v.at /\ v.deleted)
          BY <1>1, <1>8, <2>1, <3>4, <4>2 DEF Ignored
        <5>2. v.at \in DOMAIN sent /\ v.at \in Nat /\ sent[v.at].kind = "organization" /\ sent[v.at].ext = x
          BY <1>5, <1>6
        <5>3. v.at <= i BY <1>1, <1>8, <3>4, <5>2 DEF ProviderOK
        <5>4. v.deleted BY <1>1, <5>1, <5>2, <5>3
        <5> QED BY <5>4 DEF Tombstone
      <4> QED BY <2>4, <4>1, <4>2 DEF Applied
    <3> QED BY <1>2, <1>6, <2>2, <3>1, <3>2, <3>3, <3>4 DEF OrganizationOK
  <2>5. CASE Applied(e)
    <3> DEFINE new == [org |-> e.org, ext |-> e.ext, entity |-> entity, at |-> e.at, deleted |-> e.deleted]
    <3>1. VersionsOf(x, entity)' = {new} BY <1>1, <1>2, <1>8, <2>1, <2>5, VersionsAfter
    <3>2. new.at = i /\ new.deleted = e.deleted BY <1>1
    <3> HIDE DEF new
    <3>3. Tombstone(x)' <=> e.deleted BY <3>1, <3>2 DEF Tombstone
    <3>4. ~Tombstone(x)
      <4> SUFFICES ASSUME NEW v \in VersionsOf(x, entity), v.deleted PROVE FALSE BY DEF Tombstone
      <4>1. v.at \in Nat /\ v.at \in DOMAIN sent /\ v.deleted = sent[v.at].deleted BY <1>5, <1>6
      <4>2. i <= v.at BY <2>3
      <4> QED BY <1>1, <2>1, <2>5, <4>1, <4>2 DEF Applied, Ignored
    <3>5. \A j \in OrganizationEvents(x) : ~sent[j].deleted BY <1>6, <3>4
    <3>6. e.deleted => \A b \in orgBindings' : b.ext # x BY <1>4, <1>8, <2>5
    <3> QED BY <1>1, <1>2, <2>2, <3>1, <3>2, <3>3, <3>5, <3>6 DEF OrganizationOK
  <2> QED BY <2>4, <2>5
<1> QED BY <1>7, <1>8

\* The rows of a membership once its event has been applied.
LEMMA MemberRows ==
    ASSUME NamesOK, NEW e, Apply(e), Applied(e), e.kind = "membership", e.ws = Default,
           PrincipalsOf(e) = {e.principal}, NEW x, NEW u \in Users, e.org = Own(x), e.principal = Own(u)
    PROVE  /\ e.deleted => RowsOf(orgMembers, x, u)' = {} /\ RowsOf(wsMembers, x, u)' = {}
           /\ ~e.deleted =>
                 /\ RowsOf(orgMembers, x, u)' # {} /\ RowsOf(wsMembers, x, u)' # {}
                 /\ \A m \in RowsOf(orgMembers, x, u)' : m.role = e.role
<1>1. \/ e.deleted /\ MemberDelete(e)
      \/ ~e.deleted /\ MemberUpsert(e)
  BY DEF Apply, OrganizationDelete, OrganizationUpsert, MemberDelete, MemberUpsert
<1>2. /\ \A w \in wsMembers : w.source = "provider" /\ (w.principal = Own(u) => w.ws = Default)
      /\ \A m \in orgMembers : m.source = "provider"
  BY DEF NamesOK
<1>3. CASE e.deleted
  <2>1. \A w \in RowsOf(wsMembers, x, u) : w \in Removed(e) BY <1>2 DEF RowsOf, Removed, OfProvider
  <2>2. Left(e) = {} BY <1>2 DEF Left, Removed, OfProvider
  <2>3. /\ wsMembers' = wsMembers \ Removed(e)
        /\ orgMembers' = orgMembers \ {r \in OfProvider(orgMembers, e) : r.principal \in PrincipalsOf(e)}
    BY <1>1, <1>3, <2>2 DEF MemberDelete
  <2>4. RowsOf(wsMembers, x, u)' = {} BY <2>1, <2>3 DEF RowsOf
  <2>5. RowsOf(orgMembers, x, u)' = {} BY <1>2, <2>3 DEF RowsOf, OfProvider
  <2> QED BY <1>3, <2>4, <2>5
<1>4. CASE ~e.deleted
  <2> DEFINE m == [org |-> e.org, principal |-> e.principal, role |-> e.role, source |-> "provider"]
             w == [org |-> e.org, ws |-> e.ws, principal |-> e.principal, role |-> e.role,
                   source |-> "provider"]
  <2>1. /\ orgMembers' = {r \in orgMembers : r.org # e.org \/ r.principal # e.principal} \cup {m}
        /\ wsMembers' = {r \in wsMembers : r.org # e.org \/ r.ws # e.ws \/ r.principal # e.principal}
                        \cup {w}
    BY <1>1, <1>4 DEF MemberUpsert
  <2>2. /\ m.org = Own(x) /\ m.principal = Own(u) /\ m.role = e.role
        /\ w.org = Own(x) /\ w.principal = Own(u)
    OBVIOUS
  <2> HIDE DEF m, w
  <2> QED BY <1>4, <2>1, <2>2 DEF RowsOf
<1> QED BY <1>3, <1>4

LEMMA ProvisionMember ==
    ASSUME ProviderOK, NamesOK, NEW x \in Exts, OrganizationOK(x), NEW u \in Users, MemberOK(x, u),
           NEW i, NEW e, Handles(i, e)
    PROVE  MemberOK(x, u)'
<1> DEFINE entity == <<"membership", u>>
<1>1. /\ i \in DOMAIN sent /\ i \in Nat /\ e.id = <<"webhook", i>> /\ e.at = i
      /\ e.org = Own(e.ext) /\ e.ext = sent[i].ext /\ e.kind = sent[i].kind /\ e.deleted = sent[i].deleted
      /\ e.who = sent[i].who /\ e.role = sent[i].role /\ e.principal = Own(e.who) /\ e.ws = Default
      /\ e.kind \in {"organization", "membership"} /\ e.deleted \in BOOLEAN
      /\ e.kind = "organization" <=> e.who = NoRole
      /\ PrincipalsOf(e) = {e.principal}
      /\ Entity(e) = IF e.kind = "organization" THEN <<"organization">> ELSE <<"membership", e.who>>
  BY Fields
<1>2. sent' = sent /\ Apply(e) /\ handled' = handled \cup {i} BY DEF Handles
<1>3. MemberEvents(x, u)' = MemberEvents(x, u) \cup
        (IF e.kind = "membership" /\ e.ext = x /\ e.who = u THEN {i} ELSE {})
  BY EventsAfter
<1>4. /\ \A y : /\ \E b \in orgBindings : b.ext = y
               /\ ~(Applied(e) /\ e.kind = "organization" /\ e.deleted /\ e.ext = y)
               => \E b \in orgBindings' : b.ext = y
      /\ \A v : (\E c \in principalBindings : c.ext = v) => \E c \in principalBindings' : c.ext = v
  BY <1>1, <1>2, BindingsAfter
<1>5. OrganizationOK(x)' BY ProvisionOrganization
<1>6. Tombstone(x) => Tombstone(x)'
  <2> SUFFICES ASSUME NEW v \in VersionsOf(x, <<"organization">>), v.deleted PROVE Tombstone(x)'
    BY DEF Tombstone
  <2>1. v.at \in OrganizationEvents(x) /\ sent[v.at].deleted BY DEF OrganizationOK
  <2>2. v.at \in OrganizationEvents(x)' BY <2>1, EventsAfter
  <2> QED BY <1>2, <1>5, <2>1, <2>2 DEF OrganizationOK
<1> SUFFICES ASSUME ~Tombstone(x)'
             PROVE  Unknown(x, u)' \/ \E k \in MemberEvents(x, u)' : NewestApplied(x, u, k)'
  BY DEF MemberOK
<1>7. ~Tombstone(x) /\ (Unknown(x, u) \/ \E k \in MemberEvents(x, u) : NewestApplied(x, u, k))
  BY <1>6 DEF MemberOK
<1>8. ~(Applied(e) /\ e.kind = "organization" /\ e.deleted /\ e.ext = x)
  <2> SUFFICES ASSUME e.kind = "organization", e.deleted, e.ext = x PROVE FALSE OBVIOUS
  <2>1. i \in OrganizationEvents(x)' BY EventsAfter
  <2> QED BY <1>1, <1>2, <1>5, <2>1 DEF OrganizationOK
<1>9. \A k : k \in MemberEvents(x, u) => k \in Nat /\ k \in DOMAIN sent
  BY DEF MemberEvents, EventsOf, ProviderOK
<1>10. CASE ~(e.kind = "membership" /\ e.ext = x /\ e.who = u)
  <2>1. MemberEvents(x, u)' = MemberEvents(x, u) BY <1>3, <1>10
  <2>2. VersionsOf(x, entity)' = VersionsOf(x, entity)
    BY <1>1, <1>2, <1>10, VersionsAfter, OwnInjective, Entities
  <2>3. \/ e.org # Own(x)
        \/ e.kind = "organization" /\ ~(Applied(e) /\ e.deleted)
        \/ e.kind # "organization" /\ Own(u) \notin PrincipalsOf(e) /\ e.principal # Own(u)
    BY <1>1, <1>8, <1>10, OwnInjective
  <2>4. /\ RowsOf(orgMembers, x, u)' = RowsOf(orgMembers, x, u)
        /\ RowsOf(wsMembers, x, u)' = RowsOf(wsMembers, x, u)
    BY <1>2, <2>3, RowsApart
  <2>5. Unknown(x, u)' = Unknown(x, u) BY <2>1, <2>2, <2>4 DEF Unknown
  <2>6. ASSUME NEW k \in MemberEvents(x, u), NewestApplied(x, u, k) PROVE NewestApplied(x, u, k)'
    BY <1>2, <1>4, <1>8, <2>1, <2>2, <2>4, <2>6 DEF NewestApplied
  <2> QED BY <1>7, <2>1, <2>5, <2>6
<1>11. CASE e.kind = "membership" /\ e.ext = x /\ e.who = u
  <2>1. MemberEvents(x, u)' = MemberEvents(x, u) \cup {i} BY <1>3, <1>11
  <2>2. /\ Entity(e) = entity /\ Version(e, entity) = VersionsOf(x, entity)
        /\ Version(e, <<"organization">>) = VersionsOf(x, <<"organization">>)
    BY <1>1, <1>11 DEF VersionsOf, Version
  <2>3. \A v \in Version(e, <<"organization">>) : ~v.deleted BY <1>7, <2>2 DEF Tombstone
  <2>4. CASE ~Applied(e)
    <3>1. UNCHANGED <<orgBindings, principalBindings, orgMembers, wsMembers, versions>>
      BY <1>2, <2>4 DEF Apply, tables
    <3>2. \/ i \in MemberEvents(x, u)
          \/ \E v \in VersionsOf(x, entity) : i < v.at \/ i = v.at
      <4>1. CASE e.id \in trail
        <5>1. e.id[1] = "webhook" /\ e.id[2] = i BY <1>1
        <5> QED BY <1>1, <1>11, <4>1, <5>1 DEF NamesOK, MemberEvents, EventsOf
      <4>2. CASE Ignored(e) BY <1>1, <2>2, <2>3, <4>2 DEF Ignored
      <4> QED BY <2>4, <4>1, <4>2 DEF Applied
    <3>3. ~Unknown(x, u) BY <3>2 DEF Unknown
    <3>4. PICK k \in MemberEvents(x, u) : NewestApplied(x, u, k) BY <1>7, <3>3
    <3>5. \A j \in MemberEvents(x, u)' : j <= k BY <1>1, <1>9, <2>1, <3>2, <3>4 DEF NewestApplied
    <3>6. VersionsOf(x, entity)' = VersionsOf(x, entity) BY <3>1 DEF VersionsOf
    <3>7. NewestApplied(x, u, k)' BY <1>2, <3>1, <3>4, <3>5, <3>6 DEF NewestApplied, RowsOf
    <3> QED BY <2>1, <3>4, <3>7
  <2>5. CASE Applied(e)
    <3> DEFINE new == [org |-> e.org, ext |-> e.ext, entity |-> entity, at |-> e.at, deleted |-> e.deleted]
    <3>1. VersionsOf(x, entity)' = {new} BY <1>1, <1>2, <1>11, <2>2, <2>5, VersionsAfter
    <3>2. new.at = i /\ new.deleted = sent[i].deleted BY <1>1
    <3> HIDE DEF new
    <3>3. \A j \in MemberEvents(x, u)' : j <= i
      <4>1. CASE Unknown(x, u) BY <1>1, <2>1, <4>1 DEF Unknown
      <4>2. ASSUME NEW k \in MemberEvents(x, u), NewestApplied(x, u, k)
            PROVE  \A j \in MemberEvents(x, u)' : j <= i
        <5>1. PICK v \in VersionsOf(x, entity) : v.at = k /\ v.deleted = sent[k].deleted
          BY <4>2 DEF NewestApplied
        <5>2. ~(i < k) BY <1>1, <2>2, <2>5, <5>1 DEF Applied, Ignored
        <5>3. \A j \in MemberEvents(x, u) : j <= k BY <4>2 DEF NewestApplied
        <5> QED BY <1>1, <1>9, <2>1, <5>2, <5>3
      <4> QED BY <1>7, <4>1, <4>2
    <3>4. /\ e.deleted => RowsOf(orgMembers, x, u)' = {} /\ RowsOf(wsMembers, x, u)' = {}
          /\ ~e.deleted =>
                /\ RowsOf(orgMembers, x, u)' # {} /\ RowsOf(wsMembers, x, u)' # {}
                /\ \A m \in RowsOf(orgMembers, x, u)' : m.role = e.role
      BY <1>1, <1>2, <1>11, <2>5, MemberRows
    <3>5. ~e.deleted => (\E b \in orgBindings' : b.ext = x) /\ \E c \in principalBindings' : c.ext = u
      <4> SUFFICES ASSUME ~e.deleted
                   PROVE  (\E b \in orgBindings' : b.ext = x) /\ \E c \in principalBindings' : c.ext = u
        OBVIOUS
      <4> DEFINE b == [ext |-> e.ext, org |-> e.org]
                 c == [ext |-> e.who, principal |-> e.principal]
      <4>1. b \in orgBindings' /\ c \in principalBindings'
        BY <1>2, <1>11, <2>5 DEF Apply, OrganizationDelete, OrganizationUpsert, MemberDelete, MemberUpsert, Bind
      <4>2. b.ext = x /\ c.ext = u BY <1>11
      <4> QED BY <4>1, <4>2
    <3>6. NewestApplied(x, u, i)' BY <1>1, <1>2, <3>1, <3>2, <3>3, <3>4, <3>5 DEF NewestApplied
    <3> QED BY <2>1, <3>6
  <2> QED BY <2>4, <2>5
<1> QED BY <1>10, <1>11

LEMMA ProvisionGrants ==
    ASSUME IdentityAssumption, ProviderOK, NamesOK, GrantsOK, NEW i, NEW e, Handles(i, e)
    PROVE  GrantsOK'
<1>1. /\ i \in DOMAIN sent /\ e.org = Own(sent[i].ext) /\ e.principal = Own(e.who)
      /\ e.kind \in {"organization", "membership"} /\ e.who \in Users \cup {NoRole}
      /\ e.kind = "organization" <=> e.who = NoRole
      /\ PrincipalsOf(e) = {e.principal}
  BY Fields
<1>2. /\ sent' = sent /\ Apply(e)
      /\ granted' = IF Applied(e) /\ e.kind = "organization" /\ e.deleted
                    THEN {g \in granted : g[1] # e.org} ELSE granted
  BY DEF Handles
<1>3. \A c \in principalBindings : \E d \in principalBindings' : d.ext = c.ext
  BY <1>1, <1>2, BindingsAfter
<1>4. CASE ~Applied(e)
  <2>1. UNCHANGED <<granted, orgMembers, wsMembers, principalBindings>> BY <1>2, <1>4 DEF Apply, tables
  <2> QED BY <1>2, <2>1 DEF GrantsOK
<1>5. CASE Applied(e)
  <2>1. OrganizationDelete(e) \/ OrganizationUpsert(e) \/ MemberDelete(e) \/ MemberUpsert(e)
    BY <1>2, <1>5 DEF Apply
  <2>2. CASE OrganizationDelete(e)
    <3>1. /\ granted' = {g \in granted : g[1] # e.org}
          /\ \A w \in wsMembers : w.org # e.org => w \in wsMembers'
          /\ \A m \in orgMembers : m.org # e.org => m \in orgMembers'
          /\ \A w \in wsMembers' : w \in wsMembers /\ w.org # e.org
      BY <1>2, <1>5, <2>2 DEF OrganizationDelete, OfProvider, NamesOK
    <3>2. ASSUME NEW g \in granted'
          PROVE  /\ g = <<g[1], g[2], g[3]>> /\ g[3] \in Machines
                 /\ \E w \in wsMembers' : w.org = g[1] /\ w.ws = g[2] /\ w.principal = Own(g[3])
                 /\ \E r \in orgMembers' : r.org = g[1] /\ r.principal = Own(g[3])
                 /\ \E c \in principalBindings' : c.ext = g[3]
      <4>1. g \in granted /\ g[1] # e.org BY <3>1
      <4> QED BY <1>3, <3>1, <4>1 DEF GrantsOK
    <3>3. ASSUME NEW w \in wsMembers'
          PROVE  /\ \E j \in DOMAIN sent : w.org = Own(sent[j].ext)
                 /\ \A m \in Machines : w.principal = Own(m) => <<w.org, w.ws, m>> \in granted'
      BY <3>1 DEF GrantsOK
    <3> QED BY <1>2, <3>2, <3>3 DEF GrantsOK
  <2>3. CASE OrganizationUpsert(e)
    BY <1>2, <1>5, <2>3 DEF OrganizationUpsert, GrantsOK
  <2>4. CASE e.kind = "membership"
    <3>1. \A m \in Machines : Own(m) # e.principal BY <1>1, <2>4, OwnInjective DEF IdentityAssumption
    <3>2. granted' = granted BY <1>2, <2>4
    <3>3. /\ \A w \in wsMembers : w.principal # e.principal => w \in wsMembers'
          /\ \A m \in orgMembers : m.principal # e.principal => m \in orgMembers'
          /\ \A w \in wsMembers' : w \in wsMembers \/ (w.principal = e.principal /\ w.org = e.org)
      <4>1. CASE MemberDelete(e) BY <1>1, <4>1 DEF MemberDelete, Removed
      <4>2. CASE MemberUpsert(e) BY <4>2 DEF MemberUpsert
      <4> QED BY <2>1, <2>4, <4>1, <4>2 DEF OrganizationDelete, OrganizationUpsert
    <3>4. ASSUME NEW g \in granted
          PROVE  /\ g = <<g[1], g[2], g[3]>> /\ g[3] \in Machines
                 /\ \E w \in wsMembers' : w.org = g[1] /\ w.ws = g[2] /\ w.principal = Own(g[3])
                 /\ \E r \in orgMembers' : r.org = g[1] /\ r.principal = Own(g[3])
                 /\ \E c \in principalBindings' : c.ext = g[3]
      BY <1>3, <3>1, <3>3 DEF GrantsOK
    <3>5. ASSUME NEW w \in wsMembers'
          PROVE  /\ \E j \in DOMAIN sent : w.org = Own(sent[j].ext)
                 /\ \A m \in Machines : w.principal = Own(m) => <<w.org, w.ws, m>> \in granted
      BY <1>1, <3>1, <3>3 DEF GrantsOK
    <3> QED BY <1>2, <3>2, <3>4, <3>5 DEF GrantsOK
  <2> QED BY <1>1, <2>1, <2>2, <2>3, <2>4 DEF MemberDelete, MemberUpsert
<1> QED BY <1>4, <1>5

LEMMA ProvisionAccess ==
    ASSUME IdentityAssumption, AccessInv, NEW r \in resolving, Provision(r[1], r[2]) PROVE AccessInv'
<1>1. r[1] \in DOMAIN sent /\ mode # "documents" BY DEF AccessInv, ProviderOK, DocumentOK
<1>2. /\ UNCHANGED <<mode, sent, admins, boot>> /\ handled' = handled \cup {r[1]}
      /\ resolving' \subseteq resolving
  BY DEF Provision
<1>3. DocumentOK' BY <1>1, <1>2 DEF AccessInv, DocumentOK
<1>4. ProviderOK' BY <1>1, <1>2 DEF AccessInv, ProviderOK
<1>5. ASSUME ~boot.begun PROVE WebhooksOK'
  <2>1. ProviderOK /\ WebhooksOK /\ NamesOK BY <1>5 DEF AccessInv, WebhooksOK
  <2>2. PICK e : Handles(r[1], e) BY <2>1, ProvisionHandles
  <2>3. NamesOK' BY <2>1, <2>2, ProvisionNames
  <2>4. \A x \in Exts : OrganizationOK(x)' BY <2>1, <2>2, ProvisionOrganization DEF WebhooksOK
  <2>5. \A x \in Exts, u \in Users : MemberOK(x, u)' BY <2>1, <2>2, ProvisionMember DEF WebhooksOK
  <2>6. OneOrganization' => GrantsOK'
    <3>1. OneOrganization' = OneOrganization BY <1>2 DEF OneOrganization
    <3> QED BY <2>1, <2>2, <3>1, ProvisionGrants DEF WebhooksOK
  <2> QED BY <2>3, <2>4, <2>5, <2>6 DEF WebhooksOK
<1> QED BY <1>2, <1>3, <1>4, <1>5 DEF AccessInv

-----------------------------------------------------------------------------
(* An administrator grants a credential or revokes it.                      *)
CredentialEvent(org, ws, m, deleted, role) ==
    [id |-> <<"admin", admins>>, at |-> now, org |-> org, ext |-> Internal(org),
     kind |-> "credential", who |-> m, deleted |-> deleted, role |-> role,
     principal |-> Own(m), ws |-> ws]

Administers(m, e) ==
    /\ m \in Machines /\ e.id = <<"admin", admins>> /\ e.kind = "credential" /\ e.who = m
    /\ e.principal = Own(m) /\ e.deleted \in BOOLEAN
    /\ Entity(e) = <<"credential", m>>
    /\ \E b \in orgBindings : b.org = e.org
    /\ UNCHANGED <<mode, sent, resolving, handled, boot>> /\ admins' = admins + 1
    /\ Apply(e)
    /\ granted' = CASE ~Applied(e) -> granted
                    [] Applied(e) /\ e.deleted -> granted \ {<<e.org, e.ws, m>>}
                    [] OTHER -> granted \cup {<<e.org, e.ws, m>>}

LEMMA CredentialAdministers ==
    ASSUME NEW b \in orgBindings, NEW ws, NEW m \in Machines, NEW deleted \in BOOLEAN, NEW role,
           Credential(b.org, ws, m, deleted, role)
    PROVE  \E e : Administers(m, e)
<1>1. PICK e : e = CredentialEvent(b.org, ws, m, deleted, role) OBVIOUS
<1>2. /\ e.id = <<"admin", admins>> /\ e.kind = "credential" /\ e.who = m /\ e.org = b.org
      /\ e.principal = Own(m) /\ e.deleted = deleted /\ e.ws = ws
  BY <1>1 DEF CredentialEvent
<1>3. Entity(e) = <<"credential", m>> BY <1>2 DEF Entity
<1>4. /\ Apply(e)
      /\ granted' = CASE ~Applied(e) -> granted
                      [] Applied(e) /\ deleted -> granted \ {<<b.org, ws, m>>}
                      [] OTHER -> granted \cup {<<b.org, ws, m>>}
  BY <1>1 DEF Credential, CredentialEvent
<1>5. UNCHANGED <<mode, sent, resolving, handled, boot>> /\ admins' = admins + 1 BY DEF Credential
<1> QED BY <1>2, <1>3, <1>4, <1>5 DEF Administers

LEMMA CredentialPrincipals ==
    ASSUME NamesOK, NEW m, NEW e, Administers(m, e)
    PROVE  PrincipalsOf(e) = IF \E c \in principalBindings : c.ext = m THEN {Own(m)} ELSE {}
<1>1. e.kind = "credential" /\ e.who = m BY DEF Administers
<1>2. \A c \in principalBindings : c.ext = m => c.principal = Own(m)
  <2> SUFFICES ASSUME NEW c \in principalBindings, c.ext = m PROVE c.principal = Own(m) OBVIOUS
  <2>1. c = [ext |-> c.ext, principal |-> Own(c.ext)] BY DEF NamesOK
  <2> QED BY <2>1
<1> QED BY <1>1, <1>2 DEF PrincipalsOf

LEMMA CredentialNames ==
    ASSUME IdentityAssumption, NamesOK, NEW m, NEW e, Administers(m, e) PROVE NamesOK'
<1>1. /\ m \in Machines /\ e.id = <<"admin", admins>> /\ e.kind = "credential" /\ e.who = m
      /\ e.principal = Own(m) /\ UNCHANGED <<sent, resolving, handled, boot>> /\ Apply(e)
  BY DEF Administers
<1>2. \A b \in orgBindings' : b \in orgBindings BY <1>1, BindingsAfter
<1>3. \A c \in principalBindings' : c = [ext |-> c.ext, principal |-> Own(c.ext)]
  <2> SUFFICES ASSUME NEW c \in principalBindings' PROVE c = [ext |-> c.ext, principal |-> Own(c.ext)]
    OBVIOUS
  <2>1. c \in principalBindings \/ c = [ext |-> e.who, principal |-> e.principal]
    BY <1>1, BindingsAfter
  <2> QED BY <1>1, <2>1 DEF NamesOK
<1>4. \A t \in trail' : t[1] = "webhook" => t[2] \in handled'
  <2>1. trail' \subseteq trail \cup {e.id} BY <1>1 DEF Apply, tables
  <2>2. e.id[1] = "admin" BY <1>1
  <2> QED BY <1>1, <2>1, <2>2 DEF NamesOK
<1>5. /\ \A w \in wsMembers' : w \in wsMembers \/ (w.source = "provider" /\ w.principal = Own(m))
      /\ \A r \in orgMembers' : r \in orgMembers \/ r.source = "provider"
  <2>1. CASE ~Applied(e) BY <1>1, <2>1 DEF Apply, tables
  <2>2. CASE Applied(e)
    <3>1. MemberDelete(e) \/ MemberUpsert(e)
      BY <1>1, <2>2 DEF Apply, OrganizationDelete, OrganizationUpsert
    <3>2. CASE MemberDelete(e) BY <3>2 DEF MemberDelete
    <3>3. CASE MemberUpsert(e) BY <1>1, <3>3 DEF MemberUpsert
    <3> QED BY <3>1, <3>2, <3>3
  <2> QED BY <2>1, <2>2
<1>6. \A u \in Users : Own(u) # Own(m) BY <1>1, OwnInjective DEF IdentityAssumption
<1>7. /\ \A w \in wsMembers' :
           w.source = "provider" /\ \A u \in Users : w.principal = Own(u) => w.ws = Default
      /\ \A r \in orgMembers' : r.source = "provider"
  BY <1>5, <1>6 DEF NamesOK
<1> QED BY <1>1, <1>2, <1>3, <1>4, <1>7 DEF NamesOK

LEMMA CredentialTables ==
    ASSUME IdentityAssumption, ProviderOK, NamesOK, NEW x \in Exts, OrganizationOK(x),
           NEW m, NEW e, Administers(m, e)
    PROVE  OrganizationOK(x)' /\ \A u \in Users : MemberOK(x, u) => MemberOK(x, u)'
<1>1. /\ m \in Machines /\ e.kind = "credential" /\ e.who = m /\ e.principal = Own(m)
      /\ Entity(e) = <<"credential", m>> /\ UNCHANGED <<sent, handled>> /\ Apply(e)
  BY DEF Administers
<1>2. /\ OrganizationEvents(x)' = OrganizationEvents(x)
      /\ \A u : MemberEvents(x, u)' = MemberEvents(x, u)
  BY <1>1, EventsKept
<1>3. /\ VersionsOf(x, <<"organization">>)' = VersionsOf(x, <<"organization">>)
      /\ \A u : VersionsOf(x, <<"membership", u>>)' = VersionsOf(x, <<"membership", u>>)
  BY <1>1, VersionsAfter, Entities
<1>4. Tombstone(x)' = Tombstone(x) BY <1>3 DEF Tombstone
<1>5. /\ \A b \in orgBindings' : b \in orgBindings
      /\ (\E b \in orgBindings : b.ext = x) => \E b \in orgBindings' : b.ext = x
      /\ \A u : u # m /\ (\E c \in principalBindings : c.ext = u) => \E c \in principalBindings' : c.ext = u
  BY <1>1, BindingsAfter
<1>6. OrganizationOK(x)' BY <1>1, <1>2, <1>3, <1>4, <1>5 DEF OrganizationOK
<1>7. ASSUME NEW u \in Users, MemberOK(x, u) PROVE MemberOK(x, u)'
  <2>1. u # m BY <1>1 DEF IdentityAssumption
  <2>2. Own(u) \notin PrincipalsOf(e) /\ e.principal # Own(u)
    BY <1>1, <2>1, CredentialPrincipals, OwnInjective
  <2>3. /\ RowsOf(orgMembers, x, u)' = RowsOf(orgMembers, x, u)
        /\ RowsOf(wsMembers, x, u)' = RowsOf(wsMembers, x, u)
    BY <1>1, <2>2, RowsApart
  <2>4. Unknown(x, u)' = Unknown(x, u) BY <1>2, <1>3, <2>3 DEF Unknown
  <2>5. ASSUME NEW k \in MemberEvents(x, u), NewestApplied(x, u, k) PROVE NewestApplied(x, u, k)'
    BY <1>1, <1>2, <1>3, <1>5, <2>1, <2>3, <2>5 DEF NewestApplied
  <2> QED BY <1>2, <1>4, <1>7, <2>4, <2>5 DEF MemberOK
<1> QED BY <1>6, <1>7

\* All organizations are one, so a binding lost is lost with the last grant.
LEMMA CredentialGrants ==
    ASSUME IdentityAssumption, NamesOK, GrantsOK, OneOrganization, NEW m, NEW e, Administers(m, e)
    PROVE  GrantsOK'
<1> DEFINE answer == <<e.org, e.ws, m>>
<1>1. /\ m \in Machines /\ e.kind = "credential" /\ e.who = m /\ e.principal = Own(m)
      /\ e.deleted \in BOOLEAN /\ UNCHANGED sent /\ Apply(e)
  BY DEF Administers
<1>2. granted' = CASE ~Applied(e) -> granted
                   [] Applied(e) /\ e.deleted -> granted \ {answer}
                   [] OTHER -> granted \cup {answer}
  BY DEF Administers
<1>3. PICK i \in DOMAIN sent : e.org = Own(sent[i].ext)
  <2>1. PICK b \in orgBindings : b.org = e.org BY DEF Administers
  <2>2. PICK i \in DOMAIN sent : b = [ext |-> sent[i].ext, org |-> Own(sent[i].ext)] BY DEF NamesOK
  <2> QED BY <2>1, <2>2
<1>4. \A w \in wsMembers : w.org = e.org /\ w.source = "provider"
  BY <1>3 DEF GrantsOK, OneOrganization, NamesOK
<1>5. \A n \in Machines : Own(n) = Own(m) => n = m BY OwnInjective
<1>6. PrincipalsOf(e) = IF \E c \in principalBindings : c.ext = m THEN {Own(m)} ELSE {}
  BY CredentialPrincipals
<1>7. \A u : u # m /\ (\E c \in principalBindings : c.ext = u) => \E c \in principalBindings' : c.ext = u
  BY <1>1, BindingsAfter
<1>8. CASE ~Applied(e)
  <2>1. UNCHANGED <<granted, orgMembers, wsMembers, principalBindings>>
    BY <1>1, <1>2, <1>8 DEF Apply, tables
  <2> QED BY <1>1, <2>1 DEF GrantsOK
<1>9. CASE Applied(e) /\ e.deleted
  <2>1. MemberDelete(e)
    BY <1>1, <1>9 DEF Apply, OrganizationDelete, OrganizationUpsert, MemberUpsert
  <2>2. /\ wsMembers' = wsMembers \ Removed(e)
        /\ orgMembers' = IF Left(e) # {} THEN orgMembers
                         ELSE orgMembers \ {r \in OfProvider(orgMembers, e) : r.principal \in PrincipalsOf(e)}
        /\ Left(e) # {} => principalBindings' = principalBindings
    BY <2>1 DEF MemberDelete
  <2>3. granted' = granted \ {answer} BY <1>2, <1>9
  <2>4. \A w \in wsMembers : w.principal = Own(m) => w \in Removed(e) \cup Left(e)
    <3> SUFFICES ASSUME NEW w \in wsMembers, w.principal = Own(m) PROVE w \in Removed(e) \cup Left(e)
      OBVIOUS
    <3>1. \E c \in principalBindings : c.ext = m
      <4>1. <<w.org, w.ws, m>> \in granted BY <1>1 DEF GrantsOK
      <4>2. <<w.org, w.ws, m>>[3] = m OBVIOUS
      <4> QED BY <4>1, <4>2 DEF GrantsOK
    <3>2. Own(m) \in PrincipalsOf(e) BY <1>6, <3>1
    <3> QED BY <1>4, <3>2 DEF Left, Removed, OfProvider
  <2>5. \A w \in Removed(e) : w \in wsMembers /\ w.principal = Own(m) /\ w.org = e.org /\ w.ws = e.ws
    BY <1>6 DEF Removed, OfProvider
  <2>6. \A w \in Left(e) : w \in wsMembers /\ w.principal = Own(m)
    BY <1>6 DEF Left, OfProvider
  <2>7. ASSUME NEW g \in granted, g # answer
        PROVE  /\ \E w \in wsMembers' : w.org = g[1] /\ w.ws = g[2] /\ w.principal = Own(g[3])
               /\ \E r \in orgMembers' : r.org = g[1] /\ r.principal = Own(g[3])
               /\ \E c \in principalBindings' : c.ext = g[3]
    <3>1. g = <<g[1], g[2], g[3]>> /\ g[3] \in Machines BY DEF GrantsOK
    <3>2. PICK w \in wsMembers : w.org = g[1] /\ w.ws = g[2] /\ w.principal = Own(g[3]) BY DEF GrantsOK
    <3>3. PICK r \in orgMembers : r.org = g[1] /\ r.principal = Own(g[3]) BY DEF GrantsOK
    <3>4. PICK c \in principalBindings : c.ext = g[3] BY DEF GrantsOK
    <3>5. w \notin Removed(e)
      <4> SUFFICES ASSUME w \in Removed(e) PROVE FALSE OBVIOUS
      <4>1. g[1] = e.org /\ g[2] = e.ws /\ g[3] = m BY <1>5, <2>5, <3>1, <3>2
      <4> QED BY <2>7, <3>1, <4>1
    <3>6. w \in wsMembers' BY <2>2, <3>5
    <3>7. CASE g[3] = m
      <4>1. w \in Left(e) BY <2>4, <3>2, <3>5, <3>7
      <4> QED BY <2>2, <3>2, <3>3, <3>4, <3>6, <4>1
    <3>8. CASE g[3] # m
      <4>1. r.principal \notin PrincipalsOf(e) BY <1>5, <1>6, <3>1, <3>3, <3>8
      <4>2. r \in orgMembers' BY <2>2, <4>1
      <4> QED BY <1>7, <3>2, <3>3, <3>4, <3>6, <3>8, <4>2
    <3> QED BY <3>7, <3>8
  <2>8. ASSUME NEW w \in wsMembers', NEW n \in Machines, w.principal = Own(n)
        PROVE  <<w.org, w.ws, n>> \in granted'
    <3>1. w \in wsMembers /\ w \notin Removed(e) BY <2>2
    <3>2. <<w.org, w.ws, n>> \in granted BY <2>8, <3>1 DEF GrantsOK
    <3>3. ASSUME <<w.org, w.ws, n>> = answer PROVE FALSE
      <4>1. w.ws = e.ws /\ n = m BY <3>3
      <4>2. w \in Left(e) BY <2>4, <2>8, <3>1, <4>1
      <4>3. w \in Removed(e) BY <4>1, <4>2 DEF Left, Removed
      <4> QED BY <3>1, <4>3
    <3> QED BY <2>3, <3>2, <3>3
  <2>9. \A w \in wsMembers' : \E j \in DOMAIN sent' : w.org = Own(sent'[j].ext)
    BY <1>1, <2>2 DEF GrantsOK
  <2>10. \A g \in granted' : g = <<g[1], g[2], g[3]>> /\ g[3] \in Machines BY <2>3 DEF GrantsOK
  <2> HIDE DEF answer
  <2> QED BY <2>3, <2>7, <2>8, <2>9, <2>10 DEF GrantsOK
<1>10. CASE Applied(e) /\ ~e.deleted
  <2> DEFINE r0 == [org |-> e.org, principal |-> e.principal, role |-> e.role, source |-> "provider"]
             w0 == [org |-> e.org, ws |-> e.ws, principal |-> e.principal, role |-> e.role,
                    source |-> "provider"]
             c0 == [ext |-> e.who, principal |-> e.principal]
  <2>1. MemberUpsert(e)
    BY <1>1, <1>10 DEF Apply, OrganizationDelete, OrganizationUpsert, MemberDelete
  <2>2. /\ orgMembers' = {r \in orgMembers : r.org # e.org \/ r.principal # e.principal} \cup {r0}
        /\ wsMembers' = {r \in wsMembers : r.org # e.org \/ r.ws # e.ws \/ r.principal # e.principal}
                        \cup {w0}
        /\ principalBindings' = {b \in principalBindings : b.ext # e.who} \cup {c0}
    BY <2>1 DEF MemberUpsert
  <2>3. /\ r0.org = e.org /\ r0.principal = Own(m) /\ c0.ext = m
        /\ w0.org = e.org /\ w0.principal = Own(m) /\ w0.ws = e.ws
    BY <1>1
  <2>4. granted' = granted \cup {answer} BY <1>2, <1>10
  <2>5. answer = <<answer[1], answer[2], answer[3]>>
        /\ answer[1] = e.org /\ answer[2] = e.ws /\ answer[3] = m
    OBVIOUS
  <2> HIDE DEF r0, w0, c0, answer
  <2>6. /\ \A w \in wsMembers : \E v \in wsMembers' : v.org = w.org /\ v.ws = w.ws /\ v.principal = w.principal
        /\ \A r \in orgMembers : \E q \in orgMembers' : q.org = r.org /\ q.principal = r.principal
        /\ \A c \in principalBindings : \E d \in principalBindings' : d.ext = c.ext
    BY <1>1, <2>2, <2>3
  <2>7. ASSUME NEW g \in granted'
        PROVE  /\ g = <<g[1], g[2], g[3]>> /\ g[3] \in Machines
               /\ \E w \in wsMembers' : w.org = g[1] /\ w.ws = g[2] /\ w.principal = Own(g[3])
               /\ \E r \in orgMembers' : r.org = g[1] /\ r.principal = Own(g[3])
               /\ \E c \in principalBindings' : c.ext = g[3]
    <3>1. CASE g = answer BY <1>1, <2>2, <2>3, <2>5, <3>1
    <3>2. CASE g \in granted
      <4>1. /\ g = <<g[1], g[2], g[3]>> /\ g[3] \in Machines
            /\ \E w \in wsMembers : w.org = g[1] /\ w.ws = g[2] /\ w.principal = Own(g[3])
            /\ \E r \in orgMembers : r.org = g[1] /\ r.principal = Own(g[3])
            /\ \E c \in principalBindings : c.ext = g[3]
        BY <3>2 DEF GrantsOK
      <4> QED BY <2>6, <4>1
    <3> QED BY <2>4, <3>1, <3>2
  <2>8. ASSUME NEW w \in wsMembers'
        PROVE  /\ \E j \in DOMAIN sent' : w.org = Own(sent'[j].ext)
               /\ \A n \in Machines : w.principal = Own(n) => <<w.org, w.ws, n>> \in granted'
    <3>1. CASE w = w0
      <4>1. <<e.org, e.ws, m>> \in granted' BY <2>4 DEF answer
      <4> QED BY <1>1, <1>3, <1>5, <2>3, <3>1, <4>1
    <3>2. CASE w \in wsMembers BY <1>1, <2>4, <3>2 DEF GrantsOK
    <3> QED BY <2>2, <3>1, <3>2
  <2> QED BY <2>7, <2>8 DEF GrantsOK
<1> QED BY <1>1, <1>8, <1>9, <1>10

LEMMA CredentialAccess ==
    ASSUME IdentityAssumption, AccessInv, NEW b \in orgBindings, NEW ws, NEW m \in Machines,
           NEW deleted \in BOOLEAN, NEW role, Credential(b.org, ws, m, deleted, role)
    PROVE  AccessInv'
<1>1. PICK e : Administers(m, e) BY CredentialAdministers
<1>2. UNCHANGED <<mode, sent, resolving, handled, boot>> /\ admins' = admins + 1 BY <1>1 DEF Administers
<1>3. admins \in Nat BY DEF AccessInv, ProviderOK
<1>4. ProviderOK' BY <1>2, <1>3 DEF AccessInv, ProviderOK
<1>5. DocumentOK' BY <1>2, <1>3 DEF AccessInv, DocumentOK
<1>6. ASSUME ~boot.begun PROVE WebhooksOK'
  <2>1. ProviderOK /\ WebhooksOK /\ NamesOK BY <1>6 DEF AccessInv, WebhooksOK
  <2>2. NamesOK' BY <1>1, <2>1, CredentialNames
  <2>3. \A x \in Exts : OrganizationOK(x)' /\ \A u \in Users : MemberOK(x, u)'
    BY <1>1, <2>1, CredentialTables DEF WebhooksOK
  <2>4. OneOrganization' => GrantsOK'
    <3>1. OneOrganization' = OneOrganization BY <1>2 DEF OneOrganization
    <3> QED BY <1>1, <2>1, <3>1, CredentialGrants DEF WebhooksOK
  <2> QED BY <2>2, <2>3, <2>4 DEF WebhooksOK
<1> QED BY <1>2, <1>4, <1>5, <1>6 DEF AccessInv

-----------------------------------------------------------------------------
LEMMA AccessStep ==
    ASSUME IdentityAssumption, AccessInv, [IdentityNext]_identityVars PROVE AccessInv'
<1>1. CASE UNCHANGED identityVars
  <2>1. UNCHANGED <<mode, sent, resolving, handled, admins, granted, tables, boot>>
    BY <1>1 DEF identityVars
  <2>2. boot = [doc |-> boot.doc, left |-> boot.left, on |-> boot.on, begun |-> boot.begun]
    BY DEF AccessInv, DocumentOK
  <2> QED BY <2>1, <2>2, AccessKept
<1>2. CASE Tick BY <1>2, TickAccess
<1>3. ASSUME NEW x \in Exts, NEW who \in Users \cup {NoRole}, NEW kind \in {"organization", "membership"},
             NEW deleted \in BOOLEAN, NEW role \in OrganizationRoles \cup {NoRole},
             Emit(x, kind, who, deleted, role)
      PROVE  AccessInv'
  BY <1>3, EmitAccess
<1>4. ASSUME NEW i \in DOMAIN sent, ResolveOrganization(i) PROVE AccessInv' BY <1>4, ResolvedAccess
<1>5. ASSUME NEW r \in resolving, Provision(r[1], r[2]) PROVE AccessInv' BY <1>5, ProvisionAccess
<1>6. ASSUME NEW r \in resolving, Abandon(r[1], r[2]) PROVE AccessInv' BY <1>6, AbandonAccess
<1>7. ASSUME NEW b \in orgBindings, NEW ws \in Workspaces, NEW m \in Machines, NEW deleted \in BOOLEAN,
             Credential(b.org, ws, m, deleted, "member")
      PROVE  AccessInv'
  BY <1>7, CredentialAccess
<1>8. ASSUME NEW d \in Documents, StartBootstrap(d) PROVE AccessInv' BY <1>8, StartBootstrapAccess
<1>9. ASSUME NEW org \in boot.left, ReplaceOrganization(org) PROVE AccessInv' BY <1>9, ReplaceAccess
<1>10. CASE EndBootstrap BY <1>10, EndBootstrapAccess
<1>11. CASE SwitchToWebhooks BY <1>11, SwitchAccess
<1> QED BY <1>1, <1>2, <1>3, <1>4, <1>5, <1>6, <1>7, <1>8, <1>9, <1>10, <1>11 DEF IdentityNext

\* Whatever the order and the repetitions of the webhooks, a person's access is what the
\* newest handled event of the membership says and ends with the organization, a machine
\* of the one organization enters what its administrators were told it enters, and a
\* finished bootstrap leaves only what its document names.
THEOREM AccessFollowsHolds == ASSUME IdentityAssumption PROVE IdentitySpec => []AccessFollows
<1>1. IdentityInit => AccessInv BY InitAccess
<1>2. AccessInv /\ [IdentityNext]_identityVars => AccessInv' BY AccessStep
<1>3. AccessInv => AccessFollows BY InvFollows
<1> QED BY <1>1, <1>2, <1>3, PTL DEF IdentitySpec

-----------------------------------------------------------------------------
(***************************************************************************)
(* Proof that requests are allowed, for any requests, principals,          *)
(* capabilities and changes of them, over the whole catalogue of routes.   *)
(*                                                                         *)
(* RouteOK says what the programs of the routes have in common: support is *)
(* let into programs that only read, a program that writes belongs to a    *)
(* capability that writes, and after the provider the access is renewed    *)
(* and nothing more is read.  RequestOK carries this through a request: it *)
(* acts under a scope that allowed its route, and whatever the provider's  *)
(* answer was good for is remembered until access or evidence confirm it.  *)
(***************************************************************************)

WriteWords == {"write", "cursor", "admin"}
RenewWords == {"fresh", "reauth"}

RouteOK(x, rt) ==
    /\ Len(rt.steps) \in Nat /\ DOMAIN rt.steps = 1..Len(rt.steps)
    /\ x \in PlatformReadable /\ rt.method = "GET" => rt.steps = <<"read">>
    /\ \A i \in 1..Len(rt.steps) : rt.steps[i] \in WriteWords => rt.capability \in WriteScopes
    /\ \A i \in 1..Len(rt.steps) : rt.steps[i] = "provider" =>
          /\ \A j \in 1..Len(rt.steps) :
                /\ rt.steps[j] = "provider" => j = i
                /\ rt.steps[j] = "read" => j < i
                /\ rt.steps[j] \in RenewWords \cup {"pinned"} => j > i
          /\ \E j \in 1..Len(rt.steps) : rt.steps[j] \in RenewWords

\* A catalogue of such programs.
AllOK(f) == \A x \in DOMAIN f : RouteOK(x, f[x])

\* Programs put together from such programs.
LEMMA MergeOK ==
    ASSUME NEW f, NEW g, AllOK(f), AllOK(g) PROVE AllOK(Merge(f, g))
BY DEF AllOK, Merge

LEMMA MergeDomain == \A f, g : DOMAIN f \subseteq DOMAIN Merge(f, g)
BY DEF Merge

LEMMA GetOK == \A x, c : RouteOK(x, Get(c))
BY DEF RouteOK, Get, Route, WriteWords, RenewWords

(* Every route is such a program. *)
USE DEF RouteOK, Get, Post, Route, WriteWords, RenewWords, WriteScopes, PlatformReadable

LEMMA EpisodeRoutesOK == AllOK(EpisodeRoutes)
BY SMT DEF AllOK, EpisodeRoutes

LEMMA ConsumerRoutesOK == AllOK(ConsumerRoutes)
BY SMT DEF AllOK, ConsumerRoutes

LEMMA IdentitiesRoutesOK == AllOK(IdentitiesRoutes)
<1>1. RouteOK("identities", IdentitiesRoutes.identities) BY SMT DEF IdentitiesRoutes
<1>2. RouteOK("previewAlias", IdentitiesRoutes.previewAlias) BY SMT DEF IdentitiesRoutes
<1>3. RouteOK("reviseIdentity", IdentitiesRoutes.reviseIdentity) BY SMT DEF IdentitiesRoutes
<1> HIDE DEF RouteOK
<1> QED BY <1>1, <1>2, <1>3 DEF AllOK, IdentitiesRoutes

LEMMA EventRoutesOK == AllOK(EventRoutes)
BY SMT DEF AllOK, EventRoutes

LEMMA TaskRoutesOK == AllOK(TaskRoutes)
<1>1. RouteOK("taskEvidence", TaskRoutes.taskEvidence) BY SMT DEF TaskRoutes
<1>2. RouteOK("taskManifest", TaskRoutes.taskManifest) BY SMT DEF TaskRoutes
<1>3. RouteOK("taskOutcome", TaskRoutes.taskOutcome) BY SMT DEF TaskRoutes
<1>4. RouteOK("taskIntervention", TaskRoutes.taskIntervention) BY SMT DEF TaskRoutes
<1> HIDE DEF RouteOK
<1> QED BY <1>1, <1>2, <1>3, <1>4 DEF AllOK, TaskRoutes

LEMMA TrajectoryRoutesOK == AllOK(TrajectoryRoutes)
BY SMT DEF AllOK, TrajectoryRoutes

LEMMA TranscriptRoutesOK == AllOK(TranscriptRoutes)
<1>1. RouteOK("transcripts", TranscriptRoutes.transcripts) BY SMT DEF TranscriptRoutes
<1>2. RouteOK("derive", TranscriptRoutes.derive) BY SMT DEF TranscriptRoutes
<1>3. RouteOK("importTranscript", TranscriptRoutes.importTranscript) BY SMT DEF TranscriptRoutes
<1> HIDE DEF RouteOK
<1> QED BY <1>1, <1>2, <1>3 DEF AllOK, TranscriptRoutes

LEMMA SteeringRoutesOK == AllOK(SteeringRoutes)
BY SMT DEF AllOK, SteeringRoutes

LEMMA OutcomeRoutesOK == AllOK(OutcomeRoutes)
BY SMT DEF AllOK, OutcomeRoutes

LEMMA CandidateRoutesOK == AllOK(CandidateRoutes)
<1>1. RouteOK("candidates", CandidateRoutes.candidates) BY SMT DEF CandidateRoutes
<1>2. RouteOK("propose", CandidateRoutes.propose) BY SMT DEF CandidateRoutes
<1>3. RouteOK("promote", CandidateRoutes.promote) BY SMT DEF CandidateRoutes
<1>4. RouteOK("decide", CandidateRoutes.decide) BY SMT DEF CandidateRoutes
<1> HIDE DEF RouteOK
<1> QED BY <1>1, <1>2, <1>3, <1>4 DEF AllOK, CandidateRoutes

LEMMA TaskReadRoutesOK == AllOK(TaskReadRoutes)
BY SMT DEF AllOK, TaskReadRoutes

LEMMA MemoryListRoutesOK == AllOK(MemoryListRoutes)
BY SMT DEF AllOK, MemoryListRoutes

LEMMA FeedbackRoutesOK == AllOK(FeedbackRoutes)
BY SMT DEF AllOK, FeedbackRoutes

LEMMA MemoryRoutesOK == AllOK(MemoryRoutes)
BY SMT DEF AllOK, MemoryRoutes

LEMMA SingleOK == AllOK(Single)
<1>1. RouteOK("operations", OperationsRoute) BY SMT DEF OperationsRoute
<1>2. RouteOK("identity", IdentityRoute) BY SMT DEF IdentityRoute
<1>3. RouteOK("evaluation", EvaluationRoute) BY SMT DEF EvaluationRoute
<1>4. RouteOK("synthesize", SynthesizeRoute) BY SMT DEF SynthesizeRoute
<1>5. RouteOK("bindings", BindingsRoute) BY SMT DEF BindingsRoute
<1>6. RouteOK("audit", AuditRoute) BY SMT DEF AuditRoute
<1>7. RouteOK("identityAudit", IdentityAuditRoute) BY SMT DEF IdentityAuditRoute
<1>8. RouteOK("enroll", EnrollmentRoute) BY SMT DEF EnrollmentRoute
<1>9. RouteOK("quality", QualityRoute) BY SMT DEF QualityRoute
<1>10. RouteOK("projection", ProjectionRoute) BY SMT DEF ProjectionRoute
<1>11. RouteOK("origins", OriginsRoute) BY SMT DEF OriginsRoute
<1>12. RouteOK("fleet", FleetRoute) BY SMT DEF FleetRoute
<1>13. RouteOK("ask", AskRoute) BY SMT DEF AskRoute
<1>14. RouteOK("providers", ProvidersRoute) BY SMT DEF ProvidersRoute
<1>15. RouteOK("recall", RecallRoute) BY SMT DEF RecallRoute
<1>16. RouteOK("search", SearchRoute) BY SMT DEF SearchRoute
<1> HIDE DEF RouteOK
<1> QED BY <1>1, <1>2, <1>3, <1>4, <1>5, <1>6, <1>7, <1>8,
         <1>9, <1>10, <1>11, <1>12, <1>13, <1>14, <1>15, <1>16 DEF AllOK, Single

HIDE DEF RouteOK, Get, Post, Route, WriteWords, RenewWords, WriteScopes, PlatformReadable

LEMMA RoutesOK == AllOK(Routes)
BY MergeOK, SingleOK, EpisodeRoutesOK, ConsumerRoutesOK, IdentitiesRoutesOK, EventRoutesOK,
   TaskRoutesOK, TrajectoryRoutesOK, TranscriptRoutesOK, SteeringRoutesOK, OutcomeRoutesOK,
   CandidateRoutesOK, TaskReadRoutesOK, MemoryRoutesOK, MemoryListRoutesOK, FeedbackRoutesOK
   DEF Routes


ScopeValues == {Scopes[p] : p \in Principals} \cup {{}}
AccessValues == Accesses \cup {Platform}
RequestSet ==
    [route : DOMAIN Routes, who : Principals \cup {Fresh.who},
     at : {"new", "resolve", "scope", "run", "answered", "refused"}, pc : Nat \ {0},
     access : AccessValues, held : AccessValues, scope : ScopeValues, seen : Nat,
     current : BOOLEAN, member : BOOLEAN, scoped : BOOLEAN,
     wrote : SUBSET (WriteWords \cup {"offer"})]

ApiTypeOK ==
    /\ membership \in [Principals -> Accesses]
    /\ scopes \in [Principals -> ScopeValues]
    /\ evidence \in Nat
    /\ req \in [Requests -> RequestSet]

\* The program of q has taken one of the words.
Passed(q, words) == \E i \in 1..(q.pc - 1) : Routes[q.route].steps[i] \in words
Ran(q) == q.at \in {"run", "answered"}
Capability(q) == Routes[q.route].capability

\* A request that is not yet authorized has done nothing.
Unstarted(q, audited) ==
    /\ q.at \in {"new", "resolve"} => q.access = NoAccess /\ ~audited
    /\ q.at \in {"new", "resolve", "scope"} => q.pc = 1 /\ q.wrote = {}
    /\ q.at # "new" => q.who \in Principals
    /\ q.at = "answered" => q.pc = Len(Routes[q.route].steps) + 1

\* What a request did, it was allowed to do.
Authorized(q, audited) ==
    /\ audited => q.access = Platform
    /\ q.access = Platform => audited /\ q.wrote = {} /\ Routes[q.route].steps = <<"read">>
    /\ Ran(q) => q.access = Platform \/ Allows(q.scope, Capability(q))
    /\ q.wrote \subseteq {"offer"} \/ (Capability(q) \in WriteScopes /\ Allows(q.scope, Capability(q)))

\* What held at the provider's answer, or since, is remembered.
Remembered(q, ms, sc, ev) ==
    /\ q.seen <= ev
    /\ Ran(q) /\ Passed(q, {"provider"}) =>
          /\ ms[q.who] # NoAccess \/ Passed(q, RenewWords) => q.member
          /\ Allows(sc[q.who], Capability(q)) \/ Passed(q, {"reauth"}) => q.scoped
          /\ q.seen = ev \/ Passed(q, {"pinned"}) => q.current

RequestOK(q, audited, ms, sc, ev) == Unstarted(q, audited) /\ Authorized(q, audited) /\ Remembered(q, ms, sc, ev)

Inv == ApiTypeOK /\ \A r \in Requests : RequestOK(req[r], r \in audit, membership, scopes, evidence)

LEMMA InitInv == ASSUME ApiAssumption, ApiInit PROVE Inv
<1>0. "identity" \in DOMAIN Single BY DEF Single
<1>1. "identity" \in DOMAIN Routes BY <1>0, MergeDomain DEF Routes
<1>2. Fresh \in RequestSet
  BY <1>1 DEF Fresh, RequestSet, ScopeValues, AccessValues, Accesses
<1>3. ApiTypeOK
  BY <1>2 DEF ApiTypeOK, ApiInit, ApiAssumption, ScopeValues, Accesses, NoAccess
<1>4. RequestOK(Fresh, FALSE, membership, scopes, 0)
  BY DEF RequestOK, Unstarted, Authorized, Remembered, Fresh, NoAccess, Platform, Ran
<1>5. ASSUME NEW r \in Requests PROVE RequestOK(req[r], r \in audit, membership, scopes, evidence)
  <2>1. req[r] = Fresh /\ (r \in audit) = FALSE /\ evidence = 0 BY DEF ApiInit
  <2> QED BY <2>1, <1>4
<1> QED BY <1>3, <1>5 DEF Inv

LEMMA NoPlatform == Platform \notin Accesses
BY DEF Platform, Accesses, NoAccess

LEMMA InvAllowed == ASSUME Inv PROVE RequestsAllowed
<1> USE DEF Inv, RequestOK
<1>1. AnswersStillAllowed
  <2> SUFFICES ASSUME NEW r \in Requests, Answered(r), Uses(r, "provider")
               PROVE  /\ req[r].member
                      /\ Uses(r, "pinned") => req[r].current
                      /\ Uses(r, "reauth") => req[r].scoped
    BY DEF AnswersStillAllowed
  <2> DEFINE q == req[r]
             s == Routes[q.route].steps
  <2>1. q \in RequestSet /\ q.at = "answered" /\ q.pc = Len(s) + 1 /\ Ran(q)
    BY DEF ApiTypeOK, Answered, Unstarted, Ran
  <2>2. RouteOK(q.route, Routes[q.route])
    BY <2>1, RoutesOK DEF AllOK, RequestSet
  <2>3. DOMAIN s = 1..Len(s) /\ Len(s) \in Nat
    BY <2>2 DEF RouteOK
  <2>4. PICK i \in 1..Len(s) : s[i] = "provider"
    BY <2>3 DEF Uses, Steps
  <2>5. Passed(q, {"provider"})
    BY <2>1, <2>3, <2>4 DEF Passed
  <2>6. Passed(q, RenewWords)
    BY <2>1, <2>2, <2>3, <2>4 DEF Passed, RouteOK
  <2>7. Uses(r, "pinned") => Passed(q, {"pinned"})
    BY <2>1, <2>3 DEF Passed, Uses, Steps
  <2>8. Uses(r, "reauth") => Passed(q, {"reauth"})
    BY <2>1, <2>3 DEF Passed, Uses, Steps
  <2> QED BY <2>1, <2>5, <2>6, <2>7, <2>8 DEF Remembered
<1>2. SupportOnlyReads
  BY DEF SupportOnlyReads, Authorized
<1>3. ReadersNeverWrite
  BY DEF ReadersNeverWrite, Authorized, Allows, WriteScopes
<1> QED BY <1>1, <1>2, <1>3 DEF RequestsAllowed

LEMMA Later ==
    ASSUME NEW q \in RequestSet, NEW audited, NEW ms, NEW sc, NEW e \in Nat, NEW e2 \in {e, e + 1},
           RequestOK(q, audited, ms, sc, e)
    PROVE  RequestOK(q, audited, ms, sc, e2)
BY DEF RequestOK, Remembered, RequestSet

LEMMA SetInv ==
    ASSUME Inv, NEW r \in Requests, NEW v \in RequestSet, Set(r, v), UNCHANGED world,
           evidence' \in {evidence, evidence + 1},
           \A o \in Requests : o # r => ((o \in audit') <=> (o \in audit)),
           RequestOK(v, r \in audit', membership, scopes, evidence')
    PROVE  Inv'
<1>1. ApiTypeOK' BY DEF ApiTypeOK, Inv, Set, world
<1>2. ASSUME NEW o \in Requests
      PROVE  RequestOK(req'[o], o \in audit', membership', scopes', evidence')
  <2>1. CASE o = r
    BY <2>1 DEF Set, world, Inv, ApiTypeOK
  <2>2. CASE o # r
    <3>1. req'[o] = req[o] /\ (o \in audit') = (o \in audit) /\ req[o] \in RequestSet
      BY <2>2 DEF Set, Inv, ApiTypeOK
    <3>2. RequestOK(req[o], o \in audit, membership, scopes, evidence) /\ evidence \in Nat
      BY DEF Inv, ApiTypeOK
    <3>3. RequestOK(req[o], o \in audit, membership, scopes, evidence')
      BY <3>1, <3>2, Later
    <3> QED BY <3>1, <3>3 DEF world
  <2> QED BY <2>1, <2>2
<1> QED BY <1>1, <1>2 DEF Inv

\* What a word of the program adds to the words passed.
LEMMA PassedNext ==
    ASSUME NEW q \in RequestSet, NEW v \in RequestSet, v.route = q.route, v.pc = q.pc + 1, NEW words
    PROVE  Passed(v, words) <=> Passed(q, words) \/ Routes[q.route].steps[q.pc] \in words
<1>1. q.pc \in Nat \ {0} BY DEF RequestSet
<1>2. \A i \in 1..q.pc : i \in 1..(q.pc - 1) \/ i = q.pc BY <1>1
<1>3. \A i \in 1..(q.pc - 1) : i \in 1..q.pc BY <1>1
<1>4. v.pc - 1 = q.pc /\ q.pc \in 1..q.pc BY <1>1
<1> QED BY <1>1, <1>2, <1>3, <1>4 DEF Passed

\* Before the provider is asked nothing that confirms its answer has been done.
LEMMA BeforeProvider ==
    ASSUME NEW q, RouteOK(q.route, Routes[q.route]), q.pc \in 1..Len(Routes[q.route].steps),
           Routes[q.route].steps[q.pc] = "provider"
    PROVE  ~Passed(q, RenewWords) /\ ~Passed(q, {"reauth"}) /\ ~Passed(q, {"pinned"})
<1> DEFINE s == Routes[q.route].steps
           k == q.pc
<1>1. Len(s) \in Nat /\ \A j \in 1..Len(s) : s[j] \in RenewWords \cup {"pinned"} => j > k
  BY DEF RouteOK
<1>2. k \in 1..Len(s) OBVIOUS
<1> HIDE DEF s, k
<1>3. \A i \in 1..(k - 1) : i \in 1..Len(s) /\ ~(i > k) BY <1>1, <1>2
<1>4. \A i \in 1..(k - 1) : s[i] \notin RenewWords /\ s[i] # "reauth" /\ s[i] # "pinned"
  BY <1>1, <1>3 DEF RenewWords
<1> QED BY <1>4 DEF Passed, s, k

LEMMA Refused ==
    ASSUME NEW q \in RequestSet, q.at # "new", NEW audited, NEW ms, NEW sc, NEW e,
           RequestOK(q, audited, ms, sc, e), NEW v, v = [q EXCEPT !.at = "refused"]
    PROVE  v \in RequestSet /\ RequestOK(v, audited, ms, sc, e)
BY DEF RequestSet, RequestOK, Unstarted, Authorized, Remembered, Ran, Capability

LEMMA RefuseInv ==
    ASSUME Inv, NEW r \in Requests, req[r].at # "new", Deny(r), UNCHANGED <<world, audit>>,
           evidence' = evidence
    PROVE  Inv'
<1> DEFINE q == req[r]
           v == [q EXCEPT !.at = "refused"]
<1>1. q \in RequestSet /\ RequestOK(q, r \in audit, membership, scopes, evidence)
  BY DEF Inv, ApiTypeOK
<1>2. v \in RequestSet /\ RequestOK(v, r \in audit, membership, scopes, evidence)
  BY <1>1, Refused
<1> QED BY <1>2, SetInv DEF Deny

LEMMA AuthenticateInv ==
    ASSUME Inv, ApiAssumption, NEW r \in Requests, NEW who \in Principals, NEW route \in Active,
           Authenticate(r, who, route)
    PROVE  Inv'
<1> DEFINE q == req[r]
           v == [q EXCEPT !.at = "resolve", !.who = who, !.route = route, !.scope = scopes[who]]
<1>1. q \in RequestSet /\ q.at = "new" /\ RequestOK(q, r \in audit, membership, scopes, evidence)
  BY DEF Inv, ApiTypeOK, Authenticate
<1>2. v \in RequestSet
  BY <1>1 DEF RequestSet, ApiAssumption, Inv, ApiTypeOK
<1>3. RequestOK(v, r \in audit, membership, scopes, evidence)
  <2>1. v.access = NoAccess /\ v.at = "resolve" /\ v.who = who /\ v.pc = 1 /\ v.wrote = {} /\ v.seen = q.seen
        /\ r \notin audit
    BY <1>1 DEF RequestSet, RequestOK, Unstarted
  <2>2. v.access # Platform BY <2>1, NoPlatform DEF Accesses
  <2> QED BY <1>1, <2>1, <2>2 DEF RequestOK, Unstarted, Authorized, Remembered, Ran
<1> QED BY <1>2, <1>3, SetInv DEF Authenticate

LEMMA ResolveAccessInv ==
    ASSUME Inv, NEW r \in Requests, ResolveAccess(r)
    PROVE  Inv'
<1> DEFINE q == req[r]
           a == membership[q.who]
<1>1. q \in RequestSet /\ q.at = "resolve" /\ RequestOK(q, r \in audit, membership, scopes, evidence)
  BY DEF Inv, ApiTypeOK, ResolveAccess
<1>2. /\ q.access = NoAccess /\ r \notin audit /\ q.pc = 1 /\ q.wrote = {}
      /\ q.who \in Principals /\ a \in Accesses
  BY <1>1 DEF RequestOK, Unstarted, Inv, ApiTypeOK
<1>3. CASE Deny(r) /\ UNCHANGED audit
  BY <1>1, <1>3, RefuseInv DEF ResolveAccess, Inv, ApiTypeOK
<1>4. CASE Set(r, [q EXCEPT !.at = "scope", !.access = a]) /\ UNCHANGED audit
  <2> DEFINE v == [q EXCEPT !.at = "scope", !.access = a]
  <2>1. v \in RequestSet BY <1>1, <1>2 DEF RequestSet, AccessValues
  <2>2. RequestOK(v, r \in audit, membership, scopes, evidence)
    BY <1>1, <1>2, NoPlatform DEF RequestSet, RequestOK, Unstarted, Authorized, Remembered, Ran
  <2> QED BY <1>4, <2>1, <2>2, SetInv DEF ResolveAccess
<1>5. CASE /\ Routes[q.route].method = "GET" /\ q.route \in PlatformReadable
           /\ audit' = audit \cup {r}
           /\ Set(r, [q EXCEPT !.at = "scope", !.access = Platform])
  <2> DEFINE v == [q EXCEPT !.at = "scope", !.access = Platform]
  <2>1. v \in RequestSet BY <1>1 DEF RequestSet, AccessValues
  <2>2. RouteOK(q.route, Routes[q.route]) BY <1>1, RoutesOK DEF RequestSet, AllOK
  <2>3. Routes[q.route].steps = <<"read">> BY <1>5, <2>2 DEF RouteOK
  <2>4. RequestOK(v, TRUE, membership, scopes, evidence)
    BY <1>1, <1>2, <2>3 DEF RequestSet, RequestOK, Unstarted, Authorized, Remembered, Ran
  <2> QED BY <1>5, <2>1, <2>4, SetInv DEF ResolveAccess
<1> QED BY <1>3, <1>4, <1>5 DEF ResolveAccess, Grant

LEMMA CheckScopeInv ==
    ASSUME Inv, NEW r \in Requests, CheckScope(r)
    PROVE  Inv'
<1> DEFINE q == req[r]
           v == [q EXCEPT !.at = "run"]
<1>1. q \in RequestSet /\ q.at = "scope" /\ RequestOK(q, r \in audit, membership, scopes, evidence)
  BY DEF Inv, ApiTypeOK, CheckScope
<1>2. CASE Deny(r)
  BY <1>1, <1>2, RefuseInv DEF CheckScope
<1>3. CASE Set(r, v) /\ (q.access = Platform \/ Allows(q.scope, Capability(q)))
  <2>1. v \in RequestSet BY <1>1 DEF RequestSet
  <2>2. v.pc = 1 /\ ~Passed(v, {"provider"}) BY <1>1 DEF RequestSet, RequestOK, Unstarted, Passed
  <2>3. RequestOK(v, r \in audit, membership, scopes, evidence)
    BY <1>1, <1>3, <2>2 DEF RequestSet, RequestOK, Unstarted, Authorized, Remembered, Ran, Capability
  <2> QED BY <1>3, <2>1, <2>3, SetInv DEF CheckScope
<1> QED BY <1>2, <1>3 DEF CheckScope, Capability

\* A running request and the word it is at.
LEMMA RunningFacts ==
    ASSUME Inv, NEW r \in Requests, NEW words, Running(r, words), NEW q, q = req[r]
    PROVE  /\ q \in RequestSet /\ q.at = "run" /\ RequestOK(q, r \in audit, membership, scopes, evidence)
           /\ q.pc \in 1..Len(Routes[q.route].steps) /\ Routes[q.route].steps[q.pc] \in words
           /\ RouteOK(q.route, Routes[q.route])
<1>1. q \in RequestSet /\ RequestOK(q, r \in audit, membership, scopes, evidence)
  BY DEF Inv, ApiTypeOK
<1>2. RouteOK(q.route, Routes[q.route]) BY <1>1, RoutesOK DEF RequestSet, AllOK
<1>3. q.pc \in Nat \ {0} /\ Len(Routes[q.route].steps) \in Nat BY <1>1, <1>2 DEF RequestSet, RouteOK
<1>4. q.at = "run" /\ q.pc <= Len(Routes[q.route].steps) /\ Routes[q.route].steps[q.pc] \in words
  BY DEF Running, Word, Steps
<1> QED BY <1>1, <1>2, <1>3, <1>4

LEMMA AdvanceFields ==
    ASSUME NEW u \in RequestSet
    PROVE  LET v == Advance(u) IN
           /\ v \in RequestSet /\ v.pc = u.pc + 1 /\ v.at = u.at /\ v.route = u.route /\ v.who = u.who
           /\ v.access = u.access /\ v.scope = u.scope /\ v.seen = u.seen /\ v.wrote = u.wrote
           /\ v.current = u.current /\ v.member = u.member /\ v.scoped = u.scoped
BY DEF RequestSet, Advance

\* A word that neither writes nor renews nor asks the provider.
LEMMA Advanced ==
    ASSUME NEW q \in RequestSet, q.at = "run", NEW audited, NEW ms, NEW sc, NEW e \in Nat,
           RequestOK(q, audited, ms, sc, e),
           Routes[q.route].steps[q.pc] \notin RenewWords \cup {"provider"},
           Routes[q.route].steps[q.pc] = "pinned" => q.seen = e
    PROVE  Advance(q) \in RequestSet /\ RequestOK(Advance(q), audited, ms, sc, e)
<1> DEFINE v == Advance(q)
           w == Routes[q.route].steps[q.pc]
<1>1. /\ v \in RequestSet /\ v.pc = q.pc + 1 /\ v.at = "run" /\ v.route = q.route /\ v.who = q.who
      /\ v.access = q.access /\ v.scope = q.scope /\ v.seen = q.seen /\ v.wrote = q.wrote
      /\ v.current = q.current /\ v.member = q.member /\ v.scoped = q.scoped
  BY DEF RequestSet, Advance
<1>2. \A words : Passed(v, words) <=> Passed(q, words) \/ w \in words
  BY <1>1, PassedNext
<1>3. Unstarted(v, audited) /\ Authorized(v, audited)
  BY <1>1 DEF RequestOK, Unstarted, Authorized, Ran, Capability
<1>4. Remembered(v, ms, sc, e)
  <2>1. Passed(v, {"provider"}) <=> Passed(q, {"provider"}) BY <1>2
  <2>2. Passed(v, RenewWords) <=> Passed(q, RenewWords) BY <1>2
  <2>3. Passed(v, {"reauth"}) <=> Passed(q, {"reauth"}) BY <1>2 DEF RenewWords
  <2>4. Passed(v, {"pinned"}) => Passed(q, {"pinned"}) \/ q.seen = e BY <1>2
  <2> QED BY <1>1, <2>1, <2>2, <2>3, <2>4 DEF RequestOK, Remembered, Ran, Capability
<1> QED BY <1>1, <1>3, <1>4 DEF RequestOK

LEMMA RunInv ==
    ASSUME Inv, NEW r \in Requests, NEW words, Running(r, words),
           UNCHANGED <<world, evidence, audit>>,
           Deny(r) \/ (/\ Set(r, Advance(req[r])) /\ words \cap (RenewWords \cup {"provider"}) = {}
                       /\ Word(r) = "pinned" => req[r].seen = evidence)
    PROVE  Inv'
<1> DEFINE q == req[r]
<1>1. q \in RequestSet /\ q.at = "run" /\ RequestOK(q, r \in audit, membership, scopes, evidence)
      /\ Routes[q.route].steps[q.pc] \in words
  BY RunningFacts
<1>2. CASE Deny(r)
  BY <1>1, <1>2, RefuseInv
<1>3. CASE /\ Set(r, Advance(q)) /\ words \cap (RenewWords \cup {"provider"}) = {}
           /\ Word(r) = "pinned" => q.seen = evidence
  <2>1. evidence \in Nat BY DEF Inv, ApiTypeOK
  <2>2. Advance(q) \in RequestSet /\ RequestOK(Advance(q), r \in audit, membership, scopes, evidence)
    BY <1>1, <1>3, <2>1, Advanced DEF Word, Steps
  <2> QED BY <1>3, <2>2, SetInv
<1> QED BY <1>2, <1>3

LEMMA ConditionInv == ASSUME Inv, NEW r \in Requests, Condition(r) PROVE Inv'
<1>1. Running(r, Conditions) /\ UNCHANGED <<world, evidence, audit>> BY DEF Condition
<1>2. Conditions \cap (RenewWords \cup {"provider"}) = {} BY DEF Conditions, RenewWords
<1>3. CASE Deny(r) BY <1>1, <1>3, RunInv
<1>4. CASE Set(r, Advance(req[r])) /\ Holds(r, Word(r))
  <2>1. Word(r) = "pinned" => req[r].seen = evidence BY <1>4 DEF Holds
  <2> QED BY <1>1, <1>2, <1>4, <2>1, RunInv
<1> QED BY <1>3, <1>4 DEF Condition

LEMMA InputInv == ASSUME Inv, NEW r \in Requests, Input(r) \/ BodyCondition(r) PROVE Inv'
<1> DEFINE A == {"body", "author", "space", "authority"}
           B == {"review", "eventRefs"}
<1>1. UNCHANGED <<world, evidence, audit>> /\ (Set(r, Advance(req[r])) \/ Deny(r))
  BY DEF Input, BodyCondition
<1>2. A \cap (RenewWords \cup {"provider"}) = {} /\ B \cap (RenewWords \cup {"provider"}) = {}
  BY DEF RenewWords
<1>3. CASE Running(r, A)
  BY <1>1, <1>2, <1>3, RunInv DEF Running
<1>4. CASE Running(r, B)
  BY <1>1, <1>2, <1>4, RunInv DEF Running
<1> QED BY <1>3, <1>4 DEF Input, BodyCondition

\* A read comes before the provider, so what it has seen is not what an answer of the
\* provider is compared with.
LEMMA ReadInv == ASSUME Inv, NEW r \in Requests, Read(r) PROVE Inv'
<1> DEFINE q == req[r]
           v == Advance([q EXCEPT !.seen = evidence, !.held = q.access])
           s == Routes[q.route].steps
<1>1. /\ q \in RequestSet /\ q.at = "run" /\ RequestOK(q, r \in audit, membership, scopes, evidence)
      /\ q.pc \in 1..Len(s) /\ s[q.pc] = "read" /\ RouteOK(q.route, Routes[q.route])
  BY RunningFacts DEF Read
<1>2. CASE Deny(r) BY <1>1, <1>2, RefuseInv DEF Read
<1>3. CASE Set(r, v)
  <2>1. evidence \in Nat BY DEF Inv, ApiTypeOK
  <2>2. /\ v \in RequestSet /\ v.pc = q.pc + 1 /\ v.at = "run" /\ v.route = q.route /\ v.who = q.who
        /\ v.access = q.access /\ v.scope = q.scope /\ v.seen = evidence /\ v.wrote = q.wrote
    <3> DEFINE u == [q EXCEPT !.seen = evidence, !.held = q.access]
    <3>1. /\ u \in RequestSet /\ u.pc = q.pc /\ u.at = "run" /\ u.route = q.route /\ u.who = q.who
          /\ u.access = q.access /\ u.scope = q.scope /\ u.seen = evidence /\ u.wrote = q.wrote
      BY <1>1, <2>1 DEF RequestSet
    <3> QED BY <3>1, AdvanceFields
  <2>3. ~Passed(q, {"provider"})
    BY <1>1 DEF Passed, RouteOK
  <2>4. ~Passed(v, {"provider"})
    BY <1>1, <2>2, <2>3, PassedNext
  <2>5. RequestOK(v, r \in audit, membership, scopes, evidence)
    <3> HIDE DEF q, v
    <3>1. Unstarted(v, r \in audit) BY <1>1, <2>2 DEF RequestOK, Unstarted
    <3>2. Authorized(v, r \in audit) BY <1>1, <2>2 DEF RequestOK, Authorized, Ran, Capability
    <3>3. Remembered(v, membership, scopes, evidence) BY <2>1, <2>2, <2>4 DEF Remembered
    <3> QED BY <3>1, <3>2, <3>3 DEF RequestOK
  <2> QED BY <1>3, <2>2, <2>5, SetInv DEF Read
<1> QED BY <1>2, <1>3 DEF Read

LEMMA ProviderInv == ASSUME Inv, NEW r \in Requests, Provider(r) PROVE Inv'
<1> DEFINE q == req[r]
           m == membership[q.who] # NoAccess
           c == Allows(scopes[q.who], Routes[q.route].capability)
           k == q.seen = evidence
           v == Advance([q EXCEPT !.member = m, !.scoped = c, !.current = k])
           s == Routes[q.route].steps
<1>1. /\ q \in RequestSet /\ q.at = "run" /\ RequestOK(q, r \in audit, membership, scopes, evidence)
      /\ q.pc \in 1..Len(s) /\ s[q.pc] = "provider" /\ RouteOK(q.route, Routes[q.route])
  BY RunningFacts DEF Provider
<1>2. CASE Deny(r) BY <1>1, <1>2, RefuseInv DEF Provider
<1>3. CASE Set(r, v)
  <2>1. m \in BOOLEAN /\ c \in BOOLEAN /\ k \in BOOLEAN BY DEF Allows
  <2>2. /\ v \in RequestSet /\ v.pc = q.pc + 1 /\ v.at = "run" /\ v.route = q.route /\ v.who = q.who
        /\ v.access = q.access /\ v.scope = q.scope /\ v.seen = q.seen /\ v.wrote = q.wrote
        /\ v.member = m /\ v.scoped = c /\ v.current = k
    <3> DEFINE u == [q EXCEPT !.member = m, !.scoped = c, !.current = k]
    <3> HIDE DEF m, c, k
    <3>1. /\ u \in RequestSet /\ u.pc = q.pc /\ u.at = "run" /\ u.route = q.route /\ u.who = q.who
          /\ u.access = q.access /\ u.scope = q.scope /\ u.seen = q.seen /\ u.wrote = q.wrote
          /\ u.member = m /\ u.scoped = c /\ u.current = k
      BY <1>1, <2>1 DEF RequestSet
    <3>2. v = Advance(u) OBVIOUS
    <3> HIDE DEF u, v
    <3> QED BY <1>1, <3>1, <3>2, AdvanceFields
  <2>3. ~Passed(q, RenewWords) /\ ~Passed(q, {"reauth"}) /\ ~Passed(q, {"pinned"})
    BY <1>1, BeforeProvider
  <2>4. ~Passed(v, RenewWords) /\ ~Passed(v, {"reauth"}) /\ ~Passed(v, {"pinned"})
    <3> HIDE DEF q, v, m, c, k
    <3>1. \A words : Passed(v, words) <=> Passed(q, words) \/ s[q.pc] \in words BY <1>1, <2>2, PassedNext
    <3> QED BY <1>1, <2>3, <3>1 DEF RenewWords
  <2>5. Unstarted(v, r \in audit) /\ Authorized(v, r \in audit)
    BY <1>1, <2>2 DEF RequestOK, Unstarted, Authorized, Ran, Capability
  <2>6. Remembered(v, membership, scopes, evidence)
    BY <1>1, <2>2, <2>4 DEF RequestOK, Remembered, Capability
  <2> QED BY <1>3, <2>2, <2>5, <2>6, SetInv DEF Provider, RequestOK
<1> QED BY <1>2, <1>3 DEF Provider

\* Audited support only ever reads, so at any other word the caller is a member.
LEMMA NotSupport ==
    ASSUME NEW q \in RequestSet, NEW audited, Authorized(q, audited),
           q.pc \in 1..Len(Routes[q.route].steps), Routes[q.route].steps[q.pc] # "read"
    PROVE  q.access # Platform /\ ~audited
<1>1. ASSUME q.access = Platform PROVE FALSE
  <2>1. Routes[q.route].steps = <<"read">> BY <1>1 DEF Authorized
  <2>2. q.pc = 1 BY <2>1
  <2> QED BY <2>1, <2>2
<1> QED BY <1>1 DEF Authorized

LEMMA RenewInv == ASSUME Inv, NEW r \in Requests, Renew(r) PROVE Inv'
<1> DEFINE q == req[r]
           a == membership[q.who]
           w == Word(r)
           s == IF w = "reauth" THEN scopes[q.who] ELSE q.scope
           u == [q EXCEPT !.access = a, !.scope = s]
           v == Advance(u)
<1>1. /\ q \in RequestSet /\ q.at = "run" /\ RequestOK(q, r \in audit, membership, scopes, evidence)
      /\ q.pc \in 1..Len(Routes[q.route].steps) /\ Routes[q.route].steps[q.pc] \in {"fresh", "reauth"}
      /\ RouteOK(q.route, Routes[q.route]) /\ w = Routes[q.route].steps[q.pc]
  BY RunningFacts DEF Renew, Word, Steps
<1>2. CASE Deny(r) BY <1>1, <1>2, RefuseInv DEF Renew
<1>3. CASE Set(r, v) /\ a # NoAccess /\ (w = "reauth" => Allows(s, Capability(q)))
  <2>1. q.access # Platform /\ r \notin audit BY <1>1, NotSupport DEF RequestOK
  <2>2. q.who \in Principals /\ a \in Accesses /\ s \in ScopeValues
    BY <1>1 DEF RequestOK, Unstarted, Inv, ApiTypeOK, RequestSet
  <2>3. Allows(s, Capability(q))
    BY <1>1, <1>3, <2>1 DEF RequestOK, Authorized, Ran
  <2>4. /\ u \in RequestSet /\ u.pc = q.pc /\ u.at = "run" /\ u.route = q.route /\ u.who = q.who
        /\ u.access = a /\ u.scope = s /\ u.seen = q.seen /\ u.wrote = q.wrote
        /\ u.current = q.current /\ u.member = q.member /\ u.scoped = q.scoped
    <3> HIDE DEF a, s
    <3> QED BY <1>1, <2>2 DEF RequestSet, AccessValues
  <2>5. /\ v \in RequestSet /\ v.pc = q.pc + 1 /\ v.at = "run" /\ v.route = q.route /\ v.who = q.who
        /\ v.access = a /\ v.scope = s /\ v.seen = q.seen /\ v.wrote = q.wrote
        /\ v.current = q.current /\ v.member = q.member /\ v.scoped = q.scoped
    <3> HIDE DEF a, s, u
    <3> QED BY <2>4, AdvanceFields
  <2>6. \A words : Passed(v, words) <=> Passed(q, words) \/ w \in words
    <3> HIDE DEF q, v, w
    <3>1. q \in RequestSet /\ v \in RequestSet /\ v.route = q.route /\ v.pc = q.pc + 1
          /\ w = Routes[q.route].steps[q.pc]
      BY <1>1, <2>5
    <3>2. ASSUME NEW words PROVE Passed(v, words) <=> Passed(q, words) \/ w \in words
      BY <3>1, PassedNext
    <3> QED BY <3>2
  <2>7. Unstarted(v, r \in audit) BY <1>1, <2>2, <2>5 DEF RequestOK, Unstarted
  <2>8. Authorized(v, r \in audit)
    BY <1>1, <2>1, <2>2, <2>3, <2>5, NoPlatform DEF RequestOK, Authorized, Ran, Capability
  <2>9. Remembered(v, membership, scopes, evidence)
    <3>1. Passed(v, {"provider"}) <=> Passed(q, {"provider"}) BY <1>1, <2>6
    <3>2. Passed(v, {"pinned"}) <=> Passed(q, {"pinned"}) BY <1>1, <2>6
    <3>3. Passed(v, {"reauth"}) => Passed(q, {"reauth"}) \/ w = "reauth" BY <2>6
    <3>4. w = "reauth" => Allows(scopes[q.who], Capability(q)) BY <2>3
    <3> HIDE DEF a, s, w, u, v
    <3> QED BY <1>1, <1>3, <2>5, <3>1, <3>2, <3>3, <3>4 DEF RequestOK, Remembered, Ran, Capability, a
  <2> QED BY <1>3, <2>5, <2>7, <2>8, <2>9, SetInv DEF Renew, RequestOK
<1> QED BY <1>2, <1>3 DEF Renew, Capability

\* An effect of a route.
LEMMA EffectInv ==
    ASSUME Inv, NEW r \in Requests, NEW w, NEW words, Running(r, words), w = Word(r),
           words \subseteq WriteWords \cup {"offer"}, UNCHANGED <<world, audit>>,
           evidence' \in {evidence, evidence + 1},
           Set(r, Advance([req[r] EXCEPT !.wrote = @ \cup {w}]))
    PROVE  Inv'
<1> DEFINE q == req[r]
           u == [q EXCEPT !.wrote = @ \cup {w}]
<1>1. /\ q \in RequestSet /\ q.at = "run" /\ RequestOK(q, r \in audit, membership, scopes, evidence)
      /\ q.pc \in 1..Len(Routes[q.route].steps) /\ Routes[q.route].steps[q.pc] = w /\ w \in words
      /\ RouteOK(q.route, Routes[q.route])
  BY RunningFacts DEF Word, Steps
<1>2. w \in WriteWords \cup {"offer"} BY <1>1
<1>3. evidence \in Nat /\ evidence' \in Nat BY DEF Inv, ApiTypeOK
<1>4. RequestOK(q, r \in audit, membership, scopes, evidence') BY <1>1, <1>3, Later
<1>5. q.access # Platform /\ r \notin audit
  BY <1>1, <1>2, NotSupport DEF RequestOK, WriteWords
<1>6. Allows(q.scope, Capability(q)) BY <1>1, <1>5 DEF RequestOK, Authorized, Ran
<1>7. w # "offer" => Capability(q) \in WriteScopes BY <1>1, <1>2 DEF RouteOK, Capability
<1>8. /\ u \in RequestSet /\ u.pc = q.pc /\ u.at = "run" /\ u.route = q.route /\ u.who = q.who
      /\ u.access = q.access /\ u.scope = q.scope /\ u.seen = q.seen /\ u.wrote = q.wrote \cup {w}
      /\ u.current = q.current /\ u.member = q.member /\ u.scoped = q.scoped
  BY <1>1, <1>2 DEF RequestSet
<1>9. RequestOK(u, r \in audit, membership, scopes, evidence')
  <2>1. Unstarted(u, r \in audit) BY <1>1, <1>8 DEF RequestOK, Unstarted
  <2>2. Authorized(u, r \in audit)
    BY <1>1, <1>5, <1>6, <1>7, <1>8 DEF RequestOK, Authorized, Ran, Capability
  <2>3. Remembered(u, membership, scopes, evidence')
    BY <1>4, <1>8 DEF RequestOK, Remembered, Ran, Capability, Passed
  <2> QED BY <2>1, <2>2, <2>3 DEF RequestOK
<1>10. Advance(u) \in RequestSet /\ RequestOK(Advance(u), r \in audit, membership, scopes, evidence')
  <2>1. Routes[u.route].steps[u.pc] = w BY <1>1, <1>8
  <2>2. w \notin RenewWords \cup {"provider"} /\ w # "pinned" BY <1>2 DEF WriteWords, RenewWords
  <2> HIDE DEF u
  <2> QED BY <1>3, <1>8, <1>9, <2>1, <2>2, Advanced
<1> QED BY <1>10, SetInv

LEMMA WriteInv == ASSUME Inv, NEW r \in Requests, Write(r) PROVE Inv'
<1>1. Running(r, WriteWords) /\ UNCHANGED <<world, audit>> BY DEF Write, WriteWords
<1>2. CASE Deny(r) /\ UNCHANGED evidence
  BY <1>1, <1>2, RefuseInv DEF Running
<1>3. CASE /\ Set(r, Advance([req[r] EXCEPT !.wrote = @ \cup {Word(r)}]))
           /\ evidence' \in {evidence, evidence + 1}
  BY <1>1, <1>3, EffectInv
<1> QED BY <1>2, <1>3 DEF Write

LEMMA OfferInv == ASSUME Inv, NEW r \in Requests, Offer(r) PROVE Inv'
<1>1. Running(r, {"offer"}) /\ UNCHANGED <<world, evidence, audit>> /\ Word(r) = "offer"
  BY DEF Offer, Running
<1>2. CASE Set(r, Advance(req[r]))
  BY <1>1, <1>2, RunInv DEF RenewWords
<1>3. CASE Set(r, Advance([req[r] EXCEPT !.wrote = @ \cup {"offer"}]))
  BY <1>1, <1>3, EffectInv
<1> QED BY <1>2, <1>3 DEF Offer

LEMMA AnswerInv == ASSUME Inv, NEW r \in Requests, Answer(r) PROVE Inv'
<1> DEFINE q == req[r]
           v == [q EXCEPT !.at = "answered"]
<1>1. /\ q \in RequestSet /\ q.at = "run" /\ RequestOK(q, r \in audit, membership, scopes, evidence)
      /\ q.pc = Len(Routes[q.route].steps) + 1
  BY DEF Inv, ApiTypeOK, Answer, Steps
<1>2. /\ v \in RequestSet /\ v.pc = q.pc /\ v.at = "answered" /\ v.route = q.route /\ v.who = q.who
      /\ v.access = q.access /\ v.scope = q.scope /\ v.seen = q.seen /\ v.wrote = q.wrote
      /\ v.current = q.current /\ v.member = q.member /\ v.scoped = q.scoped
  BY <1>1 DEF RequestSet
<1>3. RequestOK(v, r \in audit, membership, scopes, evidence)
  <2>1. Unstarted(v, r \in audit) BY <1>1, <1>2 DEF RequestOK, Unstarted
  <2>2. Authorized(v, r \in audit) BY <1>1, <1>2 DEF RequestOK, Authorized, Ran, Capability
  <2>3. Remembered(v, membership, scopes, evidence)
    BY <1>1, <1>2 DEF RequestOK, Remembered, Ran, Capability, Passed
  <2> QED BY <2>1, <2>2, <2>3 DEF RequestOK
<1> QED BY <1>2, <1>3, SetInv DEF Answer

LEMMA ChangeMembershipInv ==
    ASSUME Inv, NEW p \in Principals, NEW a \in Accesses, ChangeMembership(p, a)
    PROVE  Inv'
<1>1. ApiTypeOK'
  <2>1. \A q \in RequestSet : [q EXCEPT !.member = TRUE] \in RequestSet BY DEF RequestSet
  <2> QED BY <2>1 DEF Inv, ApiTypeOK, ChangeMembership
<1>2. ASSUME NEW r \in Requests
      PROVE  RequestOK(req'[r], r \in audit', membership', scopes', evidence')
  <2> DEFINE q == req[r]
             v == req'[r]
  <2>1. /\ q \in RequestSet /\ RequestOK(q, r \in audit, membership, scopes, evidence)
        /\ audit' = audit /\ scopes' = scopes /\ evidence' = evidence
        /\ membership' = [membership EXCEPT ![p] = a] /\ membership \in [Principals -> Accesses]
        /\ v = IF q.who = p /\ a # NoAccess THEN [q EXCEPT !.member = TRUE] ELSE q
    BY DEF Inv, ApiTypeOK, ChangeMembership
  <2>2. /\ v.pc = q.pc /\ v.at = q.at /\ v.route = q.route /\ v.who = q.who
        /\ v.access = q.access /\ v.scope = q.scope /\ v.seen = q.seen /\ v.wrote = q.wrote
        /\ v.current = q.current /\ v.scoped = q.scoped
        /\ v.member = (q.member \/ (q.who = p /\ a # NoAccess))
    <3> HIDE DEF q, v
    <3>1. CASE q.who = p /\ a # NoAccess
      <4>1. v = [q EXCEPT !.member = TRUE] BY <2>1, <3>1
      <4> QED BY <2>1, <3>1, <4>1 DEF RequestSet
    <3>2. CASE ~(q.who = p /\ a # NoAccess)
      <4>1. v = q /\ q.member \in BOOLEAN BY <2>1, <3>2 DEF RequestSet
      <4> QED BY <3>2, <4>1
    <3> QED BY <3>1, <3>2
  <2>3. Ran(q) => q.who \in Principals BY <2>1 DEF Ran, RequestOK, Unstarted
  <2>4. Unstarted(v, r \in audit) /\ Authorized(v, r \in audit)
    BY <2>1, <2>2 DEF RequestOK, Unstarted, Authorized, Ran, Capability
  <2>5. Ran(q) /\ membership'[q.who] # NoAccess => membership[q.who] # NoAccess \/ (q.who = p /\ a # NoAccess)
    BY <2>1, <2>3
  <2>6. Remembered(v, membership', scopes, evidence)
    BY <2>1, <2>2, <2>5 DEF RequestOK, Remembered, Ran, Capability, Passed
  <2> QED BY <2>1, <2>4, <2>6 DEF RequestOK
<1> QED BY <1>1, <1>2 DEF Inv

LEMMA ChangeScopeInv ==
    ASSUME ApiAssumption, Inv, NEW p \in Principals, ChangeScope(p)
    PROVE  Inv'
<1>1. ApiTypeOK' BY DEF Inv, ApiTypeOK, ChangeScope, ScopeValues
<1>2. ASSUME NEW r \in Requests
      PROVE  RequestOK(req'[r], r \in audit', membership', scopes', evidence')
  <2> DEFINE q == req[r]
  <2>1. /\ q \in RequestSet /\ RequestOK(q, r \in audit, membership, scopes, evidence)
        /\ UNCHANGED <<membership, evidence, audit, req>> /\ scopes \in [Principals -> ScopeValues]
        /\ scopes' = [scopes EXCEPT ![p] = {}]
    BY DEF Inv, ApiTypeOK, ChangeScope
  <2>2. Ran(q) => q.who \in Principals BY <2>1 DEF Ran, RequestOK, Unstarted
  <2>3. Ran(q) /\ Allows(scopes'[q.who], Capability(q)) => Allows(scopes[q.who], Capability(q))
    BY <2>1, <2>2 DEF Allows, ApiAssumption
  <2>4. Remembered(q, membership, scopes', evidence)
    <3>1. Remembered(q, membership, scopes, evidence) BY <2>1 DEF RequestOK
    <3> DEFINE c == Capability(q)
               after == scopes'[q.who]
    <3>2. Ran(q) /\ Allows(after, c) => Allows(scopes[q.who], c) BY <2>3
    <3> HIDE DEF q, c, after
    <3> QED BY <3>1, <3>2 DEF Remembered, c, after
  <2> QED BY <2>1, <2>4 DEF RequestOK
<1> QED BY <1>1, <1>2 DEF Inv

(* The invariant holds initially and every step keeps it. *)
LEMMA NextInv == ASSUME ApiAssumption, Inv, [ApiNext]_apiVars PROVE Inv'
<1>1. CASE UNCHANGED apiVars
  BY <1>1 DEF apiVars, Inv, ApiTypeOK
<1>2. ASSUME NEW r \in Requests, Disconnect(r) PROVE Inv'
  BY <1>2, RefuseInv DEF Disconnect
<1>3. CASE ApiNext
  BY <1>2, <1>3, AuthenticateInv, ResolveAccessInv, CheckScopeInv, ConditionInv, InputInv, ReadInv,
     ProviderInv, RenewInv, WriteInv, OfferInv, AnswerInv, ChangeMembershipInv, ChangeScopeInv DEF ApiNext
<1> QED BY <1>1, <1>3

\* Whatever routes are called by whom, and whenever memberships, capabilities and
\* evidence change: what is answered with a provider was still allowed and current after
\* the provider, support reads only on the record, readers change nothing (handleRequest).
THEOREM RequestsAllowedHolds ==
    ASSUME ApiAssumption PROVE ApiSpec => []RequestsAllowed
<1>1. ApiInit => Inv BY InitInv
<1>2. Inv /\ [ApiNext]_apiVars => Inv' BY NextInv
<1>3. Inv => RequestsAllowed BY InvAllowed
<1> QED BY <1>1, <1>2, <1>3, PTL DEF ApiSpec
=============================================================================
