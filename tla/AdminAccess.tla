---------------------------- MODULE AdminAccess ----------------------------
(***************************************************************************)
(* Who may do what in the admin API: organisations, members, login by      *)
(* magic link, sessions, service tokens and roles.                        *)
(*                                                                         *)
(*   internal/auth/magic_link_service.go   Request, Consume                *)
(*   internal/auth/session_service.go      UpsertMember, Authenticate, ..  *)
(*   internal/auth/admin_token_service.go  CreateAdminToken, Authenticate  *)
(*   internal/auth/rbac.go, internal/http/middleware, internal/app/router  *)
(*                                                                         *)
(* A worker is the goroutine of one HTTP request; a step is one statement  *)
(* on the database (or the mail), so requests interleave between them.     *)
(* Times are ticks; last_used_at, which nothing reads, is left out.        *)
(***************************************************************************)
EXTENDS Naturals, Sequences, FiniteSets

CONSTANTS
    Orgs, Users, Workers,
    Hour,        \* window of the limit on magic links, in ticks
    PerHour,     \* defaultMagicLinkRateLimitPerHour
    LinkTTL, SessionTTL,
    Production,  \* AppEnv = "production"
    ScopeSets, Expiries,  \* scopes and expiries a service token may be asked for with
    Routes, GivenRoles,   \* the routes requests are made to, the roles given to members
    MaxTime, MaxLinks, MaxSessions, MaxTokens, MaxDisabled  \* bounds of the instance

ASSUME AccessAssumption ==
    /\ {Hour, PerHour, LinkTTL, SessionTTL, MaxTime, MaxLinks, MaxSessions, MaxTokens,
        MaxDisabled} \subseteq Nat
    /\ Expiries \subseteq Nat /\ Production \in BOOLEAN
    /\ IsFiniteSet(Workers) /\ Workers # {}

Roles == {"owner", "admin", "viewer"}

AdminScopes == {"admin:*", "admin:members:manage", "admin:members:view",
                "admin:tokens:manage", "admin:configuration:manage", "admin:view"}

\* The routes, by the permission they require.
Ops == {"me", "create_member", "list_members", "api_keys", "configure", "view"}

ASSUME RouteAssumption == ScopeSets \subseteq SUBSET AdminScopes /\ Routes \subseteq Ops /\ GivenRoles \subseteq Roles

VARIABLES
    clock,
    orgs,      \* [Orgs -> "none" | "active" | "disabled"]
    users,     \* [Users -> "none" | "active" | "disabled"]
    members,   \* org_memberships: [Orgs \X Users -> [role, status]]
    links,     \* magic_link_tokens, in the order of insertion
    mailed,    \* the links whose mail was sent
    sessions,  \* user_sessions, in the order of insertion
    tokens,    \* admin_tokens
    w,         \* what each worker is doing
    banned     \* history: users that were disabled at some time

tables == <<orgs, users, members, links, mailed, sessions, tokens, banned>>
avars == <<clock, tables, w>>

NoMember == [role |-> "none", status |-> "none"]
Idle == [pc |-> "idle"]

Link == [org: Orgs, user: Users, created: Nat, expires: Nat,
         status: {"active", "held", "consumed"}]
LoggedIn == [org: Orgs, user: Users, expires: Nat, via: Nat]

\* What a worker knows depends on its request.
Requesting == [pc: {"count", "insert"}, org: Orgs, user: Users, now: Nat]
Mailing == [pc: {"mail"}, link: Nat]
Verifying == [pc: {"find", "consume", "commit"}, link: Nat, now: Nat]
Acting == [pc: {"act"}, org: Orgs, actor: Users \cup {"token"}, op: Ops]
Work == {Idle} \cup Requesting \cup Mailing \cup Verifying \cup Acting

AccessTypeOK ==
    /\ clock \in 0 .. MaxTime
    /\ orgs \in [Orgs -> {"none", "active", "disabled"}]
    /\ users \in [Users -> {"none", "active", "disabled"}]
    /\ members \in [Orgs \X Users ->
                      {NoMember} \cup [role: Roles, status: {"active", "disabled"}]]
    /\ links \in Seq(Link)
    /\ mailed \subseteq DOMAIN links
    /\ sessions \in Seq(LoggedIn)
    /\ tokens \subseteq [org: Orgs, scopes: SUBSET AdminScopes, expires: Nat]
    /\ w \in [Workers -> Work]

AccessInit ==
    /\ clock = 0
    /\ orgs = [o \in Orgs |-> "none"]
    /\ users = [u \in Users |-> "none"]
    /\ members = [m \in Orgs \X Users |-> NoMember]
    /\ links = <<>> /\ mailed = {} /\ sessions = <<>> /\ tokens = {}
    /\ w = [x \in Workers |-> Idle]
    /\ banned = {}

Start(x, work) == w[x].pc = "idle" /\ w' = [w EXCEPT ![x] = work]
Return(x) == w' = [w EXCEPT ![x] = Idle]
At(x, pc) == w[x].pc = pc
Goto(x, pc) == w' = [w EXCEPT ![x].pc = pc]

-----------------------------------------------------------------------------
(* The platform operator, with the bootstrap token                         *)

CreateOrganization(o) ==
    /\ orgs[o] = "none"
    /\ orgs' = [orgs EXCEPT ![o] = "active"]
    /\ UNCHANGED <<clock, users, members, links, mailed, sessions, tokens, w, banned>>

normalizeAdminTokenScopes(S) == IF S = {} THEN {"admin:*"} ELSE S

AdminToken(o, S, expires) == [org |-> o, scopes |-> S, expires |-> expires]

CreateAdminToken(o, S, expires) ==
    /\ orgs[o] # "none"
    /\ Cardinality(tokens) < MaxTokens
    /\ tokens' = tokens \cup {AdminToken(o, normalizeAdminTokenScopes(S), expires)}
    /\ UNCHANGED <<clock, orgs, users, members, links, mailed, sessions, w, banned>>

Disabled ==
    {o \in Orgs : orgs[o] = "disabled"} \cup {u \in Users : users[u] = "disabled"}
        \cup {m \in Orgs \X Users : members[m].status = "disabled"}

\* No operation disables anyone; it is done in the database.
Disable ==
    /\ Cardinality(Disabled) < MaxDisabled
    /\ \/ \E o \in Orgs : orgs[o] = "active" /\ orgs' = [orgs EXCEPT ![o] = "disabled"]
                          /\ UNCHANGED <<users, members, banned>>
       \/ \E u \in Users : users[u] = "active" /\ users' = [users EXCEPT ![u] = "disabled"]
                           /\ banned' = banned \cup {u} /\ UNCHANGED <<orgs, members>>
       \/ \E m \in Orgs \X Users :
             /\ members[m].status = "active"
             /\ members' = [members EXCEPT ![m].status = "disabled"]
             /\ UNCHANGED <<orgs, users, banned>>
    /\ UNCHANGED <<clock, links, mailed, sessions, tokens, w>>

-----------------------------------------------------------------------------
(* Login                                                                   *)

ActiveMember(o, u) == users[u] = "active" /\ members[<<o, u>>].status = "active"

GetActiveMembershipByOrgSlugAndEmail(o, u) == ActiveMember(o, u) /\ orgs[o] = "active"

\* An unknown or inactive member is answered like a known one.
RequestMagicLink(x, o, u) ==
    /\ GetActiveMembershipByOrgSlugAndEmail(o, u)
    /\ Start(x, [pc |-> "count", org |-> o, user |-> u, now |-> clock])
    /\ UNCHANGED <<clock, tables>>

LinksSince(o, u, t) ==
    {n \in DOMAIN links : links[n].org = o /\ links[n].user = u /\ links[n].created >= t}

recentRequestLimitExceeded_OwnTick(x) ==
    Cardinality(LinksSince(w[x].org, w[x].user, w[x].now)) >= PerHour

recentRequestLimitExceeded(x) ==
    Cardinality({n \in LinksSince(w[x].org, w[x].user, 0) : links[n].created + Hour >= w[x].now})
        >= PerHour

CheckRecentRequests(x) ==
    /\ At(x, "count")
    /\ IF recentRequestLimitExceeded(x) THEN Return(x) ELSE Goto(x, "insert")
    /\ UNCHANGED <<clock, tables>>

CreateMagicLinkToken(x) ==
    /\ At(x, "insert")
    /\ Len(links) < MaxLinks
    /\ links' = Append(links, [org |-> w[x].org, user |-> w[x].user, created |-> w[x].now,
                               expires |-> w[x].now + LinkTTL, status |-> "active"])
    /\ w' = [w EXCEPT ![x] = [pc |-> "mail", link |-> Len(links) + 1]]
    /\ UNCHANGED <<clock, orgs, users, members, mailed, sessions, tokens, banned>>

SendMail(x) ==
    /\ At(x, "mail")
    /\ mailed' = mailed \cup {w[x].link}
    /\ Return(x)
    /\ UNCHANGED <<clock, orgs, users, members, links, sessions, tokens, banned>>

\* Whoever has the mail may verify its link, also twice at once.
VerifyMagicLink(x, n) ==
    /\ n \in mailed
    /\ Start(x, [pc |-> "find", link |-> n, now |-> clock])
    /\ UNCHANGED <<clock, tables>>

\* The statement's snapshot: an uncommitted update of the row is not seen, and the
\* tables joined to it are not looked at again after a wait for its lock.
Consumable(x) ==
    LET l == links[w[x].link] IN
    /\ l.status # "consumed"
    /\ l.expires > w[x].now
    /\ GetActiveMembershipByOrgSlugAndEmail(l.org, l.user)

FindMagicLinkToken(x) ==
    /\ At(x, "find")
    /\ IF Consumable(x) THEN Goto(x, "consume") ELSE Return(x)
    /\ UNCHANGED <<clock, tables>>

StillActive_AsRead(n) == TRUE
StillActive(n) == links[n].status = "active"

\* The row lock is waited for; then status is looked at again.
ConsumeMagicLinkToken(x) ==
    /\ At(x, "consume")
    /\ links[w[x].link].status # "held"
    /\ IF StillActive(w[x].link)
       THEN links' = [links EXCEPT ![w[x].link].status = "held"] /\ Goto(x, "commit")
       ELSE UNCHANGED links /\ Return(x)
    /\ UNCHANGED <<clock, orgs, users, members, mailed, sessions, tokens, banned>>

Session(o, u, now, via) ==
    [org |-> o, user |-> u, expires |-> now + SessionTTL, via |-> via]

\* The session is inserted and the transaction commits.
CreateUserSession(x) ==
    LET n == w[x].link IN
    /\ At(x, "commit")
    /\ Len(sessions) < MaxSessions
    /\ sessions' = Append(sessions, Session(links[n].org, links[n].user, w[x].now, n))
    /\ links' = [links EXCEPT ![n].status = "consumed"]
    /\ Return(x)
    /\ UNCHANGED <<clock, orgs, users, members, mailed, tokens, banned>>

PasswordlessMockLogin(o, u) ==
    /\ GetActiveMembershipByOrgSlugAndEmail(o, u)
    /\ Len(sessions) < MaxSessions
    /\ sessions' = Append(sessions, Session(o, u, clock, 0))
    /\ UNCHANGED <<clock, orgs, users, members, links, mailed, tokens, w, banned>>

\* The route does not exist in production.
MockLogin(o, u) == ~Production /\ PasswordlessMockLogin(o, u)

-----------------------------------------------------------------------------
(* Authenticated requests                                                  *)

scopesAllow(S, scope) == S \cap {"admin:*", scope} # {}

ServiceTokenMay(S, op) ==
    CASE op = "me"            -> TRUE
      [] op = "create_member" -> scopesAllow(S, "admin:members:manage")
      [] op = "list_members"  -> scopesAllow(S, "admin:members:view") \/ scopesAllow(S, "admin:members:manage")
      [] op = "api_keys"      -> scopesAllow(S, "admin:tokens:manage")
      [] op = "configure"     -> scopesAllow(S, "admin:configuration:manage")
      [] op = "view"          -> scopesAllow(S, "admin:view")

UserMay(role, op) ==
    CASE op \in {"create_member", "api_keys"} -> role = "owner"
      [] op \in {"list_members", "configure"} -> role \in {"owner", "admin"}
      [] op \in {"me", "view"} -> role \in Roles

\* GetUserSessionByHash: the role is the one the member has now.
SessionRole(s) == members[<<s.org, s.user>>].role

\* The role of a user in an organisation as it stands in the tables.
RoleNow(o, u) == IF ActiveMember(o, u) THEN members[<<o, u>>].role ELSE "none"

\* A request without a valid session or token is answered 401.
SessionValid(s) == ActiveMember(s.org, s.user) /\ s.expires > clock
TokenValid(t) == t.expires > clock

\* The handler is called only if the permission of its route allows it; 403 otherwise.
RequireAdminPermission(x, allowed, o, actor, op) ==
    /\ allowed
    /\ Start(x, [pc |-> "act", org |-> o, actor |-> actor, op |-> op])
    /\ UNCHANGED <<clock, tables>>

SessionRequest(x, n, op) ==
    LET s == sessions[n] IN
    SessionValid(s) /\ RequireAdminPermission(x, UserMay(SessionRole(s), op), s.org, s.user, op)

TokenRequest(x, t, op) ==
    TokenValid(t) /\ RequireAdminPermission(x, ServiceTokenMay(t.scopes, op), t.org, "token", op)

\* A new user is active; an existing one keeps its status.
UpsertUserByEmail_Reactivates(u) == users' = [users EXCEPT ![u] = "active"]
UpsertUserByEmail(u) == users' = [users EXCEPT ![u] = IF @ = "none" THEN "active" ELSE @]

\* A member is active again, in the new role.
UpsertOrgMembership(o, u, role) ==
    members' = [members EXCEPT ![<<o, u>>] = [role |-> role, status |-> "active"]]

UpsertMember(o, u, role) == UpsertUserByEmail(u) /\ UpsertOrgMembership(o, u, role)

CreateMember(x, u, role) ==
    /\ At(x, "act") /\ w[x].op = "create_member"
    /\ UpsertMember(w[x].org, u, role)
    /\ Return(x)
    /\ UNCHANGED <<clock, orgs, links, mailed, sessions, tokens, banned>>

\* The other handlers change tables this module does not have, or none.
OtherHandler(x) ==
    /\ At(x, "act") /\ w[x].op # "create_member"
    /\ Return(x)
    /\ UNCHANGED <<clock, tables>>

\* A statement, the mail or the process fails: what was not committed is undone.
Fail(x) ==
    /\ w[x].pc # "idle"
    /\ links' = IF w[x].pc = "commit" THEN [links EXCEPT ![w[x].link].status = "active"] ELSE links
    /\ Return(x)
    /\ UNCHANGED <<clock, orgs, users, members, mailed, sessions, tokens, banned>>

Tick ==
    /\ clock < MaxTime
    /\ clock' = clock + 1
    /\ UNCHANGED <<tables, w>>

AccessNext ==
    \/ \E o \in Orgs : \/ CreateOrganization(o)
                       \/ \E S \in ScopeSets, t \in Expiries : CreateAdminToken(o, S, t)
                       \/ \E u \in Users : MockLogin(o, u)
    \/ \E x \in Workers :
          \/ \E o \in Orgs, u \in Users : RequestMagicLink(x, o, u)
          \/ CheckRecentRequests(x) \/ CreateMagicLinkToken(x) \/ SendMail(x)
          \/ \E n \in DOMAIN links : VerifyMagicLink(x, n)
          \/ FindMagicLinkToken(x) \/ ConsumeMagicLinkToken(x) \/ CreateUserSession(x)
          \/ \E n \in DOMAIN sessions, op \in Routes : SessionRequest(x, n, op)
          \/ \E t \in tokens, op \in Routes : TokenRequest(x, t, op)
          \/ \E u \in Users, role \in GivenRoles : CreateMember(x, u, role)
          \/ OtherHandler(x) \/ Fail(x)
    \/ Disable
    \/ Tick

AccessSpec == AccessInit /\ [][AccessNext]_avars

-----------------------------------------------------------------------------
(* Properties                                                              *)

\* The limit on magic links is checked before the insert, outside a transaction.
\* All the same no hour holds more links of a member than the limit allows plus
\* one for every other request in flight, however long those are delayed.
RecentLinksBounded ==
    \A n \in DOMAIN links :
        Cardinality({m \in LinksSince(links[n].org, links[n].user, links[n].created) :
                       links[m].created =< links[n].created + Hour})
            =< PerHour + Cardinality(Workers) - 1

\* A login by mail has a link of its own: issued to the same member, consumed by
\* this login and no other, and not older than its lifetime when it was verified.
LinkSessions ==
    \A a \in DOMAIN sessions : sessions[a].via # 0 =>
        LET l == links[sessions[a].via] IN
        /\ l.status = "consumed" /\ <<l.org, l.user>> = <<sessions[a].org, sessions[a].user>>
        /\ sessions[a].expires - SessionTTL < l.created + LinkTTL
        /\ \A b \in DOMAIN sessions \ {a} : sessions[b].via # sessions[a].via

\* The users and roles as they stand let x, which starts on somebody's authority, go ahead.
Authorized(x) ==
    w[x].pc = "idle" /\ w'[x].pc = "act" /\ w'[x].actor # "token" =>
        /\ UserMay(RoleNow(w'[x].org, w'[x].actor), w'[x].op)
        /\ w'[x].actor \notin banned

\* A request goes ahead on a user's authority only if the members table allows it
\* as it stands then: a session does not carry the role of an earlier day, and a
\* user who was disabled does not come back, neither by a session or a link from
\* before nor by being made a member again.
AuthorityCurrent == [][\A x \in Workers : Authorized(x)]_avars
=============================================================================
