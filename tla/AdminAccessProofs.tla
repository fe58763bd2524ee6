------------------------- MODULE AdminAccessProofs -------------------------
(***************************************************************************)
(* Login by magic link and the authority of sessions, for any number of    *)
(* organisations, users, requests in flight, links and sessions.           *)
(***************************************************************************)
EXTENDS AdminAccess, SequenceTheorems, FiniteSetTheorems, TLAPS

\* The constants are numbers, and there is at least one worker.
LEMMA Numbers ==
    /\ Hour \in Nat /\ PerHour \in Nat /\ LinkTTL \in Nat /\ SessionTTL \in Nat /\ MaxTime \in Nat
    /\ Expiries \subseteq Nat /\ Cardinality(Workers) \in Nat /\ Cardinality(Workers) >= 1
  <1>1. Cardinality(Workers) \in Nat /\ Cardinality(Workers) # 0
    BY AccessAssumption, FS_CardinalityType, FS_EmptySet
  <1>2. QED
    BY <1>1, AccessAssumption

-----------------------------------------------------------------------------
(* Tables that grow at the end and change in place                         *)

\* A row appended to a table, and the rows that were there before.
LEMMA Appended ==
    ASSUME NEW S, NEW s \in Seq(S), NEW e \in S
    PROVE  /\ Append(s, e) \in Seq(S)
           /\ DOMAIN s = 1 .. Len(s) /\ Len(s) \in Nat
           /\ DOMAIN Append(s, e) = DOMAIN s \cup {Len(s) + 1} /\ Len(s) + 1 \notin DOMAIN s
           /\ \A n \in DOMAIN s : Append(s, e)[n] = s[n]
           /\ Append(s, e)[Len(s) + 1] = e
  OBVIOUS

\* UPDATE of a link's status: nothing else of it changes, nor any other link.
LEMMA StatusSet ==
    ASSUME NEW s \in Seq(Link), NEW n \in DOMAIN s, NEW st \in {"active", "held", "consumed"}
    PROVE  LET t == [s EXCEPT ![n].status = st] IN
           /\ t \in Seq(Link) /\ DOMAIN t = DOMAIN s
           /\ \A m \in DOMAIN s \ {n} : t[m] = s[m]
           /\ t[n].status = st
           /\ \A m \in DOMAIN s : /\ t[m].org = s[m].org /\ t[m].user = s[m].user
                                  /\ t[m].created = s[m].created /\ t[m].expires = s[m].expires
  <1> DEFINE e == [s[n] EXCEPT !.status = st]
             t == [s EXCEPT ![n] = e]
  <1>1. n \in 1 .. Len(s) /\ DOMAIN s = 1 .. Len(s) /\ s[n] \in Link
    BY LenProperties, ElementOfSeq
  <1>2. e \in Link /\ e.status = st /\ e.org = s[n].org /\ e.user = s[n].user
        /\ e.created = s[n].created /\ e.expires = s[n].expires
    BY <1>1 DEF Link
  <1>3. /\ t \in Seq(Link) /\ Len(t) = Len(s)
        /\ \A j \in 1 .. Len(s) : t[j] = IF j = n THEN e ELSE s[j]
    BY <1>1, <1>2, ExceptSeq
  <1>4. DOMAIN t = DOMAIN s
    BY <1>1, <1>3, LenProperties
  <1>5. [s EXCEPT ![n].status = st] = t
    OBVIOUS
  <1> HIDE DEF e, t
  <1>6. QED
    BY <1>1, <1>2, <1>3, <1>4, <1>5

-----------------------------------------------------------------------------
(* Types                                                                   *)

\* A worker that has a link has one of the table; D are the rows.
HasLink(r, D) == r.pc \in {"mail", "find", "consume", "commit"} => r.link \in D
WorkersTyped == w \in [Workers -> Work] /\ \A x \in Workers : HasLink(w[x], DOMAIN links)
TypedInv == AccessTypeOK /\ WorkersTyped

\* A step that changes one worker keeps the others well-formed.
LEMMA OneWorkerTyped ==
    ASSUME WorkersTyped, NEW x \in Workers, NEW r \in Work, w' = [w EXCEPT ![x] = r],
           DOMAIN links \subseteq DOMAIN links', HasLink(r, DOMAIN links')
    PROVE  WorkersTyped'
  BY DEF WorkersTyped, HasLink

\* What a worker knows, by where it is.
LEMMA WorkShape ==
    ASSUME NEW r \in Work
    PROVE  /\ r.pc \in {"count", "insert"} => r \in Requesting
           /\ r.pc = "mail" => r \in Mailing
           /\ r.pc \in {"find", "consume", "commit"} => r \in Verifying
           /\ r.pc = "act" => r \in Acting
           /\ r.pc \in {"idle", "count", "insert", "mail", "find", "consume", "commit", "act"}
  BY DEF Work, Idle, Requesting, Mailing, Verifying, Acting

\* A worker that answers is idle again.
LEMMA ReturnTyped ==
    ASSUME WorkersTyped, NEW x \in Workers, Return(x), DOMAIN links \subseteq DOMAIN links'
    PROVE  WorkersTyped'
  <1>1. Idle \in Work /\ HasLink(Idle, DOMAIN links')
    BY DEF Work, Idle, HasLink
  <1>2. QED
    BY <1>1, OneWorkerTyped DEF Return

\* Every step keeps the tables and the workers well-formed.
LEMMA TypedStep == TypedInv /\ [AccessNext]_avars => TypedInv'
  <1> SUFFICES ASSUME TypedInv, [AccessNext]_avars PROVE TypedInv'
    OBVIOUS
  <1>a. AccessTypeOK /\ WorkersTyped
    BY DEF TypedInv
  <1>s. links \in Seq(Link) /\ sessions \in Seq(LoggedIn) /\ mailed \subseteq DOMAIN links /\ clock \in Nat
    BY <1>a, Numbers DEF AccessTypeOK
  <1>w. ASSUME NEW x \in Workers
        PROVE  w[x] \in Work /\ HasLink(w[x], DOMAIN links)
    BY <1>a DEF WorkersTyped
  <1>0. ASSUME UNCHANGED tables, clock' \in 0 .. MaxTime, WorkersTyped'
        PROVE  TypedInv'
    BY <1>0, <1>a DEF TypedInv, AccessTypeOK, tables, WorkersTyped
  <1>c. clock \in 0 .. MaxTime
    BY <1>a DEF AccessTypeOK
  <1>r. ASSUME UNCHANGED <<clock, tables>>, NEW x \in Workers, Return(x)
        PROVE  TypedInv'
    <2>1. WorkersTyped'
      BY <1>r, <1>a, ReturnTyped DEF tables
    <2>2. QED
      BY <1>0, <1>c, <1>r, <2>1
  <1>1. ASSUME NEW o \in Orgs, CreateOrganization(o)
        PROVE  TypedInv'
    BY <1>1, <1>a DEF CreateOrganization, TypedInv, AccessTypeOK, WorkersTyped
  <1>2. ASSUME NEW o \in Orgs, NEW S \in ScopeSets, NEW t \in Expiries, CreateAdminToken(o, S, t)
        PROVE  TypedInv'
    <2>1. normalizeAdminTokenScopes(S) \in SUBSET AdminScopes
      BY RouteAssumption DEF normalizeAdminTokenScopes, AdminScopes
    <2>2. tokens' \subseteq [org: Orgs, scopes: SUBSET AdminScopes, expires: Nat]
      BY <1>2, <1>a, <2>1, Numbers DEF CreateAdminToken, AdminToken, AccessTypeOK
    <2>3. QED
      BY <1>2, <1>a, <2>2 DEF CreateAdminToken, TypedInv, AccessTypeOK, WorkersTyped
  <1>3. ASSUME NEW o \in Orgs, NEW u \in Users, MockLogin(o, u)
        PROVE  TypedInv'
    <2>1. Session(o, u, clock, 0) \in LoggedIn
      BY <1>s, Numbers DEF Session, LoggedIn
    <2>2. sessions' \in Seq(LoggedIn)
      BY <1>3, <1>s, <2>1, Appended DEF MockLogin, PasswordlessMockLogin
    <2>3. QED
      BY <1>3, <1>a, <2>2 DEF MockLogin, PasswordlessMockLogin, TypedInv, AccessTypeOK, WorkersTyped
  <1>4. ASSUME NEW x \in Workers, NEW o \in Orgs, NEW u \in Users, RequestMagicLink(x, o, u)
        PROVE  TypedInv'
    <2> DEFINE new == [pc |-> "count", org |-> o, user |-> u, now |-> clock]
    <2>1. new \in Work /\ HasLink(new, DOMAIN links')
      BY <1>s DEF Work, Requesting, HasLink
    <2>2. w' = [w EXCEPT ![x] = new] /\ UNCHANGED <<clock, tables>>
      BY <1>4 DEF RequestMagicLink, Start
    <2>3. WorkersTyped'
      BY <1>a, <2>1, <2>2, OneWorkerTyped DEF tables
    <2>4. QED
      BY <1>0, <1>c, <2>2, <2>3
  <1>5. ASSUME NEW x \in Workers, CheckRecentRequests(x)
        PROVE  TypedInv'
    <2> DEFINE new == [w[x] EXCEPT !.pc = "insert"]
    <2>1. new \in Work /\ HasLink(new, DOMAIN links')
      <3>1. w[x] \in Requesting
        BY <1>5, <1>w, WorkShape DEF CheckRecentRequests, At
      <3>2. QED
        BY <3>1 DEF Work, Requesting, HasLink
    <2>2. (Return(x) \/ w' = [w EXCEPT ![x] = new]) /\ UNCHANGED <<clock, tables>>
      BY <1>5 DEF CheckRecentRequests, Goto
    <2>3. w' = [w EXCEPT ![x] = new] => WorkersTyped'
      BY <1>a, <2>1, <2>2, OneWorkerTyped DEF tables
    <2>4. QED
      BY <1>0, <1>c, <1>r, <2>2, <2>3
  <1>6. ASSUME NEW x \in Workers, CreateMagicLinkToken(x)
        PROVE  TypedInv'
    <2> DEFINE e == [org |-> w[x].org, user |-> w[x].user, created |-> w[x].now,
                     expires |-> w[x].now + LinkTTL, status |-> "active"]
               new == [pc |-> "mail", link |-> Len(links) + 1]
    <2>1. e \in Link
      <3>1. w[x] \in Requesting
        BY <1>6, <1>w, WorkShape DEF CreateMagicLinkToken, At
      <3>2. QED
        BY <3>1, Numbers DEF Requesting, Link
    <2>2. links' = Append(links, e) /\ w' = [w EXCEPT ![x] = new]
          /\ UNCHANGED <<clock, orgs, users, members, mailed, sessions, tokens, banned>>
      BY <1>6 DEF CreateMagicLinkToken
    <2>3. /\ links' \in Seq(Link) /\ DOMAIN links \subseteq DOMAIN links'
          /\ Len(links) + 1 \in DOMAIN links' /\ Len(links) \in Nat
      <3> HIDE DEF e
      <3> QED
        BY <1>s, <2>1, <2>2, Appended
    <2>4. new \in Work /\ HasLink(new, DOMAIN links')
      BY <2>3 DEF Work, Mailing, HasLink
    <2>5. WorkersTyped'
      BY <1>a, <2>2, <2>3, <2>4, OneWorkerTyped
    <2>6. QED
      BY <1>a, <2>2, <2>3, <2>5 DEF TypedInv, AccessTypeOK, WorkersTyped
  <1>7. ASSUME NEW x \in Workers, SendMail(x)
        PROVE  TypedInv'
    <2>1. mailed' \subseteq DOMAIN links'
      BY <1>7, <1>s, <1>w DEF SendMail, At, HasLink
    <2>2. WorkersTyped'
      BY <1>7, <1>a, ReturnTyped DEF SendMail
    <2>3. QED
      BY <1>7, <1>a, <2>1, <2>2 DEF SendMail, TypedInv, AccessTypeOK, WorkersTyped
  <1>8. ASSUME NEW x \in Workers, NEW n \in DOMAIN links, VerifyMagicLink(x, n)
        PROVE  TypedInv'
    <2> DEFINE new == [pc |-> "find", link |-> n, now |-> clock]
    <2>1. n \in Nat
      BY <1>s
    <2>2. w' = [w EXCEPT ![x] = new] /\ UNCHANGED <<clock, tables>>
      BY <1>8 DEF VerifyMagicLink, Start
    <2>3. new \in Work /\ HasLink(new, DOMAIN links')
      BY <1>s, <2>1, <2>2 DEF Work, Verifying, HasLink, tables
    <2>4. WorkersTyped'
      BY <1>a, <2>2, <2>3, OneWorkerTyped DEF tables
    <2>5. QED
      BY <1>0, <1>c, <2>2, <2>4
  <1>v. ASSUME NEW x \in Workers, w[x].pc \in {"find", "consume"}, NEW pc \in {"consume", "commit"},
               Goto(x, pc), DOMAIN links \subseteq DOMAIN links'
        PROVE  WorkersTyped'
    <2> DEFINE new == [w[x] EXCEPT !.pc = pc]
    <2>1. w[x] \in Verifying /\ w[x].link \in DOMAIN links
      BY <1>v, <1>w, WorkShape DEF HasLink
    <2>2. new \in Work /\ HasLink(new, DOMAIN links')
      BY <1>v, <2>1 DEF Work, Verifying, HasLink
    <2>3. QED
      BY <1>a, <1>v, <2>2, OneWorkerTyped DEF Goto
  <1>9. ASSUME NEW x \in Workers, FindMagicLinkToken(x)
        PROVE  TypedInv'
    <2>1. (Return(x) \/ Goto(x, "consume")) /\ w[x].pc = "find" /\ UNCHANGED <<clock, tables>>
      BY <1>9 DEF FindMagicLinkToken, At
    <2>2. Goto(x, "consume") => WorkersTyped'
      BY <1>v, <2>1 DEF tables
    <2>3. QED
      BY <1>0, <1>c, <1>r, <2>1, <2>2
  <1>l. ASSUME NEW x \in Workers, w[x].pc \in {"consume", "commit"},
               NEW st \in {"active", "held", "consumed"}, links' = [links EXCEPT ![w[x].link].status = st]
        PROVE  links' \in Seq(Link) /\ DOMAIN links' = DOMAIN links
    <2>1. w[x].link \in DOMAIN links
      BY <1>l, <1>w DEF HasLink
    <2>2. QED
      BY <1>l, <1>s, <2>1, StatusSet
  <1>10. ASSUME NEW x \in Workers, ConsumeMagicLinkToken(x)
         PROVE  TypedInv'
    <2>1. /\ w[x].pc = "consume"
          /\ UNCHANGED <<clock, orgs, users, members, mailed, sessions, tokens, banned>>
          /\ \/ links' = [links EXCEPT ![w[x].link].status = "held"] /\ Goto(x, "commit")
             \/ UNCHANGED links /\ Return(x)
      BY <1>10 DEF ConsumeMagicLinkToken, At
    <2>2. links' \in Seq(Link) /\ DOMAIN links' = DOMAIN links
      BY <1>l, <1>s, <2>1
    <2>3. WorkersTyped'
      BY <1>a, <1>v, <2>1, <2>2, ReturnTyped
    <2>4. QED
      BY <1>a, <2>1, <2>2, <2>3 DEF TypedInv, AccessTypeOK, WorkersTyped
  <1>11. ASSUME NEW x \in Workers, CreateUserSession(x)
         PROVE  TypedInv'
    <2> DEFINE n == w[x].link
               e == Session(links[n].org, links[n].user, w[x].now, n)
    <2>1. /\ w[x].pc = "commit" /\ Return(x)
          /\ UNCHANGED <<clock, orgs, users, members, mailed, tokens, banned>>
          /\ links' = [links EXCEPT ![n].status = "consumed"] /\ sessions' = Append(sessions, e)
      BY <1>11 DEF CreateUserSession, At
    <2>2. links' \in Seq(Link) /\ DOMAIN links' = DOMAIN links
      BY <1>l, <2>1
    <2>3. w[x] \in Verifying /\ n \in DOMAIN links
      BY <1>w, <2>1, WorkShape DEF HasLink
    <2>4. links[n] \in Link
      BY <1>s, <2>3
    <2>5. e \in LoggedIn
      BY <2>3, <2>4, Numbers DEF Session, LoggedIn, Link, Verifying
    <2>6. sessions' \in Seq(LoggedIn)
      <3> HIDE DEF e
      <3> QED
        BY <1>s, <2>1, <2>5, Appended
    <2>7. WorkersTyped'
      BY <1>a, <2>1, <2>2, ReturnTyped
    <2>8. QED
      BY <1>a, <2>1, <2>2, <2>6, <2>7 DEF TypedInv, AccessTypeOK, WorkersTyped
  <1>t. ASSUME NEW x \in Workers, NEW allowed, NEW o \in Orgs, NEW actor \in Users \cup {"token"},
               NEW op \in Routes, RequireAdminPermission(x, allowed, o, actor, op)
        PROVE  TypedInv'
    <2> DEFINE new == [pc |-> "act", org |-> o, actor |-> actor, op |-> op]
    <2>1. new \in Work /\ HasLink(new, DOMAIN links')
      BY RouteAssumption DEF Work, Acting, HasLink
    <2>2. w' = [w EXCEPT ![x] = new] /\ UNCHANGED <<clock, tables>>
      BY <1>t DEF RequireAdminPermission, Start
    <2>3. WorkersTyped'
      BY <1>a, <2>1, <2>2, OneWorkerTyped DEF tables
    <2>4. QED
      BY <1>0, <1>c, <2>2, <2>3
  <1>12. ASSUME NEW x \in Workers, NEW n \in DOMAIN sessions, NEW op \in Routes, SessionRequest(x, n, op)
         PROVE  TypedInv'
    <2>0. sessions[n] \in LoggedIn
      BY <1>s
    <2>1. sessions[n].org \in Orgs /\ sessions[n].user \in Users
      BY <2>0 DEF LoggedIn
    <2>2. QED
      BY <1>12, <1>t, <2>1 DEF SessionRequest
  <1>13. ASSUME NEW x \in Workers, NEW t \in tokens, NEW op \in Routes, TokenRequest(x, t, op)
         PROVE  TypedInv'
    <2>1. t.org \in Orgs
      BY <1>a DEF AccessTypeOK
    <2>2. QED
      BY <1>13, <1>t, <2>1 DEF TokenRequest
  <1>14. ASSUME NEW x \in Workers, NEW u \in Users, NEW role \in GivenRoles, CreateMember(x, u, role)
         PROVE  TypedInv'
    <2>1. w[x].org \in Orgs
      BY <1>14, <1>w, WorkShape DEF CreateMember, At, Acting
    <2>2. users' \in [Users -> {"none", "active", "disabled"}]
      BY <1>14, <1>a DEF CreateMember, UpsertMember, UpsertUserByEmail, AccessTypeOK
    <2>3. members' \in [Orgs \X Users -> {NoMember} \cup [role: Roles, status: {"active", "disabled"}]]
      BY <1>14, <1>a, <2>1, RouteAssumption DEF CreateMember, UpsertMember, UpsertOrgMembership, AccessTypeOK
    <2>4. WorkersTyped'
      BY <1>14, <1>a, ReturnTyped DEF CreateMember
    <2>5. QED
      BY <1>14, <1>a, <2>2, <2>3, <2>4 DEF CreateMember, TypedInv, AccessTypeOK, WorkersTyped
  <1>15. ASSUME NEW x \in Workers, OtherHandler(x)
         PROVE  TypedInv'
    BY <1>15, <1>r DEF OtherHandler
  <1>16. ASSUME NEW x \in Workers, Fail(x)
         PROVE  TypedInv'
    <2>1. /\ Return(x) /\ UNCHANGED <<clock, orgs, users, members, mailed, sessions, tokens, banned>>
          /\ \/ w[x].pc = "commit" /\ links' = [links EXCEPT ![w[x].link].status = "active"]
             \/ UNCHANGED links
      BY <1>16 DEF Fail
    <2>2. links' \in Seq(Link) /\ DOMAIN links' = DOMAIN links
      BY <1>l, <1>s, <2>1
    <2>3. WorkersTyped'
      BY <1>a, <2>1, <2>2, ReturnTyped
    <2>4. QED
      BY <1>a, <2>1, <2>2, <2>3 DEF TypedInv, AccessTypeOK, WorkersTyped
  <1>17. CASE Disable
    <2>1. orgs' \in [Orgs -> {"none", "active", "disabled"}] /\ users' \in [Users -> {"none", "active", "disabled"}]
      BY <1>17, <1>a DEF Disable, AccessTypeOK
    <2>2. members' \in [Orgs \X Users -> {NoMember} \cup [role: Roles, status: {"active", "disabled"}]]
      <3>1. ASSUME NEW m \in Orgs \X Users, members[m].status = "active"
            PROVE  [members[m] EXCEPT !.status = "disabled"] \in [role: Roles, status: {"active", "disabled"}]
        BY <3>1, <1>a DEF AccessTypeOK, NoMember
      <3>2. \/ UNCHANGED members
            \/ \E m \in Orgs \X Users : /\ members[m].status = "active"
                                        /\ members' = [members EXCEPT ![m].status = "disabled"]
        BY <1>17 DEF Disable
      <3>3. members \in [Orgs \X Users -> {NoMember} \cup [role: Roles, status: {"active", "disabled"}]]
        BY <1>a DEF AccessTypeOK
      <3>4. ASSUME NEW m \in Orgs \X Users, members[m].status = "active",
                   members' = [members EXCEPT ![m].status = "disabled"]
            PROVE  members' \in [Orgs \X Users -> {NoMember} \cup [role: Roles, status: {"active", "disabled"}]]
        <4> DEFINE e == [members[m] EXCEPT !.status = "disabled"]
        <4>1. e \in [role: Roles, status: {"active", "disabled"}]
          BY <3>1, <3>4
        <4>2. members' = [members EXCEPT ![m] = e]
          BY <3>4
        <4> HIDE DEF e
        <4>3. QED
          BY <3>3, <4>1, <4>2
      <3>5. QED
        BY <3>2, <3>3, <3>4
    <2>3. UNCHANGED <<clock, links, mailed, sessions, tokens, w>>
      BY <1>17 DEF Disable
    <2>4. QED
      BY <1>a, <2>1, <2>2, <2>3 DEF TypedInv, AccessTypeOK, WorkersTyped
  <1>18. CASE Tick
    <2>1. clock' \in 0 .. MaxTime /\ UNCHANGED <<tables, w>>
      BY <1>18, <1>a, Numbers DEF Tick, AccessTypeOK
    <2>2. QED
      BY <1>0, <1>a, <2>1 DEF WorkersTyped, tables
  <1>19. CASE UNCHANGED avars
    BY <1>0, <1>a, <1>c, <1>19 DEF avars, WorkersTyped, tables
  <1>20. QED
    BY <1>1, <1>2, <1>3, <1>4, <1>5, <1>6, <1>7, <1>8, <1>9, <1>10, <1>11, <1>12, <1>13, <1>14,
       <1>15, <1>16, <1>17, <1>18, <1>19 DEF AccessNext

\* Empty tables and idle workers are well-formed.
LEMMA TypedInit == AccessInit => TypedInv
  <1> SUFFICES ASSUME AccessInit PROVE TypedInv
    OBVIOUS
  <1>1. links \in Seq(Link) /\ sessions \in Seq(LoggedIn)
    BY DEF AccessInit
  <1>2. WorkersTyped
    BY DEF AccessInit, WorkersTyped, Work, Idle, HasLink
  <1>3. clock \in 0 .. MaxTime
    BY Numbers DEF AccessInit
  <1>4. QED
    BY <1>1, <1>2, <1>3 DEF AccessInit, TypedInv, AccessTypeOK, WorkersTyped

\* Tables and requests in flight keep their types.
THEOREM AccessTyped == AccessSpec => []AccessTypeOK
  <1>1. TypedInv => AccessTypeOK
    BY DEF TypedInv
  <1>2. QED
    BY <1>1, TypedInit, TypedStep, PTL DEF AccessSpec

-----------------------------------------------------------------------------
(* The steps of a login, and the others                                    *)

Quiet ==
    /\ UNCHANGED <<links, sessions>>
    /\ \A y \in Workers : w'[y] = w[y] \/ w'[y].pc \notin {"insert", "consume", "commit"}

\* The steps that matter to links and sessions; the others are Quiet.
LEMMA StepKinds ==
    ASSUME TypedInv, [AccessNext]_avars
    PROVE  \/ Quiet
           \/ \E o \in Orgs, u \in Users : MockLogin(o, u)
           \/ \E x \in Workers : \/ CheckRecentRequests(x) \/ CreateMagicLinkToken(x)
                                 \/ FindMagicLinkToken(x) \/ ConsumeMagicLinkToken(x)
                                 \/ CreateUserSession(x) \/ Fail(x)
  <1>w. w \in [Workers -> Work]
    BY DEF TypedInv, WorkersTyped
  <1>q. ASSUME UNCHANGED <<links, sessions>>, NEW x \in Workers, NEW r, w' = [w EXCEPT ![x] = r],
               r.pc \notin {"insert", "consume", "commit"}
        PROVE  Quiet
    BY <1>q, <1>w DEF Quiet
  <1>1. ASSUME NEW x \in Workers,
               \/ \E o \in Orgs, u \in Users : RequestMagicLink(x, o, u)
               \/ \E n \in DOMAIN links : VerifyMagicLink(x, n)
               \/ \E n \in DOMAIN sessions, op \in Routes : SessionRequest(x, n, op)
               \/ \E t \in tokens, op \in Routes : TokenRequest(x, t, op)
        PROVE  Quiet
    <2>1. UNCHANGED <<links, sessions>>
      BY <1>1 DEF RequestMagicLink, VerifyMagicLink, SessionRequest, TokenRequest, RequireAdminPermission, tables
    <2>2. \E r : r.pc \notin {"insert", "consume", "commit"} /\ w' = [w EXCEPT ![x] = r]
      <3>1. CASE \E o \in Orgs, u \in Users : RequestMagicLink(x, o, u)
        <4>1. PICK o \in Orgs, u \in Users : RequestMagicLink(x, o, u)
          BY <3>1
        <4> DEFINE r == [pc |-> "count", org |-> o, user |-> u, now |-> clock]
        <4>2. r.pc \notin {"insert", "consume", "commit"} /\ w' = [w EXCEPT ![x] = r]
          BY <4>1 DEF RequestMagicLink, Start
        <4>3. QED
          BY <4>2
      <3>2. CASE \E n \in DOMAIN links : VerifyMagicLink(x, n)
        <4>1. PICK n \in DOMAIN links : VerifyMagicLink(x, n)
          BY <3>2
        <4> DEFINE r == [pc |-> "find", link |-> n, now |-> clock]
        <4>2. r.pc \notin {"insert", "consume", "commit"} /\ w' = [w EXCEPT ![x] = r]
          BY <4>1 DEF VerifyMagicLink, Start
        <4>3. QED
          BY <4>2
      <3>3. ASSUME NEW allowed, NEW o, NEW actor, NEW op, RequireAdminPermission(x, allowed, o, actor, op)
            PROVE  \E r : r.pc \notin {"insert", "consume", "commit"} /\ w' = [w EXCEPT ![x] = r]
        <4> DEFINE r == [pc |-> "act", org |-> o, actor |-> actor, op |-> op]
        <4>2. r.pc \notin {"insert", "consume", "commit"} /\ w' = [w EXCEPT ![x] = r]
          BY <3>3 DEF RequireAdminPermission, Start
        <4>3. QED
          BY <4>2
      <3>4. QED
        BY <1>1, <3>1, <3>2, <3>3 DEF SessionRequest, TokenRequest
    <2>3. QED
      BY <1>q, <2>1, <2>2
  <1>2. ASSUME NEW x \in Workers,
               SendMail(x) \/ OtherHandler(x) \/ \E u \in Users, role \in GivenRoles : CreateMember(x, u, role)
        PROVE  Quiet
    <2>1. UNCHANGED <<links, sessions>> /\ w' = [w EXCEPT ![x] = Idle]
      BY <1>2 DEF SendMail, OtherHandler, CreateMember, tables, Return
    <2>2. Idle.pc \notin {"insert", "consume", "commit"}
      BY DEF Idle
    <2>3. QED
      BY <1>q, <2>1, <2>2
  <1>3. CASE UNCHANGED <<links, sessions, w>>
    BY <1>3 DEF Quiet
  <1>4. CASE AccessNext
    BY <1>1, <1>2, <1>3, <1>4 DEF AccessNext, CreateOrganization, CreateAdminToken, Disable, Tick, tables
  <1>5. QED
    BY <1>3, <1>4 DEF avars, tables

-----------------------------------------------------------------------------
(* Sessions by mail                                                        *)

\* A link lives for LinkTTL, and whoever is past FindMagicLinkToken found it alive.
Alive ==
    /\ \A n \in DOMAIN links : links[n].expires = links[n].created + LinkTTL
    /\ \A x \in Workers : w[x].pc \in {"consume", "commit"} => links[w[x].link].expires > w[x].now

\* The row lock: at most one transaction holds a link.
Locked ==
    \A x \in Workers : w[x].pc = "commit" =>
        /\ links[w[x].link].status = "held"
        /\ \A y \in Workers \ {x} : w[y].pc = "commit" => w[y].link # w[x].link

ByMail == \A a \in DOMAIN sessions : sessions[a].via # 0 => sessions[a].via \in DOMAIN links

LinkInv == TypedInv /\ Alive /\ Locked /\ ByMail /\ LinkSessions

\* Every step keeps LinkInv: a link is consumed by the login that holds its row.
LEMMA LinkStep == LinkInv /\ [AccessNext]_avars => LinkInv'
  <1> SUFFICES ASSUME LinkInv, [AccessNext]_avars PROVE LinkInv'
    OBVIOUS
  <1>a. TypedInv /\ TypedInv' /\ Alive /\ Locked /\ ByMail /\ LinkSessions
    BY TypedStep DEF LinkInv
  <1>s. links \in Seq(Link) /\ sessions \in Seq(LoggedIn) /\ w \in [Workers -> Work] /\ clock \in Nat
    BY <1>a, Numbers DEF TypedInv, AccessTypeOK, WorkersTyped
  <1>w. ASSUME NEW x \in Workers, w[x].pc \in {"find", "consume", "commit"}
        PROVE  w[x] \in Verifying /\ w[x].link \in DOMAIN links
    BY <1>w, <1>a, <1>s, WorkShape DEF TypedInv, WorkersTyped, HasLink
  <1>1. CASE Quiet
    <2>1. UNCHANGED <<links, sessions>>
      BY <1>1 DEF Quiet
    <2>2. Alive' /\ Locked'
      BY <1>1, <1>a DEF Quiet, Alive, Locked
    <2>3. ByMail' /\ LinkSessions'
      BY <1>a, <2>1 DEF ByMail, LinkSessions
    <2>4. QED
      BY <1>a, <2>2, <2>3 DEF LinkInv
  <1>2. ASSUME NEW o \in Orgs, NEW u \in Users, MockLogin(o, u)
        PROVE  LinkInv'
    <2> DEFINE e == Session(o, u, clock, 0)
    <2>1. e \in LoggedIn /\ e.via = 0
      BY <1>s, Numbers DEF Session, LoggedIn
    <2>2. sessions' = Append(sessions, e) /\ UNCHANGED <<links, w>>
      BY <1>2 DEF MockLogin, PasswordlessMockLogin
    <2> HIDE DEF e
    <2>3. /\ DOMAIN sessions' = DOMAIN sessions \cup {Len(sessions) + 1} /\ Len(sessions) + 1 \notin DOMAIN sessions
          /\ \A n \in DOMAIN sessions : sessions'[n] = sessions[n]
          /\ sessions'[Len(sessions) + 1] = e
      BY <1>s, <2>1, <2>2, Appended
    <2>4. Alive' /\ Locked'
      BY <1>a, <2>2 DEF Alive, Locked
    <2>5. ByMail' /\ LinkSessions'
      BY <1>a, <2>1, <2>2, <2>3 DEF ByMail, LinkSessions
    <2>6. QED
      BY <1>a, <2>4, <2>5 DEF LinkInv
  <1>r. ASSUME NEW x \in Workers, Return(x), UNCHANGED <<links, sessions>>
        PROVE  LinkInv'
    <2>1. Quiet
      BY <1>r, <1>s DEF Quiet, Return, Idle
    <2>2. QED
      BY <1>1, <2>1
  <1>g. ASSUME NEW x \in Workers, NEW pc, Goto(x, pc)
        PROVE  /\ \A y \in Workers \ {x} : w'[y] = w[y]
               /\ w[x] \in Verifying => w'[x].pc = pc /\ w'[x].link = w[x].link /\ w'[x].now = w[x].now
               /\ w[x] \in Requesting => w'[x].pc = pc
    BY <1>g, <1>s DEF Goto, Verifying, Requesting
  <1>3. ASSUME NEW x \in Workers, CheckRecentRequests(x)
        PROVE  LinkInv'
    <2>1. (Return(x) \/ Goto(x, "insert")) /\ UNCHANGED <<links, sessions>> /\ w[x].pc = "count"
      BY <1>3 DEF CheckRecentRequests, tables, At
    <2>2. ASSUME Goto(x, "insert") PROVE LinkInv'
      <3>1. w[x] \in Requesting
        BY <2>1, <1>s, WorkShape
      <3>2. w'[x].pc = "insert" /\ \A y \in Workers \ {x} : w'[y] = w[y]
        BY <2>2, <3>1, <1>g
      <3>3. Alive' /\ Locked'
        BY <1>a, <2>1, <3>2 DEF Alive, Locked
      <3>4. ByMail' /\ LinkSessions'
        BY <1>a, <2>1 DEF ByMail, LinkSessions
      <3>5. QED
        BY <1>a, <3>3, <3>4 DEF LinkInv
    <2>3. QED
      BY <1>r, <2>1, <2>2
  <1>4. ASSUME NEW x \in Workers, CreateMagicLinkToken(x)
        PROVE  LinkInv'
    <2> DEFINE e == [org |-> w[x].org, user |-> w[x].user, created |-> w[x].now,
                     expires |-> w[x].now + LinkTTL, status |-> "active"]
    <2>1. e \in Link /\ e.expires = e.created + LinkTTL
      <3>1. w[x] \in Requesting
        BY <1>4, <1>s, WorkShape DEF CreateMagicLinkToken, At
      <3>2. QED
        BY <3>1, Numbers DEF Requesting, Link
    <2>2. links' = Append(links, e) /\ UNCHANGED sessions
      BY <1>4 DEF CreateMagicLinkToken
    <2>3. w'[x].pc = "mail" /\ \A y \in Workers \ {x} : w'[y] = w[y]
      BY <1>4, <1>s DEF CreateMagicLinkToken
    <2> HIDE DEF e
    <2>4. /\ DOMAIN links' = DOMAIN links \cup {Len(links) + 1} /\ Len(links) + 1 \notin DOMAIN links
          /\ \A n \in DOMAIN links : links'[n] = links[n]
          /\ links'[Len(links) + 1] = e
      BY <1>s, <2>1, <2>2, Appended
    <2>5. Alive' /\ Locked'
      BY <1>a, <1>w, <2>1, <2>3, <2>4 DEF Alive, Locked
    <2>6. ByMail' /\ LinkSessions'
      BY <1>a, <2>2, <2>4 DEF ByMail, LinkSessions
    <2>7. QED
      BY <1>a, <2>5, <2>6 DEF LinkInv
  <1>5. ASSUME NEW x \in Workers, FindMagicLinkToken(x)
        PROVE  LinkInv'
    <2>1. /\ w[x].pc = "find" /\ UNCHANGED <<links, sessions>>
          /\ Return(x) \/ (Consumable(x) /\ Goto(x, "consume"))
      BY <1>5 DEF FindMagicLinkToken, At, tables
    <2>2. ASSUME Consumable(x), Goto(x, "consume") PROVE LinkInv'
      <3>1. /\ w'[x].pc = "consume" /\ w'[x].link = w[x].link /\ w'[x].now = w[x].now
            /\ \A y \in Workers \ {x} : w'[y] = w[y]
        BY <1>g, <1>w, <2>1, <2>2
      <3>2. links[w[x].link].expires > w[x].now
        BY <2>2 DEF Consumable
      <3>3. Alive' /\ Locked'
        BY <1>a, <2>1, <3>1, <3>2 DEF Alive, Locked
      <3>4. ByMail' /\ LinkSessions'
        BY <1>a, <2>1 DEF ByMail, LinkSessions
      <3>5. QED
        BY <1>a, <3>3, <3>4 DEF LinkInv
    <2>3. QED
      BY <1>r, <2>1, <2>2
  <1>l. ASSUME NEW x \in Workers, w[x].pc \in {"consume", "commit"},
               NEW st \in {"active", "held", "consumed"}, links' = [links EXCEPT ![w[x].link].status = st]
        PROVE  /\ DOMAIN links' = DOMAIN links /\ w[x].link \in DOMAIN links
               /\ \A m \in DOMAIN links \ {w[x].link} : links'[m] = links[m]
               /\ links'[w[x].link].status = st
               /\ \A m \in DOMAIN links : /\ links'[m].org = links[m].org /\ links'[m].user = links[m].user
                                          /\ links'[m].created = links[m].created
                                          /\ links'[m].expires = links[m].expires
    BY <1>l, <1>s, <1>w, StatusSet
  <1>6. ASSUME NEW x \in Workers, ConsumeMagicLinkToken(x)
        PROVE  LinkInv'
    <2> DEFINE n == w[x].link
    <2>1. /\ w[x].pc = "consume" /\ UNCHANGED sessions /\ links[n].status # "held"
          /\ \/ /\ links' = [links EXCEPT ![n].status = "held"] /\ Goto(x, "commit")
                /\ links[n].status = "active"
             \/ UNCHANGED links /\ Return(x)
      BY <1>6 DEF ConsumeMagicLinkToken, At, StillActive
    <2>2. ASSUME links' = [links EXCEPT ![n].status = "held"], Goto(x, "commit"), links[n].status = "active"
          PROVE  LinkInv'
      <3>1. /\ w'[x].pc = "commit" /\ w'[x].link = n /\ w'[x].now = w[x].now
            /\ \A y \in Workers \ {x} : w'[y] = w[y]
        BY <1>g, <1>w, <2>1, <2>2
      <3>2. /\ DOMAIN links' = DOMAIN links /\ n \in DOMAIN links
            /\ \A m \in DOMAIN links \ {n} : links'[m] = links[m]
            /\ links'[n].status = "held"
            /\ \A m \in DOMAIN links : /\ links'[m].org = links[m].org /\ links'[m].user = links[m].user
                                       /\ links'[m].created = links[m].created
                                       /\ links'[m].expires = links[m].expires
        BY <1>l, <2>1, <2>2
      <3> HIDE DEF n
      <3>n. n = w[x].link
        BY DEF n
      <3>3. Alive'
        BY <1>a, <1>w, <2>1, <3>1, <3>2, <3>n DEF Alive
      <3>4. Locked'
        BY <1>a, <1>w, <2>1, <3>1, <3>2, <3>n DEF Locked
      <3>5. ByMail' /\ LinkSessions'
        BY <1>a, <2>1, <2>2, <3>2 DEF ByMail, LinkSessions
      <3>6. QED
        BY <1>a, <3>3, <3>4, <3>5 DEF LinkInv
    <2>3. QED
      BY <1>r, <2>1, <2>2
  <1>7. ASSUME NEW x \in Workers, CreateUserSession(x)
        PROVE  LinkInv'
    <2> DEFINE n == w[x].link
               e == Session(links[n].org, links[n].user, w[x].now, n)
    <2>1. /\ w[x].pc = "commit" /\ Return(x)
          /\ links' = [links EXCEPT ![n].status = "consumed"] /\ sessions' = Append(sessions, e)
      BY <1>7 DEF CreateUserSession, At
    <2>2. /\ DOMAIN links' = DOMAIN links /\ n \in DOMAIN links
          /\ \A m \in DOMAIN links \ {n} : links'[m] = links[m]
          /\ links'[n].status = "consumed"
          /\ \A m \in DOMAIN links : /\ links'[m].org = links[m].org /\ links'[m].user = links[m].user
                                     /\ links'[m].created = links[m].created
                                     /\ links'[m].expires = links[m].expires
      BY <1>l, <2>1
    <2>3. w[x] \in Verifying /\ links[n] \in Link /\ links[n].status = "held"
          /\ links[n].expires > w[x].now /\ links[n].expires = links[n].created + LinkTTL
      BY <1>a, <1>w, <1>s, <2>1, <2>2 DEF Alive, Locked
    <2>4. /\ e \in LoggedIn /\ e.via = n /\ e.org = links[n].org /\ e.user = links[n].user
          /\ e.expires - SessionTTL < links[n].created + LinkTTL
      BY <2>3, Numbers DEF Session, LoggedIn, Link, Verifying
    <2>5. w'[x].pc = "idle" /\ \A y \in Workers \ {x} : w'[y] = w[y]
      BY <1>s, <2>1 DEF Return, Idle
    <2> HIDE DEF e, n
    <2>n. n = w[x].link
      BY DEF n
    <2>6. /\ DOMAIN sessions' = DOMAIN sessions \cup {Len(sessions) + 1} /\ Len(sessions) + 1 \notin DOMAIN sessions
          /\ \A a \in DOMAIN sessions : sessions'[a] = sessions[a]
          /\ sessions'[Len(sessions) + 1] = e
      BY <1>s, <2>1, <2>4, Appended
    <2>7. \A a \in DOMAIN sessions : sessions[a].via # 0 => sessions[a].via # n
      BY <1>a, <2>3 DEF LinkSessions
    <2>8. Alive' /\ Locked'
      BY <1>a, <1>w, <2>1, <2>2, <2>5, <2>n DEF Alive, Locked
    <2>9. ByMail'
      BY <1>a, <2>2, <2>4, <2>6 DEF ByMail
    <2>10. LinkSessions'
      <3> SUFFICES ASSUME NEW a \in DOMAIN sessions', sessions'[a].via # 0
                   PROVE  LET l == links'[sessions'[a].via] IN
                          /\ l.status = "consumed"
                          /\ <<l.org, l.user>> = <<sessions'[a].org, sessions'[a].user>>
                          /\ sessions'[a].expires - SessionTTL < l.created + LinkTTL
                          /\ \A b \in DOMAIN sessions' \ {a} : sessions'[b].via # sessions'[a].via
        BY DEF LinkSessions
      <3>1. CASE a = Len(sessions) + 1
        BY <2>2, <2>4, <2>6, <2>7, <3>1
      <3>2. CASE a \in DOMAIN sessions
        <4>1. sessions'[a] = sessions[a] /\ sessions[a].via \in DOMAIN links /\ sessions[a].via # n
          BY <1>a, <2>6, <2>7, <3>2 DEF ByMail
        <4>2. links'[sessions[a].via] = links[sessions[a].via]
          BY <2>2, <4>1
        <4>3. QED
          BY <1>a, <2>4, <2>6, <3>2, <4>1, <4>2 DEF LinkSessions
      <3>3. QED
        BY <2>6, <3>1, <3>2
    <2>11. QED
      BY <1>a, <2>8, <2>9, <2>10 DEF LinkInv
  <1>8. ASSUME NEW x \in Workers, Fail(x)
        PROVE  LinkInv'
    <2> DEFINE n == w[x].link
    <2>1. /\ Return(x) /\ UNCHANGED sessions
          /\ \/ w[x].pc = "commit" /\ links' = [links EXCEPT ![n].status = "active"]
             \/ UNCHANGED links
      BY <1>8 DEF Fail
    <2>2. ASSUME w[x].pc = "commit", links' = [links EXCEPT ![n].status = "active"]
          PROVE  LinkInv'
      <3>1. w'[x].pc = "idle" /\ \A y \in Workers \ {x} : w'[y] = w[y]
        BY <1>s, <2>1 DEF Return, Idle
      <3>2. /\ DOMAIN links' = DOMAIN links /\ n \in DOMAIN links
            /\ \A m \in DOMAIN links \ {n} : links'[m] = links[m]
            /\ \A m \in DOMAIN links : /\ links'[m].org = links[m].org /\ links'[m].user = links[m].user
                                       /\ links'[m].created = links[m].created
                                       /\ links'[m].expires = links[m].expires
        BY <1>l, <2>2
      <3>3. links[n].status = "held"
        BY <1>a, <2>2 DEF Locked
      <3> HIDE DEF n
      <3>n. n = w[x].link
        BY DEF n
      <3>4. Alive' /\ Locked'
        BY <1>a, <1>w, <2>2, <3>1, <3>2, <3>n DEF Alive, Locked
      <3>5. ByMail' /\ LinkSessions'
        BY <1>a, <2>1, <3>2, <3>3 DEF ByMail, LinkSessions
      <3>6. QED
        BY <1>a, <3>4, <3>5 DEF LinkInv
    <2>3. QED
      BY <1>r, <2>1, <2>2
  <1>9. QED
    BY <1>a, <1>1, <1>2, <1>3, <1>4, <1>5, <1>6, <1>7, <1>8, StepKinds

\* A login by mail has a link of its own, still alive when it was verified, however
\* many requests verify it at once and whatever fails in between: the row lock of the
\* transaction that marks the link consumed decides between them.
THEOREM LoginsHaveOwnLinks == AccessSpec => []LinkSessions
  <1>1. AccessInit => LinkInv
    BY TypedInit DEF AccessInit, LinkInv, Alive, Locked, ByMail, LinkSessions, Idle
  <1>2. LinkInv => LinkSessions
    BY DEF LinkInv
  <1>3. QED
    BY <1>1, <1>2, LinkStep, PTL DEF AccessSpec

-----------------------------------------------------------------------------
(* The authority of a user                                                 *)

BannedInv == TypedInv /\ \A u \in banned : u \in Users /\ users[u] = "disabled"

\* Every step keeps BannedInv: nothing enables a banned user again.
LEMMA BannedStep == BannedInv /\ [AccessNext]_avars => BannedInv'
  <1> SUFFICES ASSUME BannedInv, [AccessNext]_avars PROVE BannedInv'
    OBVIOUS
  <1>a. TypedInv' /\ users \in [Users -> {"none", "active", "disabled"}]
    BY TypedStep DEF BannedInv, TypedInv, AccessTypeOK
  <1>1. CASE UNCHANGED <<users, banned>>
    BY <1>1, <1>a DEF BannedInv
  <1>2. CASE Disable
    BY <1>2, <1>a DEF Disable, BannedInv
  <1>3. ASSUME NEW x \in Workers, NEW u \in Users, NEW role \in GivenRoles, CreateMember(x, u, role)
        PROVE  BannedInv'
    BY <1>3, <1>a DEF CreateMember, UpsertMember, UpsertUserByEmail, BannedInv
  <1>4. CASE AccessNext /\ ~Disable
             /\ ~\E x \in Workers, u \in Users, role \in GivenRoles : CreateMember(x, u, role)
    BY <1>1, <1>4
       DEF AccessNext, CreateOrganization, CreateAdminToken, MockLogin, PasswordlessMockLogin, RequestMagicLink,
           CheckRecentRequests, CreateMagicLinkToken, SendMail, VerifyMagicLink, FindMagicLinkToken,
           ConsumeMagicLinkToken, CreateUserSession, SessionRequest, TokenRequest, RequireAdminPermission,
           OtherHandler, Fail, Tick, tables
  <1>5. QED
    BY <1>1, <1>2, <1>3, <1>4 DEF avars, tables

\* Only SessionRequest starts on a user's authority, and it reads the tables anew.
LEMMA StepAuthorized == BannedInv /\ [AccessNext]_avars => [\A x \in Workers : Authorized(x)]_avars
  <1> SUFFICES ASSUME BannedInv, AccessNext, NEW x \in Workers, w[x].pc = "idle", w'[x].pc = "act",
                      w'[x].actor # "token"
               PROVE  /\ UserMay(RoleNow(w'[x].org, w'[x].actor), w'[x].op)
                      /\ w'[x].actor \notin banned
    BY DEF Authorized
  <1>w. w \in [Workers -> Work] /\ sessions \in Seq(LoggedIn)
    BY DEF BannedInv, TypedInv, AccessTypeOK
  <1>1. PICK n \in DOMAIN sessions, op \in Routes : SessionRequest(x, n, op)
    <2>1. ASSUME NEW y \in Workers, NEW r, w' = [w EXCEPT ![y] = r], r.pc # "act"
          PROVE  FALSE
      BY <2>1, <1>w
    <2>2. ASSUME NEW y \in Workers, NEW pc, Goto(y, pc), pc # "act"
          PROVE  FALSE
      <3>1. y = x \/ w'[x] = w[x]
        BY <2>2, <1>w DEF Goto
      <3>2. y = x /\ w[x] \in Work
        BY <1>w, <3>1
      <3>3. w[x] = Idle
        BY <3>2, WorkShape DEF Work, Idle, Requesting, Mailing, Verifying, Acting
      <3>4. w'[x].pc = pc
        BY <2>2, <1>w, <3>2, <3>3 DEF Goto, Idle
      <3>5. QED
        BY <2>2, <3>4
    <2>3. ASSUME NEW y \in Workers, NEW t, NEW op, TokenRequest(y, t, op)
          PROVE  FALSE
      <3> DEFINE r == [pc |-> "act", org |-> t.org, actor |-> "token", op |-> op]
      <3>1. w' = [w EXCEPT ![y] = r]
        BY <2>3 DEF TokenRequest, RequireAdminPermission, Start
      <3>2. QED
        BY <1>w, <3>1
    <2>4. ASSUME NEW y \in Workers, NEW n, NEW op, SessionRequest(y, n, op)
          PROVE  y = x
      BY <2>4, <1>w DEF SessionRequest, RequireAdminPermission, Start
    <2>5. w' # w
      OBVIOUS
    <2>6. ASSUME NEW y \in Workers, Return(y)
          PROVE  FALSE
      BY <2>6, <1>w DEF Return, Idle
    <2>7. ASSUME NEW y \in Workers,
                 \/ \E o \in Orgs, u \in Users : RequestMagicLink(y, o, u)
                 \/ CreateMagicLinkToken(y) \/ \E n \in DOMAIN links : VerifyMagicLink(y, n)
          PROVE  FALSE
      BY <2>7, <1>w DEF RequestMagicLink, CreateMagicLinkToken, VerifyMagicLink, Start
    <2>8. ASSUME NEW y \in Workers,
                 \/ CheckRecentRequests(y) \/ SendMail(y) \/ FindMagicLinkToken(y) \/ ConsumeMagicLinkToken(y)
                 \/ CreateUserSession(y) \/ OtherHandler(y) \/ Fail(y)
                 \/ \E u \in Users, role \in GivenRoles : CreateMember(y, u, role)
          PROVE  FALSE
      BY <2>8, <2>2, <2>6
         DEF CheckRecentRequests, SendMail, FindMagicLinkToken, ConsumeMagicLinkToken, CreateUserSession,
             OtherHandler, Fail, CreateMember
    <2>9. PICK y \in Workers, n \in DOMAIN sessions, op \in Routes : SessionRequest(y, n, op)
      BY <2>3, <2>5, <2>7, <2>8
         DEF AccessNext, CreateOrganization, CreateAdminToken, MockLogin, PasswordlessMockLogin, Disable, Tick
    <2>10. QED
      BY <2>4, <2>9
  <1> DEFINE s == sessions[n]
             r == [pc |-> "act", org |-> s.org, actor |-> s.user, op |-> op]
  <1>2. SessionValid(s) /\ UserMay(SessionRole(s), op) /\ w' = [w EXCEPT ![x] = r]
    BY <1>1 DEF SessionRequest, RequireAdminPermission, Start
  <1>3. w'[x].org = s.org /\ w'[x].actor = s.user /\ w'[x].op = op
    BY <1>w, <1>2
  <1>4. ActiveMember(s.org, s.user)
    BY <1>2 DEF SessionValid
  <1>5. RoleNow(s.org, s.user) = SessionRole(s)
    BY <1>4 DEF RoleNow, SessionRole
  <1>6. s.user \notin banned
    BY <1>4 DEF ActiveMember, BannedInv
  <1>7. QED
    BY <1>2, <1>3, <1>5, <1>6

\* A request goes ahead on a user's authority only in the role the members table gives
\* it at that moment, and never for a user who was disabled at any time before.
THEOREM AuthorityIsCurrent == AccessSpec => AuthorityCurrent
  <1>1. AccessInit => BannedInv
    BY TypedInit DEF AccessInit, BannedInv
  <1>2. QED
    BY <1>1, BannedStep, StepAuthorized, PTL DEF AccessSpec, AuthorityCurrent

-----------------------------------------------------------------------------
(* The limit on magic links                                                *)

InWindow(t, c) == t =< c /\ c =< t + Hour

\* The links of a member in the window from t, and the requests that will add to them.
Sent(o, u, t) ==
    {n \in DOMAIN links : links[n].org = o /\ links[n].user = u /\ InWindow(t, links[n].created)}
Sending(o, u, t) ==
    {x \in Workers : w[x].pc = "insert" /\ w[x].org = o /\ w[x].user = u /\ InWindow(t, w[x].now)}

\* Of all windows, for no link need be at the start of one.
WindowsBounded ==
    \A o \in Orgs, u \in Users, t \in Nat :
        Cardinality(Sent(o, u, t)) + Cardinality(Sending(o, u, t)) =< PerHour + Cardinality(Workers) - 1
RecentInv == TypedInv /\ WindowsBounded

\* The links sent in a window, and the requests about to send one, are finitely many.
LEMMA FiniteWindows ==
    ASSUME TypedInv, NEW o, NEW u, NEW t
    PROVE  /\ IsFiniteSet(DOMAIN links)
           /\ IsFiniteSet(Sent(o, u, t)) /\ Cardinality(Sent(o, u, t)) \in Nat
           /\ IsFiniteSet(Sending(o, u, t)) /\ Cardinality(Sending(o, u, t)) \in Nat
           /\ Cardinality(Sending(o, u, t)) =< Cardinality(Workers)
  <1>1. IsFiniteSet(DOMAIN links)
    <2>1. links \in Seq(Link)
      BY DEF TypedInv, AccessTypeOK
    <2>2. DOMAIN links = 1 .. Len(links) /\ Len(links) \in Nat
      BY <2>1
    <2>3. QED
      BY <2>2, FS_Interval
  <1>2. Sent(o, u, t) \in SUBSET DOMAIN links /\ Sending(o, u, t) \in SUBSET Workers
    BY DEF Sent, Sending
  <1>3. IsFiniteSet(Sent(o, u, t)) /\ IsFiniteSet(Sending(o, u, t))
        /\ Cardinality(Sending(o, u, t)) =< Cardinality(Workers)
    BY <1>1, <1>2, AccessAssumption, FS_Subset
  <1>4. QED
    BY <1>1, <1>3, FS_CardinalityType

\* Every step keeps RecentInv: links sent, and requests past the count, fit into the limit.
LEMMA RecentStep == RecentInv /\ [AccessNext]_avars => RecentInv'
  <1> SUFFICES ASSUME RecentInv, [AccessNext]_avars PROVE RecentInv'
    OBVIOUS
  <1>a. TypedInv /\ TypedInv' /\ WindowsBounded
    BY TypedStep DEF RecentInv
  <1>s. links \in Seq(Link) /\ w \in [Workers -> Work]
    BY <1>a DEF TypedInv, AccessTypeOK, WorkersTyped
  <1>f. ASSUME NEW o \in Orgs, NEW u \in Users, NEW t \in Nat,
               Sent(o, u, t)' \subseteq Sent(o, u, t), Sending(o, u, t)' \subseteq Sending(o, u, t)
        PROVE  Cardinality(Sent(o, u, t)') + Cardinality(Sending(o, u, t)') =< PerHour + Cardinality(Workers) - 1
    <2>1. /\ IsFiniteSet(Sent(o, u, t)) /\ Cardinality(Sent(o, u, t)) \in Nat
          /\ IsFiniteSet(Sending(o, u, t)) /\ Cardinality(Sending(o, u, t)) \in Nat
      BY <1>a, FiniteWindows
    <2>2. /\ Cardinality(Sent(o, u, t)') =< Cardinality(Sent(o, u, t))
          /\ Cardinality(Sending(o, u, t)') =< Cardinality(Sending(o, u, t))
          /\ IsFiniteSet(Sent(o, u, t)') /\ IsFiniteSet(Sending(o, u, t)')
      BY <1>f, <2>1, FS_Subset
    <2>3. Cardinality(Sent(o, u, t)') \in Nat /\ Cardinality(Sending(o, u, t)') \in Nat
      BY <2>2, FS_CardinalityType
    <2>4. Cardinality(Sent(o, u, t)) + Cardinality(Sending(o, u, t)) =< PerHour + Cardinality(Workers) - 1
      BY <1>a DEF WindowsBounded
    <2>5. QED
      BY <2>1, <2>2, <2>3, <2>4, Numbers
  <1>k. ASSUME /\ DOMAIN links' = DOMAIN links
               /\ \A n \in DOMAIN links : /\ links'[n].org = links[n].org /\ links'[n].user = links[n].user
                                          /\ links'[n].created = links[n].created,
               \A y \in Workers : w'[y] = w[y] \/ w'[y].pc # "insert"
        PROVE  RecentInv'
    <2>1. ASSUME NEW o \in Orgs, NEW u \in Users, NEW t \in Nat
          PROVE  Sent(o, u, t)' \subseteq Sent(o, u, t) /\ Sending(o, u, t)' \subseteq Sending(o, u, t)
      BY <1>k DEF Sent, Sending
    <2>2. QED
      BY <1>a, <1>f, <2>1 DEF RecentInv, WindowsBounded
  <1>1. CASE Quiet
    BY <1>1, <1>k DEF Quiet
  <1>2. ASSUME NEW o \in Orgs, NEW u \in Users, MockLogin(o, u)
        PROVE  RecentInv'
    BY <1>2, <1>k DEF MockLogin, PasswordlessMockLogin
  <1>r. ASSUME NEW x \in Workers, Return(x)
        PROVE  \A y \in Workers : w'[y] = w[y] \/ w'[y].pc # "insert"
    BY <1>r, <1>s DEF Return, Idle
  <1>3. ASSUME NEW x \in Workers, CheckRecentRequests(x)
        PROVE  RecentInv'
    <2>1. UNCHANGED links /\ w[x].pc = "count" /\ (Return(x) \/ (Goto(x, "insert") /\ ~recentRequestLimitExceeded(x)))
      BY <1>3 DEF CheckRecentRequests, tables, At
    <2>2. ASSUME Goto(x, "insert"), ~recentRequestLimitExceeded(x),
                 NEW o \in Orgs, NEW u \in Users, NEW t \in Nat
          PROVE  Cardinality(Sent(o, u, t)') + Cardinality(Sending(o, u, t)') =< PerHour + Cardinality(Workers) - 1
      <3>1. w[x] \in Requesting
        BY <2>1, <1>s, WorkShape
      <3>2. /\ w'[x].pc = "insert" /\ w'[x].org = w[x].org /\ w'[x].user = w[x].user /\ w'[x].now = w[x].now
            /\ \A y \in Workers \ {x} : w'[y] = w[y]
        BY <2>2, <3>1, <1>s DEF Goto, Requesting
      <3>3. Sent(o, u, t)' = Sent(o, u, t)
        BY <2>1 DEF Sent
      <3>4. CASE x \in Sending(o, u, t)'
        <4> DEFINE C == {n \in LinksSince(w[x].org, w[x].user, 0) : links[n].created + Hour >= w[x].now}
        <4>1. w[x].org = o /\ w[x].user = u /\ InWindow(t, w[x].now) /\ w[x].now \in Nat
          BY <3>1, <3>2, <3>4 DEF Sending, Requesting
        <4>2. ASSUME NEW n \in Sent(o, u, t) PROVE n \in C
          <5>1. n \in DOMAIN links /\ links[n].org = o /\ links[n].user = u /\ InWindow(t, links[n].created)
            BY <4>2 DEF Sent
          <5>2. links[n] \in Link
            BY <1>s, <5>1
          <5>3. links[n].created \in Nat
            BY <5>2 DEF Link
          <5>4. links[n].created >= 0 /\ links[n].created + Hour >= w[x].now
            BY <4>1, <5>1, <5>3, Numbers DEF InWindow
          <5>5. QED
            BY <4>1, <5>1, <5>4 DEF LinksSince
        <4>3. C \in SUBSET DOMAIN links
          BY DEF LinksSince
        <4>4. IsFiniteSet(C) /\ Cardinality(C) \in Nat
          BY <1>a, <4>3, FiniteWindows, FS_Subset, FS_CardinalityType
        <4>5. Cardinality(C) < PerHour
          BY <2>2, <4>4, Numbers DEF recentRequestLimitExceeded
        <4>6. Cardinality(Sent(o, u, t)) =< Cardinality(C) /\ Cardinality(Sent(o, u, t)) \in Nat
          BY <1>a, <4>2, <4>4, FS_Subset, FiniteWindows
        <4>7. Cardinality(Sending(o, u, t)') =< Cardinality(Workers) /\ Cardinality(Sending(o, u, t)') \in Nat
          <5>1. Sending(o, u, t)' \in SUBSET Workers
            BY DEF Sending
          <5>2. QED
            BY <5>1, AccessAssumption, FS_Subset, FS_CardinalityType
        <4> HIDE DEF C
        <4>8. QED
          BY <3>3, <4>4, <4>5, <4>6, <4>7, Numbers
      <3>5. CASE x \notin Sending(o, u, t)'
        <4>1. Sending(o, u, t)' \subseteq Sending(o, u, t)
          BY <3>2, <3>5 DEF Sending
        <4>2. QED
          BY <1>f, <3>3, <4>1
      <3>6. QED
        BY <3>4, <3>5
    <2>3. Goto(x, "insert") /\ ~recentRequestLimitExceeded(x) => RecentInv'
      BY <1>a, <2>2 DEF RecentInv, WindowsBounded
    <2>4. QED
      BY <1>k, <1>r, <2>1, <2>3
  <1>4. ASSUME NEW x \in Workers, CreateMagicLinkToken(x)
        PROVE  RecentInv'
    <2> DEFINE e == [org |-> w[x].org, user |-> w[x].user, created |-> w[x].now,
                     expires |-> w[x].now + LinkTTL, status |-> "active"]
    <2>1. e \in Link /\ e.org = w[x].org /\ e.user = w[x].user /\ e.created = w[x].now /\ w[x].pc = "insert"
      <3>1. w[x] \in Requesting /\ w[x].pc = "insert"
        BY <1>4, <1>s, WorkShape DEF CreateMagicLinkToken, At
      <3>2. QED
        BY <3>1, Numbers DEF Requesting, Link
    <2>2. links' = Append(links, e)
      BY <1>4 DEF CreateMagicLinkToken
    <2>3. w'[x].pc = "mail" /\ \A y \in Workers \ {x} : w'[y] = w[y]
      BY <1>4, <1>s DEF CreateMagicLinkToken
    <2> HIDE DEF e
    <2>4. /\ DOMAIN links' = DOMAIN links \cup {Len(links) + 1} /\ Len(links) + 1 \notin DOMAIN links
          /\ \A n \in DOMAIN links : links'[n] = links[n]
          /\ links'[Len(links) + 1] = e
      BY <1>s, <2>1, <2>2, Appended
    <2>5. ASSUME NEW o \in Orgs, NEW u \in Users, NEW t \in Nat
          PROVE  Cardinality(Sent(o, u, t)') + Cardinality(Sending(o, u, t)') =< PerHour + Cardinality(Workers) - 1
      <3>1. Sending(o, u, t)' = Sending(o, u, t) \ {x}
        BY <2>3 DEF Sending
      <3>2. CASE x \in Sending(o, u, t)
        <4>1. Sent(o, u, t)' = Sent(o, u, t) \cup {Len(links) + 1}
          BY <2>1, <2>4, <3>2 DEF Sent, Sending
        <4>2. Len(links) + 1 \notin Sent(o, u, t)
          BY <2>4 DEF Sent
        <4>3. /\ IsFiniteSet(Sent(o, u, t)) /\ Cardinality(Sent(o, u, t)) \in Nat
              /\ IsFiniteSet(Sending(o, u, t)) /\ Cardinality(Sending(o, u, t)) \in Nat
          BY <1>a, FiniteWindows
        <4>4. /\ Cardinality(Sent(o, u, t)') = Cardinality(Sent(o, u, t)) + 1
              /\ Cardinality(Sending(o, u, t)') = Cardinality(Sending(o, u, t)) - 1
          <5>1. Cardinality(Sent(o, u, t) \cup {Len(links) + 1}) = Cardinality(Sent(o, u, t)) + 1
            BY <4>2, <4>3, FS_AddElement
          <5>2. Cardinality(Sending(o, u, t) \ {x}) = Cardinality(Sending(o, u, t)) - 1
            BY <3>2, <4>3, FS_RemoveElement
          <5>3. QED
            BY <3>1, <4>1, <5>1, <5>2, Zenon
        <4>5. Cardinality(Sent(o, u, t)) + Cardinality(Sending(o, u, t)) =< PerHour + Cardinality(Workers) - 1
          BY <1>a DEF WindowsBounded
        <4>6. QED
          BY <4>3, <4>4, <4>5, Numbers
      <3>3. CASE x \notin Sending(o, u, t)
        <4>1. Sent(o, u, t)' \subseteq Sent(o, u, t)
          BY <2>1, <2>4, <3>3 DEF Sent, Sending
        <4>2. QED
          BY <1>f, <3>1, <4>1
      <3>4. QED
        BY <3>2, <3>3
    <2>6. QED
      BY <1>a, <2>5 DEF RecentInv, WindowsBounded
  <1>g. ASSUME NEW x \in Workers, w[x].pc \in {"find", "consume"}, NEW pc \in {"consume", "commit"}, Goto(x, pc)
        PROVE  \A y \in Workers : w'[y] = w[y] \/ w'[y].pc # "insert"
    <2>1. w[x] \in Verifying
      BY <1>g, <1>s, WorkShape
    <2>2. QED
      BY <1>g, <1>s, <2>1 DEF Goto, Verifying
  <1>l. ASSUME NEW x \in Workers, w[x].pc \in {"consume", "commit"},
               NEW st \in {"active", "held", "consumed"}, links' = [links EXCEPT ![w[x].link].status = st]
        PROVE  /\ DOMAIN links' = DOMAIN links
               /\ \A n \in DOMAIN links : /\ links'[n].org = links[n].org /\ links'[n].user = links[n].user
                                          /\ links'[n].created = links[n].created
    <2>1. w[x].link \in DOMAIN links
      BY <1>l, <1>a DEF TypedInv, WorkersTyped, HasLink
    <2>2. QED
      BY <1>l, <1>s, <2>1, StatusSet
  <1>5. ASSUME NEW x \in Workers, FindMagicLinkToken(x)
        PROVE  RecentInv'
    BY <1>5, <1>g, <1>k, <1>r DEF FindMagicLinkToken, tables, At
  <1>6. ASSUME NEW x \in Workers, ConsumeMagicLinkToken(x)
        PROVE  RecentInv'
    BY <1>6, <1>g, <1>k, <1>l, <1>r DEF ConsumeMagicLinkToken, At
  <1>7. ASSUME NEW x \in Workers, CreateUserSession(x)
        PROVE  RecentInv'
    BY <1>7, <1>k, <1>l, <1>r DEF CreateUserSession, At
  <1>8. ASSUME NEW x \in Workers, Fail(x)
        PROVE  RecentInv'
    BY <1>8, <1>k, <1>l, <1>r DEF Fail
  <1>9. QED
    BY <1>a, <1>1, <1>2, <1>3, <1>4, <1>5, <1>6, <1>7, <1>8, StepKinds

\* The hourly limit on magic links, although it is checked before the insert and outside
\* any transaction, is exceeded by no more than the other requests in flight: for every
\* limit, length of the window and number of requests, however long they are delayed.
THEOREM LinkLimitHolds == AccessSpec => []RecentLinksBounded
  <1>1. AccessInit => RecentInv
    <2> SUFFICES ASSUME AccessInit PROVE WindowsBounded
      BY TypedInit DEF RecentInv
    <2>1. ASSUME NEW o \in Orgs, NEW u \in Users, NEW t \in Nat
          PROVE  Sent(o, u, t) = {} /\ Sending(o, u, t) = {}
      BY DEF AccessInit, Sent, Sending, Idle
    <2>2. ASSUME NEW o \in Orgs, NEW u \in Users, NEW t \in Nat
          PROVE  Cardinality(Sent(o, u, t)) = 0 /\ Cardinality(Sending(o, u, t)) = 0
      BY <2>1, FS_EmptySet
    <2>3. QED
      BY <2>2, Numbers DEF WindowsBounded
  <1>2. RecentInv => RecentLinksBounded
    <2> SUFFICES ASSUME RecentInv, NEW n \in DOMAIN links
                 PROVE  Cardinality({m \in LinksSince(links[n].org, links[n].user, links[n].created) :
                                       links[m].created =< links[n].created + Hour})
                            =< PerHour + Cardinality(Workers) - 1
      BY DEF RecentLinksBounded
    <2> DEFINE o == links[n].org
               u == links[n].user
               t == links[n].created
    <2>1. links[n] \in Link
      BY DEF RecentInv, TypedInv, AccessTypeOK
    <2>2. o \in Orgs /\ u \in Users /\ t \in Nat
      BY <2>1 DEF Link
    <2>3. {m \in LinksSince(o, u, t) : links[m].created =< t + Hour} = Sent(o, u, t)
      <3>0. \A m \in DOMAIN links : links[m] \in Link
        BY DEF RecentInv, TypedInv, AccessTypeOK
      <3>1. \A m \in DOMAIN links : links[m].created \in Nat
        BY <3>0 DEF Link
      <3>2. QED
        BY <2>2, <3>1 DEF LinksSince, Sent, InWindow
    <2> HIDE DEF o, u, t
    <2>4. Cardinality(Sent(o, u, t)) + Cardinality(Sending(o, u, t)) =< PerHour + Cardinality(Workers) - 1
      BY <2>2 DEF RecentInv, WindowsBounded
    <2>5. Cardinality(Sent(o, u, t)) \in Nat /\ Cardinality(Sending(o, u, t)) \in Nat
      BY FiniteWindows DEF RecentInv
    <2>6. Cardinality(Sent(o, u, t)) =< PerHour + Cardinality(Workers) - 1
      BY <2>4, <2>5, Numbers
    <2>7. QED
      BY <2>3, <2>6 DEF o, u, t
  <1>3. QED
    BY <1>1, <1>2, RecentStep, PTL DEF AccessSpec
=============================================================================
