-------------------------------- MODULE TeamProofs --------------------------------
(***************************************************************************)
(* What holds of Team for any number of organizations, addresses, links    *)
(* and requests in progress, which may die between any two database calls. *)
(***************************************************************************)
EXTENDS Team, FiniteSetTheorems, TLAPS

--------------------------------------------------------------------------------
(* The inductive invariant.                                                  *)

Usable(x) ==
    /\ slug[x.org] # 0 /\ x.org \in settings
    /\ x.status = "active" => x.password
    /\ x.status = "invited" <=> x.invite

(* A session belongs to an organization that is complete. *)
SessionsOK == \A s \in sessions : slug[s.org] # 0 /\ s.org \in settings

(* What a request has read or written before the call it is about to make. *)
CallOK(c, slugs, complete) ==
    /\ c.pc \in {"trySlug", "insertOrg", "writeSlug"} => c.slug # 0
    /\ c.pc \in {"trySlug", "insertOrg", "saveSettings", "findEmail", "insertFounder",
                 "insertInvited"} => c.email \in Emails
    /\ c.pc \in {"saveSettings", "findEmail", "insertFounder", "insertInvited"} =>
          c.org \in Orgs /\ slugs[c.org] # 0
    /\ c.pc \in {"findEmail", "insertFounder", "insertInvited"} => c.org \in complete
    /\ c.pc \in {"insertInvited", "touchLogin", "countToDemote", "writeRole"} =>
          c.role \in UserRole
    /\ c.pc \in {"touchLogin", "writeReset", "setPassword", "accept", "countToDemote",
                 "countToRemove", "writeRole", "deleteUser"} => c.of \in Users
    /\ c.pc \in {"mail", "setPassword", "accept"} => c.token \in Tokens
    /\ c.pc = "writeSlug" => c.org \in Orgs
CallsOK == \A h \in Handlers : CallOK(call[h], slug, settings)

IInv == TypeOK /\ AccountsUsable /\ SessionsOK /\ CallsOK

(* No step takes an organization's slug or its settings away. *)
OrgsKept ==
    /\ slug' \in [Orgs -> 0..MaxSlug]
    /\ \A o \in Orgs : slug[o] # 0 => slug'[o] # 0
    /\ settings \subseteq settings' /\ settings' \subseteq Orgs

Then(h, c) == call' = [call EXCEPT ![h] = c] /\ requests' \in 0..MaxRequests

--------------------------------------------------------------------------------
(* What a step has to show.                                                  *)

LEMMA OrgsStay == ASSUME TypeOK, UNCHANGED orgVars PROVE OrgsKept
  BY DEF TypeOK, orgVars, OrgsKept

LEMMA Moved ==
    ASSUME TypeOK, CallsOK, OrgsKept, NEW h \in Handlers, NEW c \in Call, CallOK(c, slug', settings'),
           Then(h, c)
    PROVE  /\ call' \in [Handlers -> Call] /\ requests' \in 0..MaxRequests
           /\ CallsOK'
  <1> USE DEF Then
  <1>1. call' \in [Handlers -> Call]
    BY DEF TypeOK
  <1>2. \A g \in Handlers : call'[g] = IF g = h THEN c ELSE call[g]
    BY DEF TypeOK
  <1>3. ASSUME NEW g \in Handlers PROVE CallOK(call'[g], slug', settings')
    <2>1. CASE g = h
      BY <1>2, <2>1
    <2>2. CASE g # h
      <3>1. call'[g] = call[g] /\ CallOK(call[g], slug, settings)
        BY <1>2, <2>2 DEF CallsOK
      <3>2. CallOK(call[g], slug', settings')
        BY <3>1 DEF CallOK, OrgsKept
      <3> QED BY <3>1, <3>2
    <2> QED BY <2>1, <2>2
  <1> QED BY <1>1, <1>3 DEF CallsOK

LEMMA SessionsStay ==
    ASSUME TypeOK, SessionsOK, OrgsKept, UNCHANGED sessions
    PROVE  SessionsOK'
  BY DEF TypeOK, SessionsOK, OrgsKept, Session

LEMMA AccountsStay ==
    ASSUME TypeOK, AccountsUsable, OrgsKept, UNCHANGED user
    PROVE  AccountsUsable'
  <1> SUFFICES ASSUME NEW u \in Users, Row(u)
               PROVE  Usable(user[u])'
    BY DEF AccountsUsable, Usable, Row
  <1>1. Usable(user[u]) /\ user[u] \in User
    BY DEF AccountsUsable, Usable, TypeOK, Row
  <1>2. user[u].org \in Orgs
    BY <1>1 DEF User
  <1> QED BY <1>1, <1>2 DEF Usable, OrgsKept

(* One account is written. *)
LEMMA AccountWritten ==
    ASSUME TypeOK, AccountsUsable, OrgsKept, NEW u \in Users, NEW x \in User, Usable(x)',
           user' = [user EXCEPT ![u] = x]
    PROVE  user' \in [Users -> User \cup {None}] /\ AccountsUsable'
  <1>1. user' \in [Users -> User \cup {None}]
    BY DEF TypeOK
  <1>2. ASSUME NEW v \in Users, Row(v)' PROVE Usable(user[v])'
    <2>1. CASE v = u
      BY <2>1 DEF TypeOK
    <2>2. CASE v # u
      <3>1. user'[v] = user[v] /\ user[v] \in User
        BY <1>2, <2>2 DEF TypeOK, Row
      <3>2. Usable(user[v]) /\ user[v].org \in Orgs
        BY <1>2, <3>1 DEF AccountsUsable, Usable, Row, User
      <3> QED BY <3>1, <3>2 DEF Usable, OrgsKept
    <2> QED BY <2>1, <2>2
  <1> QED BY <1>1, <1>2 DEF AccountsUsable, Usable, Row

(* A request goes on, or starts, and writes nothing. *)
LEMMA Quiet ==
    ASSUME IInv, NEW h \in Handlers, NEW c \in Call, CallOK(c, slug, settings), Then(h, c),
           UNCHANGED <<slug, settings, user, sessions>>,
           issued' \subseteq Tokens, mailed' \subseteq Tokens, spent' \subseteq Tokens
    PROVE  IInv'
  <1>1. TypeOK /\ AccountsUsable /\ SessionsOK /\ CallsOK
    BY DEF IInv
  <1>2. OrgsKept
    BY <1>1, OrgsStay DEF orgVars
  <1>3. CallOK(c, slug', settings')
    BY DEF CallOK
  <1>4. call' \in [Handlers -> Call] /\ requests' \in 0..MaxRequests /\ CallsOK'
    BY <1>1, <1>2, <1>3, Moved
  <1>5. TypeOK'
    BY <1>1, <1>4 DEF TypeOK
  <1> QED BY <1>1, <1>2, <1>4, <1>5, SessionsStay, AccountsStay DEF IInv

(* A request that ends has written what it has. *)
LEMMA NoCallOK == NoCall \in Call /\ CallOK(NoCall, slug, settings)
  <1>1. NoCall \in Call
    BY BoundsAssumption DEF NoCall, Call, Pc
  <1>2. CallOK(NoCall, slug, settings)
    BY DEF NoCall, CallOK
  <1> QED BY <1>1, <1>2

LEMMA ReturnOK ==
    ASSUME NEW h \in Handlers, TypeOK, Return(h)
    PROVE  Then(h, NoCall) /\ NoCall \in Call /\ CallOK(NoCall, slug', settings')
  <1>1. Then(h, NoCall)
    BY DEF Return, Go, Then, TypeOK
  <1>2. CallOK(NoCall, slug', settings')
    BY DEF NoCall, CallOK
  <1> QED BY <1>1, <1>2, NoCallOK

--------------------------------------------------------------------------------
(* Requests that start, or go on, with nothing written.                      *)

LEMMA StartOK ==
    ASSUME IInv, NEW h \in Handlers, NEW c \in Call, CallOK(c, slug, settings), Start(h, c)
    PROVE  IInv'
  <1>1. Then(h, c)
    BY BoundsAssumption DEF Start, Then, IInv, TypeOK
  <1>2. UNCHANGED <<slug, settings, user, sessions, issued, mailed, spent>>
    BY DEF Start, rowVars, orgVars, linkVars
  <1> QED BY <1>1, <1>2, Quiet DEF IInv, TypeOK

LEMMA GoOK ==
    ASSUME IInv, NEW h \in Handlers, NEW c \in Call, CallOK(c, slug, settings), Go(h, c),
           UNCHANGED rowVars
    PROVE  IInv'
  <1>1. Then(h, c)
    BY DEF Go, Then, IInv, TypeOK
  <1>2. UNCHANGED <<slug, settings, user, sessions, issued, mailed, spent>>
    BY DEF rowVars, orgVars, linkVars
  <1> QED BY <1>1, <1>2, Quiet DEF IInv, TypeOK

LEMMA GivesUp ==
    ASSUME IInv, NEW h \in Handlers, Return(h), UNCHANGED rowVars
    PROVE  IInv'
  BY NoCallOK, GoOK DEF Return

(* The request in progress is one. *)
LEMMA CallHere ==
    ASSUME IInv, NEW h \in Handlers
    PROVE  call[h] \in Call /\ CallOK(call[h], slug, settings)
  BY DEF IInv, TypeOK, CallsOK

(* The session a request comes with is one of an organization that is complete. *)
LEMMA SessionHere ==
    ASSUME IInv, NEW s \in sessions
    PROVE  s.org \in Orgs /\ slug[s.org] # 0 /\ s.org \in settings /\ s.sub \in Users
  BY DEF IInv, TypeOK, SessionsOK, Session

LEMMA RowHere ==
    ASSUME IInv, NEW u \in Users, Row(u)
    PROVE  user[u] \in User /\ Usable(user[u]) /\ user[u].org \in Orgs /\ user[u].role \in UserRole
  <1>1. user[u] \in User
    BY DEF IInv, TypeOK, Row
  <1>2. Usable(user[u])
    BY DEF IInv, AccountsUsable, Usable
  <1> QED BY <1>1, <1>2 DEF User

LEMMA RequestsStart ==
    ASSUME IInv, NEW h \in Handlers,
           \/ \E e \in Emails : signup(h, e) \/ login(h, e) \/ forgotPassword(h, e)
           \/ \E t \in Tokens : resetPassword(h, t) \/ acceptInvite(h, t)
           \/ \E s \in sessions, e \in Emails, role \in UserRole : invite(h, s, e, role)
    PROVE  IInv'
  <1>1. ASSUME NEW e \in Emails, signup(h, e) PROVE IInv'
    <2> DEFINE c == [NoCall EXCEPT !.pc = "trySlug", !.email = e, !.slug = 1]
    <2>0. 1 \in 0..MaxSlug
      BY BoundsAssumption
    <2>1. c \in Call
      BY <2>0, NoCallOK DEF Call, Pc
    <2>2. CallOK(c, slug, settings)
      BY DEF CallOK, NoCall
    <2> HIDE DEF c
    <2> QED BY <1>1, <2>1, <2>2, StartOK DEF signup, c
  <1>2. ASSUME NEW e \in Emails, login(h, e) PROVE IInv'
    <2>1. PICK u \in Users : Row(u) /\ Start(h,
              [NoCall EXCEPT !.pc = "touchLogin", !.of = u, !.role = user[u].role])
      BY <1>2 DEF login, HasEmail
    <2> DEFINE c == [NoCall EXCEPT !.pc = "touchLogin", !.of = u, !.role = user[u].role]
    <2>2. user[u].role \in UserRole
      BY <2>1, RowHere
    <2>3. c \in Call
      BY <2>2, NoCallOK DEF Call, Pc
    <2>4. CallOK(c, slug, settings)
      BY <2>2 DEF CallOK, NoCall
    <2> HIDE DEF c
    <2> QED BY <2>1, <2>3, <2>4, StartOK DEF c
  <1>3. ASSUME NEW e \in Emails, forgotPassword(h, e) PROVE IInv'
    <2>1. PICK u \in Users : Start(h, [NoCall EXCEPT !.pc = "writeReset", !.of = u])
      BY <1>3 DEF forgotPassword
    <2> DEFINE c == [NoCall EXCEPT !.pc = "writeReset", !.of = u]
    <2>2. c \in Call
      BY NoCallOK DEF Call, Pc
    <2>3. CallOK(c, slug, settings)
      BY DEF CallOK, NoCall
    <2> HIDE DEF c
    <2> QED BY <2>1, <2>2, <2>3, StartOK DEF c
  <1>4. ASSUME NEW t \in Tokens, resetPassword(h, t) PROVE IInv'
    <2>1. PICK u \in Users :
              Start(h, [NoCall EXCEPT !.pc = "setPassword", !.of = u, !.token = t])
      BY <1>4 DEF resetPassword
    <2> DEFINE c == [NoCall EXCEPT !.pc = "setPassword", !.of = u, !.token = t]
    <2>2. c \in Call
      BY NoCallOK DEF Call, Pc
    <2>3. CallOK(c, slug, settings)
      BY DEF CallOK, NoCall
    <2> HIDE DEF c
    <2> QED BY <2>1, <2>2, <2>3, StartOK DEF c
  <1>5. ASSUME NEW t \in Tokens, acceptInvite(h, t) PROVE IInv'
    <2> DEFINE c == [NoCall EXCEPT !.pc = "accept", !.of = t, !.token = t]
    <2>1. c \in Call
      BY NoCallOK DEF Call, Pc, Users
    <2>2. CallOK(c, slug, settings)
      BY DEF CallOK, NoCall, Users
    <2> HIDE DEF c
    <2> QED BY <1>5, <2>1, <2>2, StartOK DEF acceptInvite, c
  <1>6. ASSUME NEW s \in sessions, NEW e \in Emails, NEW role \in UserRole,
               invite(h, s, e, role)
        PROVE  IInv'
    <2> DEFINE c == [NoCall EXCEPT !.pc = "insertInvited", !.org = s.org, !.email = e,
                                   !.role = role]
    <2>1. s.org \in Orgs /\ slug[s.org] # 0 /\ s.org \in settings
      BY SessionHere
    <2>2. c \in Call
      BY <2>1, NoCallOK DEF Call, Pc
    <2>3. CallOK(c, slug, settings)
      BY <2>1 DEF CallOK, NoCall
    <2> HIDE DEF c
    <2> QED BY <1>6, <2>2, <2>3, StartOK DEF invite, c
  <1> QED BY <1>1, <1>2, <1>3, <1>4, <1>5, <1>6

LEMMA TeamRequestsStart ==
    ASSUME IInv, NEW h \in Handlers, NEW s \in sessions,
           \/ \E u \in Users, role \in UserRole : updateRole(h, s, u, role)
           \/ \E u \in Users : remove(h, s, u)
           \/ \E new \in 1..MaxSlug : FindSlug(h, s, new)
    PROVE  IInv'
  <1>0. s.org \in Orgs
    BY SessionHere
  <1>1. ASSUME NEW u \in Users, NEW role \in UserRole, updateRole(h, s, u, role) PROVE IInv'
    <2> DEFINE pc == IF user[u].role = "admin" /\ role # "admin"
                     THEN "countToDemote" ELSE "writeRole"
               c == [NoCall EXCEPT !.pc = pc, !.org = s.org, !.of = u, !.role = role,
                                   !.seen = user[u].role]
    <2>1. user[u].role \in UserRole
      BY <1>1, RowHere DEF updateRole, InOrg
    <2>2. c \in Call
      BY <1>0, <2>1, NoCallOK DEF Call, Pc
    <2>3. CallOK(c, slug, settings)
      BY DEF CallOK, NoCall
    <2>4. Start(h, c)
      BY <1>1 DEF updateRole
    <2> HIDE DEF c
    <2> QED BY <2>2, <2>3, <2>4, StartOK
  <1>2. ASSUME NEW u \in Users, remove(h, s, u) PROVE IInv'
    <2> DEFINE pc == IF user[u].role = "admin" THEN "countToRemove" ELSE "deleteUser"
               c == [NoCall EXCEPT !.pc = pc, !.org = s.org, !.of = u, !.seen = user[u].role]
    <2>1. user[u].role \in UserRole
      BY <1>2, RowHere DEF remove, InOrg
    <2>2. c \in Call
      BY <1>0, <2>1, NoCallOK DEF Call, Pc
    <2>3. CallOK(c, slug, settings)
      BY DEF CallOK, NoCall
    <2>4. Start(h, c)
      BY <1>2 DEF remove
    <2> HIDE DEF c
    <2> QED BY <2>2, <2>3, <2>4, StartOK
  <1>3. ASSUME NEW new \in 1..MaxSlug, FindSlug(h, s, new) PROVE IInv'
    <2> DEFINE c == [NoCall EXCEPT !.pc = "writeSlug", !.org = s.org, !.slug = new]
    <2>0. new \in 0..MaxSlug
      BY BoundsAssumption
    <2>1. c \in Call
      BY <1>0, <2>0, NoCallOK DEF Call, Pc
    <2>2. CallOK(c, slug, settings)
      BY <1>0, BoundsAssumption DEF CallOK, NoCall
    <2>3. Start(h, c)
      BY <1>3 DEF FindSlug
    <2> HIDE DEF c
    <2> QED BY <2>1, <2>2, <2>3, StartOK
  <1> QED BY <1>1, <1>2, <1>3

--------------------------------------------------------------------------------
(* Requests that go on with nothing written.                                 *)

LEMMA RequestsGoOn ==
    ASSUME IInv, NEW h \in Handlers,
           TrySlug(h) \/ FindEmail(h) \/ CountToDemote(h) \/ CountToRemove(h)
    PROVE  IInv'
  <1> DEFINE c == call[h]
  <1>0. c \in Call /\ CallOK(c, slug, settings)
    BY CallHere
  <1>1. CASE TrySlug(h)
    <2>1. CASE Go(h, [call[h] EXCEPT !.slug = @ + 1]) /\ c.slug < MaxSlug
      <3> DEFINE n == [c EXCEPT !.slug = @ + 1]
      <3>1. c.slug \in 0..MaxSlug
        BY <1>0 DEF Call
      <3>2. c.slug + 1 \in 0..MaxSlug /\ c.slug + 1 # 0
        BY <2>1, <3>1, BoundsAssumption
      <3>3. n \in Call
        BY <1>0, <3>2 DEF Call
      <3>4. n.pc = "trySlug" /\ n.email = c.email /\ n.slug = c.slug + 1 /\ c.pc = "trySlug"
        BY <1>0, <1>1 DEF Call, TrySlug
      <3>5. CallOK(n, slug, settings)
        BY <1>0, <3>2, <3>4 DEF CallOK
      <3>6. Go(h, n) /\ UNCHANGED rowVars
        BY <1>1, <2>1 DEF TrySlug
      <3> HIDE DEF n
      <3> QED BY <3>3, <3>5, <3>6, GoOK
    <2>2. CASE Go(h, [call[h] EXCEPT !.pc = "insertOrg"])
      <3> DEFINE n == [c EXCEPT !.pc = "insertOrg"]
      <3>1. n \in Call
        BY <1>0 DEF Call, Pc
      <3>2. CallOK(n, slug, settings)
        BY <1>0, <1>1 DEF CallOK, Call, TrySlug
      <3>3. Go(h, n) /\ UNCHANGED rowVars
        BY <1>1, <2>2 DEF TrySlug
      <3> HIDE DEF n
      <3> QED BY <3>1, <3>2, <3>3, GoOK
    <2> QED BY <1>1, <2>1, <2>2 DEF TrySlug
  <1>2. CASE FindEmail(h)
    <2>1. CASE Go(h, [call[h] EXCEPT !.pc = "insertFounder"])
      <3> DEFINE n == [c EXCEPT !.pc = "insertFounder"]
      <3>1. n \in Call
        BY <1>0 DEF Call, Pc
      <3>2. CallOK(n, slug, settings)
        BY <1>0, <1>2 DEF CallOK, Call, FindEmail
      <3>3. Go(h, n) /\ UNCHANGED rowVars
        BY <1>2, <2>1 DEF FindEmail
      <3> HIDE DEF n
      <3> QED BY <3>1, <3>2, <3>3, GoOK
    <2> QED BY <1>2, <2>1, GivesUp DEF FindEmail
  <1>3. ASSUME NEW pc \in {"countToDemote", "countToRemove"},
               NEW next \in {"writeRole", "deleteUser"}, Count(h, pc, next),
               next = "writeRole" => pc = "countToDemote"
        PROVE  IInv'
    <2> DEFINE a == Cardinality(Admins(c.org))
               n == [c EXCEPT !.pc = next, !.count = a]
    <2>1. a \in Nat
      <3>1. IsFiniteSet(Users)
        BY FiniteAssumption, FS_Union DEF Users
      <3>2. IsFiniteSet(Admins(c.org))
        BY <3>1, FS_Subset DEF Admins
      <3> QED BY <3>2, FS_CardinalityType
    <2>2. CASE Go(h, n)
      <3> HIDE DEF a
      <3>1. n \in Call
        BY <1>0, <2>1 DEF Call, Pc
      <3>2. n.pc = next /\ n.of = c.of /\ n.role = c.role /\ c.pc = pc
        BY <1>0, <1>3 DEF Call, Count
      <3>3. CallOK(n, slug, settings)
        BY <1>0, <1>3, <3>2 DEF CallOK
      <3>4. UNCHANGED rowVars
        BY <1>3 DEF Count
      <3> HIDE DEF n
      <3> QED BY <2>2, <3>1, <3>3, <3>4, GoOK
    <2> QED BY <1>3, <2>2, GivesUp DEF Count
  <1>4. CASE CountToDemote(h)
    BY <1>3, <1>4 DEF CountToDemote
  <1>5. CASE CountToRemove(h)
    BY <1>3, <1>5 DEF CountToRemove
  <1> QED BY <1>1, <1>2, <1>4, <1>5

--------------------------------------------------------------------------------
(* Requests that write.                                                      *)

(* A step has shown what it leaves of each table. *)
LEMMA Written ==
    ASSUME IInv, OrgsKept, NEW h \in Handlers, NEW c \in Call, CallOK(c, slug', settings'),
           Then(h, c), user' \in [Users -> User \cup {None}], AccountsUsable',
           sessions' \subseteq Session, SessionsOK',
           issued' \subseteq Tokens, mailed' \subseteq Tokens, spent' \subseteq Tokens
    PROVE  IInv'
  <1>1. call' \in [Handlers -> Call] /\ requests' \in 0..MaxRequests /\ CallsOK'
    BY Moved DEF IInv
  <1>2. TypeOK'
    BY <1>1 DEF TypeOK, OrgsKept
  <1> QED BY <1>1, <1>2 DEF IInv

(* The columns of a users row that requests change. *)
LEMMA ColumnsChange ==
    ASSUME NEW x \in User
    PROVE  /\ \A t \in Tokens : [x EXCEPT !.reset = t] \in User
           /\ [x EXCEPT !.password = TRUE] \in User
           /\ [x EXCEPT !.password = TRUE, !.reset = None] \in User
           /\ [x EXCEPT !.password = TRUE, !.status = "active", !.invite = FALSE] \in User
           /\ \A role \in UserRole : [x EXCEPT !.role = role] \in User
  BY DEF User, UserStatus

LEMMA StillUsable ==
    ASSUME NEW x \in User, Usable(x)
    PROVE  /\ \A t \in Tokens : Usable([x EXCEPT !.reset = t])
           /\ Usable([x EXCEPT !.password = TRUE, !.reset = None])
           /\ Usable([x EXCEPT !.password = TRUE, !.status = "active", !.invite = FALSE])
           /\ \A role \in UserRole : Usable([x EXCEPT !.role = role])
  BY DEF User, UserStatus, Usable

LEMMA AccountsStayAll ==
    ASSUME IInv, OrgsKept
    PROVE  /\ UNCHANGED user => user' \in [Users -> User \cup {None}] /\ AccountsUsable'
           /\ UNCHANGED sessions => sessions' \subseteq Session /\ SessionsOK'
  <1>1. UNCHANGED user => AccountsUsable'
    BY AccountsStay DEF IInv
  <1>2. UNCHANGED sessions => SessionsOK'
    BY SessionsStay DEF IInv
  <1> QED BY <1>1, <1>2 DEF IInv, TypeOK

LEMMA OrganizationsAreWritten ==
    ASSUME IInv, NEW h \in Handlers,
           \/ \E o \in Orgs : InsertOrg(h, o)
           \/ SaveSettings(h)
           \/ WriteSlug(h)
    PROVE  IInv'
  <1> DEFINE c == call[h]
  <1>0. c \in Call /\ CallOK(c, slug, settings) /\ c.slug \in 0..MaxSlug
    BY CallHere DEF Call
  <1>1. ASSUME NEW o \in Orgs, InsertOrg(h, o) PROVE IInv'
    <2>0. c.pc = "insertOrg" /\ c.slug # 0 /\ c.email \in Emails
      BY <1>0, <1>1 DEF InsertOrg, CallOK
    <2>1. CASE Return(h) /\ UNCHANGED slug
      BY <1>1, <2>1, GivesUp DEF InsertOrg, rowVars, orgVars
    <2>2. CASE /\ slug' = [slug EXCEPT ![o] = c.slug]
               /\ Go(h, [c EXCEPT !.pc = "saveSettings", !.org = o])
      <3> DEFINE n == [c EXCEPT !.pc = "saveSettings", !.org = o]
      <3>1. n \in Call
        BY <1>0 DEF Call, Pc
      <3>2. n.pc = "saveSettings" /\ n.org = o /\ n.email = c.email
        BY <1>0 DEF Call
      <3>3. OrgsKept /\ slug'[o] # 0
        BY <1>0, <1>1, <2>0, <2>2 DEF OrgsKept, InsertOrg, IInv, TypeOK
      <3>4. CallOK(n, slug', settings')
        BY <2>0, <3>2, <3>3 DEF CallOK
      <3>5. Then(h, n)
        BY <2>2 DEF Go, Then, IInv, TypeOK
      <3>6. UNCHANGED <<user, sessions, issued, mailed, spent>>
        BY <1>1 DEF InsertOrg, linkVars
      <3> HIDE DEF n
      <3> QED BY <3>1, <3>3, <3>4, <3>5, <3>6, AccountsStayAll, Written DEF IInv, TypeOK
    <2> QED BY <1>1, <2>1, <2>2 DEF InsertOrg
  <1>2. CASE SaveSettings(h)
    <2>0. c.pc = "saveSettings" /\ c.org \in Orgs /\ slug[c.org] # 0 /\ c.email \in Emails
      BY <1>0, <1>2 DEF SaveSettings, CallOK
    <2> DEFINE n == [c EXCEPT !.pc = "findEmail"]
    <2>1. n \in Call
      BY <1>0 DEF Call, Pc
    <2>2. n.pc = "findEmail" /\ n.org = c.org /\ n.email = c.email
      BY <1>0 DEF Call
    <2>3. OrgsKept /\ slug' = slug /\ c.org \in settings'
      BY <1>2, <2>0 DEF OrgsKept, SaveSettings, IInv, TypeOK
    <2>4. CallOK(n, slug', settings')
      BY <2>0, <2>2, <2>3 DEF CallOK
    <2>5. Then(h, n)
      BY <1>2 DEF SaveSettings, Go, Then, IInv, TypeOK
    <2>6. UNCHANGED <<user, sessions, issued, mailed, spent>>
      BY <1>2 DEF SaveSettings, linkVars
    <2> HIDE DEF n
    <2> QED BY <2>1, <2>3, <2>4, <2>5, <2>6, AccountsStayAll, Written DEF IInv, TypeOK
  <1>3. CASE WriteSlug(h)
    <2>0. c.pc = "writeSlug" /\ c.org \in Orgs /\ c.slug # 0
      BY <1>0, <1>3 DEF WriteSlug, CallOK
    <2>1. slug' = slug \/ slug' = [slug EXCEPT ![c.org] = c.slug]
      BY <1>3 DEF WriteSlug
    <2>2. UNCHANGED <<settings, user, sessions, issued, mailed, spent>> /\ Return(h)
      BY <1>3 DEF WriteSlug, linkVars
    <2>3. OrgsKept
      BY <1>0, <2>0, <2>1, <2>2 DEF OrgsKept, IInv, TypeOK
    <2>4. Then(h, NoCall) /\ NoCall \in Call /\ CallOK(NoCall, slug', settings')
      BY <2>2, ReturnOK DEF IInv
    <2> QED BY <2>2, <2>3, <2>4, AccountsStayAll, Written DEF IInv, TypeOK
  <1> QED BY <1>1, <1>2, <1>3

(* An account is written, and a session may be signed. *)
LEMMA AccountIsWritten ==
    ASSUME IInv, NEW h \in Handlers, NEW c \in Call, CallOK(c, slug, settings), Then(h, c),
           UNCHANGED orgVars,
           NEW u \in Users, NEW x \in User, Usable(x), user' = [user EXCEPT ![u] = x],
           sessions' \subseteq Session, \A s \in sessions' : slug[s.org] # 0 /\ s.org \in settings,
           issued' \subseteq Tokens, mailed' \subseteq Tokens, spent' \subseteq Tokens
    PROVE  IInv'
  <1>1. OrgsKept /\ slug' = slug /\ settings' = settings
    BY OrgsStay DEF IInv, orgVars
  <1>2. CallOK(c, slug', settings') /\ Usable(x)' /\ SessionsOK'
    BY <1>1 DEF SessionsOK, Usable
  <1>3. user' \in [Users -> User \cup {None}] /\ AccountsUsable'
    BY <1>1, <1>2, AccountWritten DEF IInv
  <1> QED BY <1>1, <1>2, <1>3, Written

LEMMA SessionsHere ==
    ASSUME IInv
    PROVE  sessions \subseteq Session /\ \A s \in sessions : slug[s.org] # 0 /\ s.org \in settings
  BY DEF IInv, TypeOK, SessionsOK

(* A token is signed for a row that is there. *)
LEMMA Signed ==
    ASSUME IInv, NEW u \in Users, Row(u), NEW role \in UserRole, signToken(u, role)
    PROVE  /\ sessions' \subseteq Session
           /\ \A s \in sessions' : slug[s.org] # 0 /\ s.org \in settings
  <1> DEFINE new == [sub |-> u, org |-> user[u].org, role |-> role]
  <1>1. user[u].org \in Orgs /\ slug[user[u].org] # 0 /\ user[u].org \in settings
    BY RowHere DEF Usable
  <1>2. new \in Session
    BY <1>1 DEF Session
  <1>3. new.org = user[u].org
    OBVIOUS
  <1>4. sessions' = sessions \cup {new}
    BY DEF signToken
  <1> HIDE DEF new
  <1> QED BY <1>1, <1>2, <1>3, <1>4, SessionsHere

LEMMA AccountsAreInserted ==
    ASSUME IInv, NEW h \in Handlers,
           InsertFounder(h) \/ \E t \in Tokens : InsertInvited(h, t)
    PROVE  IInv'
  <1> DEFINE c == call[h]
  <1>0. c \in Call /\ CallOK(c, slug, settings) /\ TypeOK
    BY CallHere DEF IInv
  <1>1. CASE InsertFounder(h)
    <2> DEFINE o == c.org
               x == [org |-> o, email |-> c.email, role |-> "admin", status |-> "active",
                     password |-> TRUE, invite |-> FALSE, reset |-> None]
               new == [sub |-> o, org |-> o, role |-> "admin"]
    <2>1. o \in Orgs /\ slug[o] # 0 /\ o \in settings /\ c.email \in Emails
      BY <1>0, <1>1 DEF InsertFounder, CallOK
    <2>2. x \in User /\ Usable(x)
      BY <2>1 DEF User, Usable, UserRole, UserStatus
    <2>3. new \in Session /\ new.org = o
      BY <2>1 DEF Session, Users, UserRole
    <2>4. user' = [user EXCEPT ![o] = x] /\ sessions' = sessions \cup {new} /\ Return(h)
      BY <1>1 DEF InsertFounder
    <2>5. UNCHANGED <<slug, settings, issued, mailed, spent>>
      BY <1>1 DEF InsertFounder, orgVars, linkVars
    <2>6. Then(h, NoCall) /\ NoCall \in Call /\ CallOK(NoCall, slug, settings)
      BY <1>0, <2>4, <2>5, ReturnOK
    <2>7. /\ sessions' \subseteq Session
          /\ \A s \in sessions' : slug[s.org] # 0 /\ s.org \in settings
      <3> HIDE DEF new
      <3> QED BY <2>1, <2>3, <2>4, SessionsHere
    <2>8. o \in Users
      BY <2>1 DEF Users
    <2> HIDE DEF x, o
    <2> QED BY <1>0, <2>2, <2>4, <2>5, <2>6, <2>7, <2>8, AccountIsWritten DEF TypeOK, orgVars
  <1>2. ASSUME NEW t \in Tokens, InsertInvited(h, t) PROVE IInv'
    <2> DEFINE x == [org |-> c.org, email |-> c.email, role |-> c.role, status |-> "invited",
                     password |-> FALSE, invite |-> TRUE, reset |-> None]
               n == [c EXCEPT !.pc = "mail", !.token = t]
    <2>1. /\ c.org \in Orgs /\ slug[c.org] # 0 /\ c.org \in settings
          /\ c.email \in Emails /\ c.role \in UserRole
      BY <1>0, <1>2 DEF InsertInvited, CallOK
    <2>2. UNCHANGED <<slug, settings, mailed, spent, sessions>> /\ issued' \subseteq Tokens
      BY <1>0, <1>2 DEF InsertInvited, orgVars, TypeOK
    <2>3. CASE Return(h) /\ UNCHANGED user
      <3>1. Then(h, NoCall)
        BY <1>0, <2>3, ReturnOK
      <3> QED BY <1>0, <2>2, <2>3, <3>1, NoCallOK, Quiet DEF TypeOK
    <2>4. CASE user' = [user EXCEPT ![t] = x] /\ Go(h, n)
      <3>1. x \in User /\ Usable(x)
        BY <2>1 DEF User, Usable, UserStatus
      <3>2. n \in Call
        BY <1>0 DEF Call, Pc
      <3>3. CallOK(n, slug, settings)
        BY <1>0 DEF Call, CallOK
      <3>4. Then(h, n)
        BY <1>0, <2>4 DEF Go, Then, TypeOK
      <3>5. t \in Users
        BY DEF Users
      <3> HIDE DEF x, n
      <3> QED BY <1>0, <2>2, <2>4, <3>1, <3>2, <3>3, <3>4, <3>5, SessionsHere, AccountIsWritten
              DEF TypeOK, orgVars
    <2> QED BY <1>2, <2>3, <2>4 DEF InsertInvited
  <1> QED BY <1>1, <1>2

LEMMA AccountsAreChanged ==
    ASSUME IInv, NEW h \in Handlers,
           \/ \E t \in Tokens : WriteReset(h, t)
           \/ SetPassword(h)
           \/ Accept(h)
           \/ WriteRole(h)
    PROVE  IInv'
  <1> DEFINE c == call[h]
             u == c.of
  <1>0. c \in Call /\ CallOK(c, slug, settings) /\ TypeOK
    BY CallHere DEF IInv
  <1>1. ASSUME NEW t \in Tokens, WriteReset(h, t) PROVE IInv'
    <2>1. u \in Users
      BY <1>0, <1>1 DEF WriteReset, CallOK
    <2>2. UNCHANGED <<slug, settings, mailed, spent, sessions>> /\ issued' \subseteq Tokens
      BY <1>0, <1>1 DEF WriteReset, orgVars, TypeOK
    <2>3. CASE ~Row(u)
      <3>1. Return(h) /\ UNCHANGED user
        BY <1>1, <2>3 DEF WriteReset
      <3>2. Then(h, NoCall)
        BY <1>0, <3>1, ReturnOK
      <3> QED BY <1>0, <2>2, <3>1, <3>2, NoCallOK, Quiet DEF TypeOK
    <2>4. CASE Row(u)
      <3> DEFINE x == [user[u] EXCEPT !.reset = t]
                 n == [c EXCEPT !.pc = "mail", !.token = t]
      <3>1. x \in User /\ Usable(x)
        BY <2>1, <2>4, RowHere, ColumnsChange, StillUsable
      <3>2. user' = [user EXCEPT ![u] = x] /\ Go(h, n)
        BY <1>0, <1>1, <2>1, <2>4 DEF WriteReset, TypeOK
      <3>3. n \in Call
        BY <1>0 DEF Call, Pc
      <3>4. CallOK(n, slug, settings)
        BY <1>0 DEF Call, CallOK
      <3>5. Then(h, n)
        BY <1>0, <3>2 DEF Go, Then, TypeOK
      <3> HIDE DEF x, n
      <3> QED BY <1>0, <2>1, <2>2, <3>1, <3>2, <3>3, <3>4, <3>5, SessionsHere, AccountIsWritten
              DEF TypeOK, orgVars
    <2> QED BY <2>3, <2>4
  <1>2. CASE SetPassword(h) \/ Accept(h) \/ WriteRole(h)
    <2>1. u \in Users /\ Return(h)
      BY <1>0, <1>2 DEF SetPassword, Accept, WriteRole, CallOK
    <2>2. UNCHANGED <<slug, settings, issued, mailed>> /\ spent' \subseteq Tokens
      <3>1. SetPassword(h) \/ Accept(h) => c.token \in Tokens
        BY <1>0 DEF SetPassword, Accept, CallOK
      <3> QED BY <1>0, <1>2, <3>1 DEF SetPassword, Accept, WriteRole, orgVars, linkVars, TypeOK
    <2>3. Then(h, NoCall) /\ NoCall \in Call /\ CallOK(NoCall, slug, settings)
      BY <1>0, <2>1, <2>2, ReturnOK
    <2>4. CASE ~Row(u)
      <3>1. UNCHANGED <<user, sessions>>
        BY <1>2, <2>4 DEF SetPassword, Accept, WriteRole, linkVars
      <3> QED BY <1>0, <2>2, <2>3, <3>1, Quiet DEF TypeOK
    <2>5. ASSUME Row(u), NEW x \in User, Usable(x), user' = [user EXCEPT ![u] = x],
                 sessions' \subseteq Session,
                 \A s \in sessions' : slug[s.org] # 0 /\ s.org \in settings
          PROVE  IInv'
      BY <1>0, <2>1, <2>2, <2>3, <2>5, AccountIsWritten DEF TypeOK, orgVars
    <2>6. CASE Row(u) /\ SetPassword(h)
      <3> DEFINE x == [user[u] EXCEPT !.password = TRUE, !.reset = None]
      <3>1. x \in User /\ Usable(x)
        BY <2>1, <2>6, RowHere, ColumnsChange, StillUsable
      <3>2. user' = [user EXCEPT ![u] = x] /\ UNCHANGED sessions
        BY <1>0, <2>1, <2>6 DEF SetPassword, TypeOK
      <3> HIDE DEF x
      <3> QED BY <2>5, <2>6, <3>1, <3>2, SessionsHere
    <2>7. CASE Row(u) /\ Accept(h)
      <3> DEFINE x == [user[u] EXCEPT !.password = TRUE, !.status = "active", !.invite = FALSE]
      <3>1. x \in User /\ Usable(x)
        BY <2>1, <2>7, RowHere, ColumnsChange, StillUsable
      <3>2. user' = [user EXCEPT ![u] = x] /\ signToken(u, user[u].role)
        BY <1>0, <2>1, <2>7 DEF Accept, TypeOK
      <3>3. user[u].role \in UserRole
        BY <2>1, <2>7, RowHere
      <3>4. /\ sessions' \subseteq Session
            /\ \A s \in sessions' : slug[s.org] # 0 /\ s.org \in settings
        BY <2>1, <2>7, <3>2, <3>3, Signed
      <3> HIDE DEF x
      <3> QED BY <2>5, <2>7, <3>1, <3>2, <3>4
    <2>8. CASE Row(u) /\ WriteRole(h)
      <3> DEFINE x == [user[u] EXCEPT !.role = c.role]
      <3>1. c.role \in UserRole
        BY <1>0, <2>8 DEF WriteRole, CallOK
      <3>2. x \in User /\ Usable(x)
        BY <2>1, <2>8, <3>1, RowHere, ColumnsChange, StillUsable
      <3>3. user' = [user EXCEPT ![u] = x] /\ UNCHANGED sessions
        BY <1>0, <2>1, <2>8 DEF WriteRole, TypeOK
      <3> HIDE DEF x
      <3> QED BY <2>5, <2>8, <3>2, <3>3, SessionsHere
    <2> QED BY <1>2, <2>4, <2>6, <2>7, <2>8
  <1> QED BY <1>1, <1>2

LEMMA RequestsEnd ==
    ASSUME IInv, NEW h \in Handlers, TouchLogin(h) \/ Mail(h) \/ DeleteUser(h) \/ Crash(h)
    PROVE  IInv'
  <1> DEFINE c == call[h]
             u == c.of
  <1>0. c \in Call /\ CallOK(c, slug, settings) /\ TypeOK
    BY CallHere DEF IInv
  <1>1. Return(h) /\ UNCHANGED <<slug, settings>>
    BY DEF TouchLogin, Mail, DeleteUser, Crash, rowVars, orgVars
  <1>2. Then(h, NoCall) /\ NoCall \in Call /\ CallOK(NoCall, slug, settings) /\ OrgsKept
    BY <1>0, <1>1, ReturnOK, OrgsStay DEF orgVars
  <1>3. CASE TouchLogin(h)
    <2>1. u \in Users /\ c.role \in UserRole
      BY <1>0, <1>3 DEF TouchLogin, CallOK
    <2>2. UNCHANGED <<user, issued, mailed, spent>>
      BY <1>3 DEF TouchLogin, linkVars
    <2>3. /\ sessions' \subseteq Session
          /\ \A s \in sessions' : slug[s.org] # 0 /\ s.org \in settings
      <3>1. CASE Row(u)
        BY <1>3, <2>1, <3>1, Signed DEF TouchLogin
      <3>2. CASE ~Row(u)
        BY <1>3, <3>2, SessionsHere DEF TouchLogin
      <3> QED BY <3>1, <3>2
    <2>4. SessionsOK'
      BY <1>1, <2>3 DEF SessionsOK
    <2> QED BY <1>0, <1>1, <1>2, <2>2, <2>3, <2>4, AccountsStayAll, Written DEF TypeOK
  <1>4. CASE Mail(h)
    <2>1. c.token \in Tokens
      BY <1>0, <1>4 DEF Mail, CallOK
    <2>2. UNCHANGED <<user, sessions, issued, spent>> /\ mailed' \subseteq Tokens
      BY <1>0, <1>4, <2>1 DEF Mail, TypeOK
    <2> QED BY <1>0, <1>1, <1>2, <2>2, Quiet DEF TypeOK
  <1>5. CASE DeleteUser(h)
    <2>1. UNCHANGED <<sessions, issued, mailed, spent>> /\ user' = [user EXCEPT ![u] = None]
      BY <1>5 DEF DeleteUser, linkVars
    <2>2. user' \in [Users -> User \cup {None}]
      BY <1>0, <2>1 DEF TypeOK
    <2>3. \A v \in Users : Row(v)' => Row(v) /\ user'[v] = user[v]
      BY <1>0, <2>1 DEF TypeOK, Row
    <2>4. AccountsUsable'
      BY <1>1, <2>3 DEF IInv, AccountsUsable
    <2> QED BY <1>0, <1>1, <1>2, <2>1, <2>2, <2>4, AccountsStayAll, Written DEF TypeOK
  <1>6. CASE Crash(h)
    BY <1>1, <1>6, GivesUp DEF Crash
  <1> QED BY <1>3, <1>4, <1>5, <1>6

LEMMA Initially == Init => IInv
  <1> SUFFICES ASSUME Init PROVE IInv
    OBVIOUS
  <1>1. 0 \in 0..MaxSlug /\ 0 \in 0..MaxRequests
    BY BoundsAssumption
  <1>2. TypeOK
    BY <1>1, NoCallOK DEF Init, TypeOK
  <1>3. AccountsUsable /\ SessionsOK
    BY DEF Init, AccountsUsable, SessionsOK, Row
  <1>4. CallsOK
    BY NoCallOK DEF Init, CallsOK
  <1> QED BY <1>2, <1>3, <1>4 DEF IInv

LEMMA EveryStep == IInv /\ [Next]_vars => IInv'
  <1> SUFFICES ASSUME IInv, [Next]_vars PROVE IInv'
    OBVIOUS
  <1>1. ASSUME NEW h \in Handlers, AuthRequest(h) PROVE IInv'
    BY <1>1, RequestsStart, RequestsGoOn, OrganizationsAreWritten, AccountsAreInserted,
       AccountsAreChanged, RequestsEnd DEF AuthRequest
  <1>2. ASSUME NEW h \in Handlers, UsersRequest(h) PROVE IInv'
    BY <1>2, TeamRequestsStart, RequestsGoOn, AccountsAreChanged, RequestsEnd DEF UsersRequest
  <1>3. ASSUME NEW h \in Handlers, OrganizationsRequest(h) PROVE IInv'
    BY <1>3, TeamRequestsStart, OrganizationsAreWritten DEF OrganizationsRequest
  <1>4. ASSUME NEW h \in Handlers, Crash(h) PROVE IInv'
    BY <1>4, RequestsEnd
  <1>5. CASE UNCHANGED vars
    <2>1. UNCHANGED <<slug, settings, user, sessions, issued, mailed, spent, call, requests>>
      BY <1>5 DEF vars
    <2> QED BY <2>1 DEF IInv, TypeOK, AccountsUsable, SessionsOK, CallsOK, Row
  <1> QED BY <1>1, <1>2, <1>3, <1>4, <1>5 DEF Next

(* The invariant the other theorems rest on. *)
THEOREM Invariance == Spec => []IInv
  BY Initially, EveryStep, PTL DEF Spec

(* The variables keep their types: in particular no request works on a user,   *)
(* an organization or a token that was never there.                            *)
THEOREM TypeCorrect == Spec => []TypeOK
  BY Invariance, PTL DEF IInv

(* Whatever signups, invitations and team changes interleave, and wherever     *)
(* they die, every users row has an organization with settings, a password if  *)
(* it is active, and its invitation if it is not (auth.service.ts:46).         *)
THEOREM AccountsStayUsable == Spec => []AccountsUsable
  BY Invariance, PTL DEF IInv

--------------------------------------------------------------------------------
(* Links.                                                                    *)

(* A token is in one link: of the invitation it identifies or of the row it    *)
(* can reset.  Once spent, it is in none.                                      *)
TokensIssued ==
    /\ spent \subseteq issued
    /\ \A t \in Tokens : Row(t) => t \in issued
    /\ \A u \in Users : Row(u) /\ user[u].reset # None => user[u].reset \in issued
OneHolder ==
    \A u \in Users : Row(u) /\ user[u].reset # None =>
        /\ ~Row(user[u].reset)
        /\ \A v \in Users : Row(v) /\ user[v].reset = user[u].reset => v = u
SpentIsGone == \A t \in spent, u \in Users : Row(u) => ~HoldsLink(u, t)

(* A request that is about to use a link knows its only holder. *)
UseOK(c, rows, tokens) ==
    /\ c.pc \in {"setPassword", "accept"} => c.token \in tokens
    /\ c.pc = "setPassword" =>
          /\ rows[c.token] = None
          /\ \A v \in Users : rows[v] # None /\ rows[v].reset = c.token => v = c.of
    /\ c.pc = "accept" =>
          /\ c.of = c.token
          /\ \A v \in Users : rows[v] # None => rows[v].reset # c.token
UsesOK == \A h \in Handlers : UseOK(call[h], user, issued)

LinksOK == TokensIssued /\ OneHolder /\ SpentIsGone /\ UsesOK

(* No row gets a link. *)
NoNewLink ==
    \A u \in Users : Row(u)' =>
        \/ u \notin Tokens /\ user'[u].reset = None
        \/ /\ Row(u) /\ user'[u].reset \in {user[u].reset, None}
           /\ user'[u].invite => user[u].invite

LEMMA UsesMoved ==
    ASSUME TypeOK, NEW h \in Handlers, NEW c, call' = [call EXCEPT ![h] = c],
           UseOK(c, user', issued'),
           \A g \in Handlers : UseOK(call[g], user', issued')
    PROVE  UsesOK'
  <1>1. \A g \in Handlers : call'[g] = IF g = h THEN c ELSE call[g]
    BY DEF TypeOK
  <1> QED BY <1>1 DEF UsesOK

(* What the calls in progress use. *)
LEMMA TokenHere ==
    ASSUME IInv, NEW h \in Handlers, call[h].pc \in {"setPassword", "accept"}
    PROVE  call[h].token \in Tokens /\ call[h].of \in Users
  BY CallHere DEF CallOK

LEMMA ResetType ==
    ASSUME TypeOK, NEW u \in Users, Row(u)
    PROVE  user[u].reset \in Tokens \cup {None} /\ user[u].invite \in BOOLEAN
  BY DEF TypeOK, Row, User

LEMMA LinksStay ==
    ASSUME IInv, LinksOK, NoNewLink, issued \subseteq issued',
           NEW h \in Handlers, NEW c, call' = [call EXCEPT ![h] = c], UseOK(c, user', issued'),
           spent' \subseteq Tokens,
           \A t \in spent' \ spent :
               t \in issued /\ \A u \in Users : Row(u)' => ~HoldsLink(u, t)'
    PROVE  LinksOK'
  <1>0. TypeOK /\ Tokens \subseteq Users /\ None \notin Tokens
    BY DistinctAssumption DEF IInv, Users
  <1>1. TokensIssued'
    <2>1. spent' \subseteq issued'
      BY DEF LinksOK, TokensIssued
    <2>2. \A t \in Tokens : Row(t)' => t \in issued'
      BY <1>0 DEF NoNewLink, LinksOK, TokensIssued
    <2>3. \A u \in Users : Row(u)' /\ user'[u].reset # None => user'[u].reset \in issued'
      BY DEF NoNewLink, LinksOK, TokensIssued
    <2> QED BY <2>1, <2>2, <2>3 DEF TokensIssued, Row
  <1>2. OneHolder'
    <2> SUFFICES ASSUME NEW u \in Users, Row(u)', user'[u].reset # None
                 PROVE  /\ user'[user'[u].reset] = None
                        /\ \A v \in Users : Row(v)' /\ user'[v].reset = user'[u].reset => v = u
      BY DEF OneHolder, Row
    <2>1. Row(u) /\ user'[u].reset = user[u].reset /\ user[u].reset \in Tokens
      BY <1>0, ResetType DEF NoNewLink
    <2>2. ~Row(user[u].reset) /\ \A v \in Users : Row(v) /\ user[v].reset = user[u].reset => v = u
      BY <1>0, <2>1 DEF LinksOK, OneHolder
    <2>3. user'[user[u].reset] = None
      BY <1>0, <2>1, <2>2 DEF NoNewLink, Row
    <2> QED BY <2>1, <2>2, <2>3 DEF NoNewLink, Row
  <1>3. SpentIsGone'
    <2> SUFFICES ASSUME NEW t \in spent', NEW u \in Users, Row(u)'
                 PROVE  ~HoldsLink(u, t)'
      BY DEF SpentIsGone, Row, HoldsLink
    <2>1. CASE t \notin spent
      BY <2>1
    <2>2. CASE t \in spent
      <3>1. t \in Tokens /\ t # None
        BY <1>0
      <3>2. CASE u \notin Tokens /\ user'[u].reset = None
        BY <3>1, <3>2 DEF HoldsLink
      <3>3. CASE /\ Row(u) /\ user'[u].reset \in {user[u].reset, None}
                 /\ user'[u].invite => user[u].invite
        <4>1. ~HoldsLink(u, t)
          BY <2>2, <3>3 DEF LinksOK, SpentIsGone
        <4> QED BY <3>1, <3>3, <4>1 DEF HoldsLink
      <3> QED BY <3>2, <3>3 DEF NoNewLink
    <2> QED BY <2>1, <2>2
  <1>4. ASSUME NEW g \in Handlers PROVE UseOK(call[g], user', issued')
    <2>1. UseOK(call[g], user, issued)
      BY DEF LinksOK, UsesOK
    <2>2. call[g].pc \in {"setPassword", "accept"} => call[g].token \in Tokens
      BY TokenHere
    <2> QED BY <1>0, <2>1, <2>2 DEF UseOK, NoNewLink, Row
  <1>5. UsesOK'
    BY <1>0, <1>4, UsesMoved
  <1> QED BY <1>1, <1>2, <1>3, <1>5 DEF LinksOK

(* A token that was never issued becomes the link of a row. *)
LEMMA LinkIssued ==
    ASSUME IInv, LinksOK, NEW t \in Tokens, t \notin issued, issued' = issued \cup {t},
           UNCHANGED spent,
           NEW h \in Handlers, NEW c, call' = [call EXCEPT ![h] = c],
           c.pc \notin {"setPassword", "accept"},
           NEW u \in Users, NEW x, user' = [user EXCEPT ![u] = x],
           \/ Row(u) /\ x.reset = t /\ x.invite = user[u].invite
           \/ u = t /\ x.reset = None
    PROVE  LinksOK'
  <1>0. TypeOK /\ Tokens \subseteq Users /\ None \notin Tokens
    BY DistinctAssumption DEF IInv, Users
  <1>1. \A v \in Users : user'[v] = IF v = u THEN x ELSE user[v]
    BY <1>0 DEF TypeOK
  <1>2. ~Row(t) /\ \A v \in Users : Row(v) => user[v].reset # t
    BY <1>0 DEF LinksOK, TokensIssued
  <1>3. TokensIssued'
    BY <1>0, <1>1 DEF TokensIssued, LinksOK, Row
  <1>4. OneHolder'
    <2> SUFFICES ASSUME NEW w \in Users, user'[w] # None, user'[w].reset # None
                 PROVE  /\ user'[user'[w].reset] = None
                        /\ \A v \in Users : user'[v] # None /\ user'[v].reset = user'[w].reset
                               => v = w
      BY DEF OneHolder, Row
    <2>1. CASE w = u
      <3>1. Row(u) /\ user'[w].reset = t /\ u # t
        BY <1>1, <1>2, <2>1
      <3>2. user'[t] = None
        BY <1>0, <1>1, <1>2, <3>1 DEF Row
      <3>3. \A v \in Users : user'[v] # None /\ user'[v].reset = t => v = u
        BY <1>1, <1>2 DEF Row
      <3> QED BY <2>1, <3>1, <3>2, <3>3
    <2>2. CASE w # u
      <3>1. user'[w] = user[w] /\ Row(w) /\ user[w].reset \in Tokens
        BY <1>0, <1>1, <2>2, ResetType DEF Row
      <3>2. /\ ~Row(user[w].reset)
            /\ \A v \in Users : Row(v) /\ user[v].reset = user[w].reset => v = w
        BY <3>1 DEF LinksOK, OneHolder
      <3>3. user[w].reset # t
        BY <1>2, <3>1
      <3>4. user'[user[w].reset] = None
        BY <1>0, <1>1, <3>1, <3>2, <3>3 DEF Row
      <3>5. \A v \in Users : user'[v] # None /\ user'[v].reset = user[w].reset => v = w
        BY <1>1, <3>1, <3>2, <3>3 DEF Row
      <3> QED BY <3>1, <3>4, <3>5
    <2> QED BY <2>1, <2>2
  <1>5. SpentIsGone'
    <2> SUFFICES ASSUME NEW s \in spent, NEW w \in Users, user'[w] # None
                 PROVE  ~HoldsLink(w, s)'
      BY DEF SpentIsGone, Row, HoldsLink
    <2>1. s \in issued /\ s # t /\ s \in Tokens /\ s # None
      BY <1>0 DEF LinksOK, TokensIssued, TypeOK
    <2>2. Row(w) => ~HoldsLink(w, s)
      BY DEF LinksOK, SpentIsGone
    <2> QED BY <1>1, <2>1, <2>2 DEF HoldsLink, Row
  <1>6. ASSUME NEW g \in Handlers PROVE UseOK(call[g], user', issued')
    <2> DEFINE k == call[g].token
    <2>1. UseOK(call[g], user, issued)
      BY DEF LinksOK, UsesOK
    <2>2. CASE call[g].pc \in {"setPassword", "accept"}
      <3>1. k \in Tokens /\ k \in issued /\ k # t /\ k # None
        BY <1>0, <2>1, <2>2, TokenHere DEF UseOK
      <3>2. ASSUME NEW v \in Users, user'[v] # None, user'[v].reset = k
            PROVE  user[v] # None /\ user[v].reset = k
        BY <1>1, <3>1, <3>2
      <3>3. user[k] = None => user'[k] = None
        BY <1>0, <1>1, <3>1 DEF Row
      <3> HIDE DEF k
      <3>4. UseOK(call[g], user', issued')
        BY <2>1, <3>1, <3>2, <3>3 DEF UseOK, k
      <3> QED BY <3>4
    <2>3. CASE call[g].pc \notin {"setPassword", "accept"}
      BY <2>3 DEF UseOK
    <2> QED BY <2>2, <2>3
  <1>7. UsesOK'
    <2>1. UseOK(c, user', issued')
      BY DEF UseOK
    <2> QED BY <1>0, <1>6, <2>1, UsesMoved
  <1> QED BY <1>3, <1>4, <1>5, <1>7 DEF LinksOK

(* A step that touches no link and does not begin to use one. *)
LEMMA LinksUntouched ==
    ASSUME IInv, LinksOK, NEW h \in Handlers, NEW c, call' = [call EXCEPT ![h] = c],
           c.pc \notin {"setPassword", "accept"}, UNCHANGED <<user, spent>>,
           issued \subseteq issued'
    PROVE  LinksOK'
  <1>0. TypeOK
    BY DEF IInv
  <1>1. NoNewLink
    BY DEF NoNewLink, Row
  <1>2. UseOK(c, user', issued')
    BY DEF UseOK
  <1> QED BY <1>0, <1>1, <1>2, LinksStay DEF TypeOK

TeamPcs == {"countToDemote", "countToRemove", "writeRole", "deleteUser"}
LinkPcs == {"setPassword", "accept"}

(* Where a request that writes no account stands after its step. *)
LEMMA ElsewhereThanTeam ==
    ASSUME IInv, NEW h \in Handlers,
           \/ \E e \in Emails : signup(h, e) \/ login(h, e) \/ forgotPassword(h, e)
           \/ \E s \in sessions, e \in Emails, role \in UserRole : invite(h, s, e, role)
           \/ \E s \in sessions, new \in 1..MaxSlug : FindSlug(h, s, new)
           \/ TrySlug(h) \/ SaveSettings(h) \/ FindEmail(h) \/ \E o \in Orgs : InsertOrg(h, o)
           \/ TouchLogin(h) \/ Mail(h) \/ WriteSlug(h) \/ Crash(h)
    PROVE  /\ call' = [call EXCEPT ![h] = call'[h]]
           /\ call'[h].pc \notin LinkPcs \cup TeamPcs
  <1> USE DEF TeamPcs, LinkPcs
  <1> DEFINE Elsewhere == /\ call' = [call EXCEPT ![h] = call'[h]]
                          /\ call'[h].pc \notin LinkPcs \cup TeamPcs
  <1>0. NoCall \in Call /\ call[h] \in Call /\ NoCall.pc = "idle" /\ TypeOK
    BY NoCallOK, CallHere DEF NoCall, IInv
  <1>1. ASSUME NEW c, Start(h, c) \/ Go(h, c), c.pc \notin LinkPcs \cup TeamPcs
        PROVE  Elsewhere
    BY <1>0, <1>1 DEF Start, Go, TypeOK
  <1>2. Return(h) => Elsewhere
    BY <1>0, <1>1 DEF Return
  <1>3. ASSUME NEW e \in Emails, signup(h, e) \/ forgotPassword(h, e) PROVE Elsewhere
    <2>1. [NoCall EXCEPT !.pc = "trySlug", !.email = e, !.slug = 1].pc = "trySlug"
      BY <1>0 DEF Call
    <2>2. \A u : [NoCall EXCEPT !.pc = "writeReset", !.of = u].pc = "writeReset"
      BY <1>0 DEF Call
    <2> QED BY <1>1, <1>3, <2>1, <2>2 DEF signup, forgotPassword
  <1>4. ASSUME NEW e \in Emails, login(h, e) PROVE Elsewhere
    <2>1. PICK u \in Users : Start(h,
              [NoCall EXCEPT !.pc = "touchLogin", !.of = u, !.role = user[u].role])
      BY <1>4 DEF login
    <2> DEFINE c == [NoCall EXCEPT !.pc = "touchLogin", !.of = u, !.role = user[u].role]
    <2>2. c.pc = "touchLogin"
      BY <1>0 DEF Call
    <2> HIDE DEF c
    <2> QED BY <1>1, <2>1, <2>2 DEF c
  <1>5. ASSUME NEW s \in sessions, NEW e \in Emails, NEW role \in UserRole, invite(h, s, e, role)
        PROVE  Elsewhere
    <2> DEFINE c == [NoCall EXCEPT !.pc = "insertInvited", !.org = s.org, !.email = e,
                                   !.role = role]
    <2>1. c.pc = "insertInvited"
      BY <1>0 DEF Call
    <2> HIDE DEF c
    <2> QED BY <1>1, <1>5, <2>1 DEF invite, c
  <1>6. ASSUME NEW s \in sessions, NEW new \in 1..MaxSlug, FindSlug(h, s, new) PROVE Elsewhere
    <2> DEFINE c == [NoCall EXCEPT !.pc = "writeSlug", !.org = s.org, !.slug = new]
    <2>1. c.pc = "writeSlug"
      BY <1>0 DEF Call
    <2>2. Start(h, c)
      BY <1>6 DEF FindSlug
    <2> HIDE DEF c
    <2> QED BY <1>1, <2>1, <2>2
  <1>7. ASSUME TrySlug(h) \/ SaveSettings(h) \/ FindEmail(h) \/ \E o \in Orgs : InsertOrg(h, o)
        PROVE  Elsewhere
    <2>1. /\ [call[h] EXCEPT !.slug = @ + 1].pc = call[h].pc
          /\ [call[h] EXCEPT !.pc = "insertOrg"].pc = "insertOrg"
          /\ [call[h] EXCEPT !.pc = "findEmail"].pc = "findEmail"
          /\ [call[h] EXCEPT !.pc = "insertFounder"].pc = "insertFounder"
          /\ \A o : [call[h] EXCEPT !.pc = "saveSettings", !.org = o].pc = "saveSettings"
      BY <1>0 DEF Call
    <2>2. CASE TrySlug(h)
      BY <1>1, <2>1, <2>2 DEF TrySlug
    <2>3. CASE SaveSettings(h) \/ FindEmail(h)
      BY <1>1, <1>2, <2>1, <2>3 DEF SaveSettings, FindEmail
    <2>4. CASE \E o \in Orgs : InsertOrg(h, o)
      BY <1>1, <1>2, <2>1, <2>4 DEF InsertOrg
    <2> QED BY <1>7, <2>2, <2>3, <2>4
  <1>8. ASSUME TouchLogin(h) \/ Mail(h) \/ WriteSlug(h) \/ Crash(h) PROVE Elsewhere
    BY <1>2, <1>8 DEF TouchLogin, Mail, WriteSlug, Crash
  <1> QED BY <1>3, <1>4, <1>5, <1>6, <1>7, <1>8

LEMMA TeamElsewhere ==
    ASSUME IInv, NEW h \in Handlers,
           \/ \E s \in sessions, u \in Users, role \in UserRole : updateRole(h, s, u, role)
           \/ \E s \in sessions, u \in Users : remove(h, s, u)
           \/ CountToDemote(h) \/ CountToRemove(h)
    PROVE  call' = [call EXCEPT ![h] = call'[h]] /\ call'[h].pc \notin LinkPcs
  <1> USE DEF LinkPcs
  <1> DEFINE Elsewhere == /\ call' = [call EXCEPT ![h] = call'[h]]
                          /\ call'[h].pc \notin LinkPcs
  <1>0. NoCall \in Call /\ call[h] \in Call /\ NoCall.pc = "idle" /\ TypeOK
    BY NoCallOK, CallHere DEF NoCall, IInv
  <1>1. ASSUME NEW c, Start(h, c) \/ Go(h, c), c.pc \notin {"setPassword", "accept"}
        PROVE  Elsewhere
    BY <1>0, <1>1 DEF Start, Go, TypeOK
  <1>2. Return(h) => Elsewhere
    BY <1>0, <1>1 DEF Return
  <1>3. ASSUME NEW s \in sessions, NEW u \in Users, NEW role \in UserRole,
               updateRole(h, s, u, role)
        PROVE  Elsewhere
    <2> DEFINE pc == IF user[u].role = "admin" /\ role # "admin"
                     THEN "countToDemote" ELSE "writeRole"
               c == [NoCall EXCEPT !.pc = pc, !.org = s.org, !.of = u, !.role = role,
                                   !.seen = user[u].role]
    <2>1. c.pc = pc /\ pc \notin {"setPassword", "accept"}
      BY <1>0 DEF Call
    <2>2. Start(h, c)
      BY <1>3 DEF updateRole
    <2> HIDE DEF c
    <2> QED BY <1>1, <2>1, <2>2
  <1>4. ASSUME NEW s \in sessions, NEW u \in Users, remove(h, s, u) PROVE Elsewhere
    <2> DEFINE pc == IF user[u].role = "admin" THEN "countToRemove" ELSE "deleteUser"
               c == [NoCall EXCEPT !.pc = pc, !.org = s.org, !.of = u, !.seen = user[u].role]
    <2>1. c.pc = pc /\ pc \notin {"setPassword", "accept"}
      BY <1>0 DEF Call
    <2>2. Start(h, c)
      BY <1>4 DEF remove
    <2> HIDE DEF c
    <2> QED BY <1>1, <2>1, <2>2
  <1>5. ASSUME CountToDemote(h) \/ CountToRemove(h) PROVE Elsewhere
    <2>1. \A n : /\ [call[h] EXCEPT !.pc = "writeRole", !.count = n].pc = "writeRole"
                 /\ [call[h] EXCEPT !.pc = "deleteUser", !.count = n].pc = "deleteUser"
      BY <1>0 DEF Call
    <2> QED BY <1>1, <1>2, <1>5, <2>1 DEF CountToDemote, CountToRemove, Count
  <1> QED BY <1>3, <1>4, <1>5

LEMMA QuietForLinks ==
    ASSUME IInv, LinksOK, NEW h \in Handlers, UNCHANGED <<user, issued, spent>>,
           \/ \E e \in Emails : signup(h, e) \/ login(h, e) \/ forgotPassword(h, e)
           \/ \E s \in sessions, e \in Emails, role \in UserRole : invite(h, s, e, role)
           \/ \E s \in sessions, u \in Users, role \in UserRole : updateRole(h, s, u, role)
           \/ \E s \in sessions, u \in Users : remove(h, s, u)
           \/ \E s \in sessions, new \in 1..MaxSlug : FindSlug(h, s, new)
           \/ TrySlug(h) \/ SaveSettings(h) \/ FindEmail(h) \/ \E o \in Orgs : InsertOrg(h, o)
           \/ TouchLogin(h) \/ Mail(h) \/ CountToDemote(h) \/ CountToRemove(h) \/ WriteSlug(h)
           \/ Crash(h)
    PROVE  LinksOK'
  <1>1. call' = [call EXCEPT ![h] = call'[h]] /\ call'[h].pc \notin LinkPcs
    BY ElsewhereThanTeam, TeamElsewhere
  <1> QED BY <1>1, LinksUntouched DEF LinkPcs

LEMMA LinksAreWritten ==
    ASSUME IInv, LinksOK, NEW h \in Handlers, NEW t \in Tokens,
           WriteReset(h, t) \/ InsertInvited(h, t)
    PROVE  LinksOK'
  <1> DEFINE c == call[h]
             u == c.of
             n == [c EXCEPT !.pc = "mail", !.token = t]
  <1>0. c \in Call /\ CallOK(c, slug, settings) /\ TypeOK
    BY CallHere DEF IInv
  <1>1. n.pc = "mail" /\ NoCall.pc = "idle"
    BY <1>0 DEF Call, NoCall
  <1>2. t \notin issued /\ issued' = issued \cup {t} /\ UNCHANGED spent
    BY DEF WriteReset, InsertInvited
  <1>3. CASE Return(h) /\ UNCHANGED user
    BY <1>1, <1>2, <1>3, LinksUntouched DEF Return, Go
  <1>4. CASE WriteReset(h, t) /\ Row(u)
    <2> DEFINE x == [user[u] EXCEPT !.reset = t]
    <2>1. u \in Users
      BY <1>0, <1>4 DEF WriteReset, CallOK
    <2>2. user' = [user EXCEPT ![u] = x] /\ call' = [call EXCEPT ![h] = n]
      BY <1>0, <1>4, <2>1 DEF WriteReset, Go, TypeOK
    <2>3. x.reset = t /\ x.invite = user[u].invite
      BY <1>4, <2>1, RowHere DEF User
    <2> HIDE DEF x, n
    <2> QED BY <1>1, <1>2, <1>4, <2>1, <2>2, <2>3, LinkIssued
  <1>5. CASE InsertInvited(h, t) /\ user' # user
    <2> DEFINE x == [org |-> c.org, email |-> c.email, role |-> c.role, status |-> "invited",
                     password |-> FALSE, invite |-> TRUE, reset |-> None]
    <2>1. user' = [user EXCEPT ![t] = x] /\ call' = [call EXCEPT ![h] = n]
      BY <1>5 DEF InsertInvited, Go
    <2>2. x.reset = None /\ t \in Users
      BY DEF Users
    <2> HIDE DEF x, n
    <2> QED BY <1>1, <1>2, <2>1, <2>2, LinkIssued
  <1>6. CASE InsertInvited(h, t) /\ user' = user
    <2>1. c.pc = "insertInvited" /\ (Return(h) \/ Go(h, n))
      BY <1>6 DEF InsertInvited
    <2>2. CASE Go(h, n)
      <3> HIDE DEF n
      <3> QED BY <1>1, <1>2, <1>6, <2>2, LinksUntouched DEF Go
    <2> QED BY <1>3, <1>6, <2>1, <2>2
  <1>7. CASE WriteReset(h, t) /\ ~Row(u)
    BY <1>3, <1>7 DEF WriteReset
  <1> QED BY <1>4, <1>5, <1>6, <1>7

(* The requests with a link: the row it was found on is its only holder. *)
LEMMA LinksAreOpened ==
    ASSUME IInv, LinksOK, NEW h \in Handlers, NEW t \in Tokens,
           resetPassword(h, t) \/ acceptInvite(h, t)
    PROVE  LinksOK'
  <1>0. TypeOK /\ t \in Users /\ t # None /\ NoCall \in Call
    BY NoCallOK, DistinctAssumption DEF IInv, Users
  <1>1. UNCHANGED <<user, issued, spent>>
    BY DEF resetPassword, acceptInvite, Start, rowVars, linkVars
  <1>2. NoNewLink
    BY <1>1 DEF NoNewLink, Row
  <1>3. CASE resetPassword(h, t)
    <2>1. PICK u \in Users : /\ Row(u) /\ user[u].reset = t
              /\ Start(h, [NoCall EXCEPT !.pc = "setPassword", !.of = u, !.token = t])
      BY <1>3 DEF resetPassword
    <2> DEFINE c == [NoCall EXCEPT !.pc = "setPassword", !.of = u, !.token = t]
    <2>2. c.pc = "setPassword" /\ c.of = u /\ c.token = t
      BY <1>0 DEF Call
    <2>3. call' = [call EXCEPT ![h] = c]
      BY <2>1 DEF Start
    <2> HIDE DEF c
    <2>4. /\ t \in issued /\ user[t] = None
          /\ \A v \in Users : user[v] # None /\ user[v].reset = t => v = u
      BY <1>0, <2>1 DEF LinksOK, TokensIssued, OneHolder, Row
    <2>5. UseOK(c, user', issued')
      BY <1>1, <2>2, <2>4 DEF UseOK
    <2> QED BY <1>0, <1>1, <1>2, <2>3, <2>5, LinksStay DEF TypeOK
  <1>4. CASE acceptInvite(h, t)
    <2> DEFINE c == [NoCall EXCEPT !.pc = "accept", !.of = t, !.token = t]
    <2>1. c.pc = "accept" /\ c.of = t /\ c.token = t
      BY <1>0 DEF Call
    <2>2. call' = [call EXCEPT ![h] = c] /\ Row(t)
      BY <1>4 DEF acceptInvite, Start
    <2> HIDE DEF c
    <2>3. t \in issued /\ \A v \in Users : user[v] # None => user[v].reset # t
      BY <1>0, <2>2 DEF LinksOK, TokensIssued, OneHolder, Row
    <2>4. UseOK(c, user', issued')
      BY <1>1, <2>1, <2>3 DEF UseOK
    <2> QED BY <1>0, <1>1, <1>2, <2>2, <2>4, LinksStay DEF TypeOK
  <1> QED BY <1>3, <1>4

LEMMA RowsAreKept ==
    ASSUME IInv, LinksOK, TypeOK', NEW h \in Handlers, InsertFounder(h) \/ WriteRole(h) \/ DeleteUser(h)
    PROVE  LinksOK'
  <1> DEFINE c == call[h]
             u == c.of
  <1>0. c \in Call /\ CallOK(c, slug, settings) /\ TypeOK /\ Orgs \subseteq Users
    BY CallHere DEF IInv, Users
  <1>1. UNCHANGED <<issued, spent>> /\ call' = [call EXCEPT ![h] = NoCall] /\ NoCall.pc = "idle"
    BY DEF InsertFounder, WriteRole, DeleteUser, linkVars, Return, Go, NoCall
  <1>2. UseOK(NoCall, user', issued')
    BY <1>1 DEF UseOK
  <1>3. CASE InsertFounder(h)
    <2> DEFINE o == c.org
               x == [org |-> o, email |-> c.email, role |-> "admin", status |-> "active",
                     password |-> TRUE, invite |-> FALSE, reset |-> None]
    <2>1. o \in Orgs /\ o \notin Tokens
      BY <1>0, <1>3, DistinctAssumption DEF InsertFounder, CallOK
    <2>2. user' = [user EXCEPT ![o] = x]
      BY <1>3 DEF InsertFounder
    <2>3. x.reset = None
      OBVIOUS
    <2> HIDE DEF x, o
    <2>4. NoNewLink
      BY <1>0, <2>1, <2>2, <2>3 DEF NoNewLink, Row, TypeOK
    <2> QED BY <1>0, <1>1, <1>2, <2>4, LinksStay DEF TypeOK
  <1>4. CASE WriteRole(h)
    <2> DEFINE x == [user[u] EXCEPT !.role = c.role]
    <2>1. u \in Users
      BY <1>0, <1>4 DEF WriteRole, CallOK
    <2>2. Row(u) => x.reset = user[u].reset /\ x.invite = user[u].invite
      BY <2>1, RowHere DEF User
    <2>3. IF Row(u) THEN user' = [user EXCEPT ![u] = x] ELSE user' = user
      BY <1>0, <1>4, <2>1 DEF WriteRole, TypeOK
    <2> HIDE DEF x
    <2>4. NoNewLink
      BY <1>0, <2>1, <2>2, <2>3 DEF NoNewLink, Row, TypeOK
    <2> QED BY <1>0, <1>1, <1>2, <2>4, LinksStay DEF TypeOK
  <1>5. CASE DeleteUser(h)
    <2>1. NoNewLink
      BY <1>0, <1>5 DEF DeleteUser, NoNewLink, Row, TypeOK
    <2> QED BY <1>0, <1>1, <1>2, <2>1, LinksStay DEF TypeOK
  <1> QED BY <1>3, <1>4, <1>5

(* The link that has set a password is taken off the only row it was on. *)
LEMMA LinksAreSpent ==
    ASSUME IInv, LinksOK, NEW h \in Handlers, SetPassword(h) \/ Accept(h)
    PROVE  LinksOK'
  <1> DEFINE c == call[h]
             u == c.of
             t == c.token
  <1>0. TypeOK /\ None \notin Tokens
    BY DistinctAssumption DEF IInv
  <1>1. u \in Users /\ t \in Tokens
    BY TokenHere DEF SetPassword, Accept
  <1>2. UNCHANGED issued /\ call' = [call EXCEPT ![h] = NoCall] /\ NoCall.pc = "idle"
    BY DEF SetPassword, Accept, Return, Go, NoCall
  <1>3. UseOK(NoCall, user', issued') /\ UseOK(c, user, issued)
    BY <1>2 DEF UseOK, LinksOK, UsesOK
  <1>4. CASE ~Row(u)
    <2>1. UNCHANGED <<user, spent>>
      BY <1>4 DEF SetPassword, Accept
    <2> QED BY <1>2, <2>1, LinksUntouched
  <1>5. ASSUME Row(u), NEW x, user' = [user EXCEPT ![u] = x], spent' = spent \cup {t},
               t \in issued, x.reset \in {user[u].reset, None}, x.invite => user[u].invite,
               \A v \in Users : user'[v] # None => user'[v].reset # t /\ ~(v = t /\ user'[v].invite)
        PROVE  LinksOK'
    <2>1. NoNewLink
      BY <1>0, <1>1, <1>5 DEF NoNewLink, Row, TypeOK
    <2>2. ASSUME NEW s \in spent' \ spent, NEW v \in Users, Row(v)'
          PROVE  ~HoldsLink(v, s)'
      <3>1. s = t
        BY <1>5, <2>2
      <3> QED BY <1>5, <2>2, <3>1 DEF HoldsLink, Row
    <2>3. \A s \in spent' \ spent : s \in issued
      BY <1>5
    <2> QED BY <1>0, <1>1, <1>2, <1>3, <1>5, <2>1, <2>2, <2>3, LinksStay DEF TypeOK
  <1>6. CASE Row(u) /\ SetPassword(h)
    <2> DEFINE x == [user[u] EXCEPT !.password = TRUE, !.reset = None]
    <2>1. user' = [user EXCEPT ![u] = x] /\ spent' = spent \cup {t} /\ c.pc = "setPassword"
      BY <1>0, <1>1, <1>6 DEF SetPassword, TypeOK
    <2>2. x.reset = None /\ x.invite = user[u].invite
      BY <1>1, <1>6, RowHere DEF User
    <2>3. /\ t \in issued /\ user[t] = None
          /\ \A v \in Users : user[v] # None /\ user[v].reset = t => v = u
      BY <1>3, <2>1 DEF UseOK
    <2> HIDE DEF x
    <2>4. ASSUME NEW v \in Users, user'[v] # None PROVE user'[v].reset # t /\ ~(v = t /\ user'[v].invite)
      <3>1. u # t
        BY <1>6, <2>3 DEF Row
      <3>2. user'[v] = IF v = u THEN x ELSE user[v]
        BY <1>0, <2>1 DEF TypeOK
      <3>3. user'[v].reset # t
        BY <1>0, <1>1, <2>2, <2>3, <2>4, <3>2
      <3>4. v # t
        BY <2>3, <2>4, <3>1, <3>2
      <3> QED BY <3>3, <3>4
    <2> QED BY <1>5, <1>6, <2>1, <2>2, <2>3, <2>4
  <1>7. CASE Row(u) /\ Accept(h)
    <2> DEFINE x == [user[u] EXCEPT !.password = TRUE, !.status = "active", !.invite = FALSE]
    <2>1. user' = [user EXCEPT ![u] = x] /\ spent' = spent \cup {t} /\ c.pc = "accept"
      BY <1>0, <1>1, <1>7 DEF Accept, TypeOK
    <2>2. x.reset = user[u].reset /\ x.invite = FALSE
      BY <1>1, <1>7, RowHere DEF User
    <2>3. t \in issued /\ u = t /\ \A v \in Users : user[v] # None => user[v].reset # t
      BY <1>3, <2>1 DEF UseOK
    <2> HIDE DEF x
    <2>4. ASSUME NEW v \in Users, user'[v] # None PROVE user'[v].reset # t /\ ~(v = t /\ user'[v].invite)
      <3>1. user'[v] = IF v = u THEN x ELSE user[v]
        BY <1>0, <2>1 DEF TypeOK
      <3>2. user'[v].reset # t
        BY <1>7, <2>2, <2>3, <2>4, <3>1 DEF Row
      <3>3. v = t => user'[v].invite = FALSE
        BY <2>2, <2>3, <3>1
      <3> QED BY <3>2, <3>3
    <2> QED BY <1>5, <1>7, <2>1, <2>2, <2>3, <2>4
  <1> QED BY <1>4, <1>6, <1>7

LEMMA LinksInitially == Init => LinksOK
  <1> SUFFICES ASSUME Init PROVE LinksOK
    OBVIOUS
  <1>1. TokensIssued /\ OneHolder /\ SpentIsGone
    BY DistinctAssumption DEF Init, TokensIssued, OneHolder, SpentIsGone, Row, Users
  <1>2. NoCall.pc = "idle"
    BY DEF NoCall
  <1>3. UsesOK
    BY <1>2 DEF Init, UsesOK, UseOK
  <1> QED BY <1>1, <1>3 DEF LinksOK

LEMMA LinksEveryStep == IInv /\ LinksOK /\ [Next]_vars => LinksOK'
  <1> SUFFICES ASSUME IInv, LinksOK, [Next]_vars PROVE LinksOK'
    OBVIOUS
  <1>0. TypeOK'
    BY EveryStep DEF IInv
  <1>1. ASSUME NEW h \in Handlers, AuthRequest(h) PROVE LinksOK'
    <2>1. CASE \E t \in Tokens : resetPassword(h, t) \/ acceptInvite(h, t)
      BY <2>1, LinksAreOpened
    <2>2. CASE \E t \in Tokens : WriteReset(h, t) \/ InsertInvited(h, t)
      BY <2>2, LinksAreWritten
    <2>3. CASE SetPassword(h) \/ Accept(h)
      BY <2>3, LinksAreSpent
    <2>4. CASE InsertFounder(h)
      BY <1>0, <2>4, RowsAreKept
    <2>5. CASE \/ \E e \in Emails : signup(h, e) \/ login(h, e) \/ forgotPassword(h, e)
               \/ \E s \in sessions, e \in Emails, role \in UserRole : invite(h, s, e, role)
      <3>1. UNCHANGED <<user, issued, spent>>
        BY <2>5 DEF signup, login, forgotPassword, invite, Start, rowVars, linkVars
      <3> QED BY <2>5, <3>1, QuietForLinks
    <2>6. CASE \/ TrySlug(h) \/ SaveSettings(h) \/ FindEmail(h) \/ TouchLogin(h) \/ Mail(h)
               \/ \E o \in Orgs : InsertOrg(h, o)
      <3>1. UNCHANGED <<user, issued, spent>>
        BY <2>6 DEF TrySlug, SaveSettings, FindEmail, TouchLogin, Mail, InsertOrg, rowVars, linkVars
      <3> QED BY <2>6, <3>1, QuietForLinks
    <2> QED BY <1>1, <2>1, <2>2, <2>3, <2>4, <2>5, <2>6 DEF AuthRequest
  <1>2. ASSUME NEW h \in Handlers, UsersRequest(h) PROVE LinksOK'
    <2>1. CASE WriteRole(h) \/ DeleteUser(h)
      BY <1>0, <2>1, RowsAreKept
    <2>2. CASE \/ \E s \in sessions, u \in Users, role \in UserRole : updateRole(h, s, u, role)
               \/ \E s \in sessions, u \in Users : remove(h, s, u)
      <3>1. UNCHANGED <<user, issued, spent>>
        BY <2>2 DEF updateRole, remove, Start, rowVars, linkVars
      <3> QED BY <2>2, <3>1, QuietForLinks
    <2>3. CASE CountToDemote(h) \/ CountToRemove(h)
      <3>1. UNCHANGED <<user, issued, spent>>
        BY <2>3 DEF CountToDemote, CountToRemove, Count, rowVars, linkVars
      <3> QED BY <2>3, <3>1, QuietForLinks
    <2> QED BY <1>2, <2>1, <2>2, <2>3 DEF UsersRequest
  <1>3. ASSUME NEW h \in Handlers, OrganizationsRequest(h) \/ Crash(h) PROVE LinksOK'
    <2>1. UNCHANGED <<user, issued, spent>>
      BY <1>3 DEF OrganizationsRequest, FindSlug, WriteSlug, Crash, Start, rowVars, linkVars
    <2> QED BY <1>3, <2>1, QuietForLinks DEF OrganizationsRequest
  <1>4. CASE UNCHANGED vars
    BY <1>4 DEF vars, LinksOK, TokensIssued, OneHolder, SpentIsGone, UsesOK, Row, HoldsLink
  <1> QED BY <1>1, <1>2, <1>3, <1>4 DEF Next

(* However requests with the same link interleave, and whatever other links    *)
(* were asked for in the meantime, a link that has set a password is on no row *)
(* when a later request sets one with it (auth.service.ts:116, 165).           *)
THEOREM LinksWorkOnce == Spec => LinkWorksOnce
  <1>1. TypeOK /\ LinksOK /\ IInv /\ [Next]_vars =>
            [\A h \in Handlers :
                /\ call[h].pc \in {"setPassword", "accept"}
                /\ call'[h] = NoCall /\ Row(call[h].of)
                /\ call[h].token \in spent
                => ~HoldsLink(call[h].of, call[h].token)]_vars
    BY TokenHere DEF LinksOK, SpentIsGone
  <1>2. Spec => []LinksOK
    BY Initially, EveryStep, LinksInitially, LinksEveryStep, PTL DEF Spec
  <1> QED BY <1>1, <1>2, Invariance, TypeCorrect, PTL DEF Spec, LinkWorksOnce

--------------------------------------------------------------------------------
(* Admins.                                                                   *)

(* A founder stays in the organization founded. *)
FoundersOK == \A o \in Orgs : Row(o) => user[o].org = o

(* A request about a member of the team is about one of its own organization, *)
(* and takes an admin away only after it has counted another.                 *)
TargetOK(c, rows, tokens) ==
    /\ c.pc \in TeamPcs =>
          /\ c.of \in Orgs => c.org = c.of
          /\ c.of \in Tokens =>
                c.of \in tokens /\ (rows[c.of] # None => rows[c.of].org = c.org)
    /\ c.pc = "writeRole" /\ c.seen = "admin" /\ c.role # "admin" => c.count > 1
    /\ c.pc = "deleteUser" /\ c.seen = "admin" => c.count > 1
TargetsOK == \A h \in Handlers : TargetOK(call[h], user, issued)

AdminsOK == FoundersOK /\ TargetsOK

(* No row moves to another organization; a new one has an identifier of its own. *)
RowsKeepOrg ==
    \A u \in Users : Row(u)' =>
        \/ Row(u) /\ user'[u].org = user[u].org
        \/ u \in Orgs /\ user'[u].org = u
        \/ u \in Tokens /\ u \notin issued

LEMMA TargetsMoved ==
    ASSUME IInv, AdminsOK, RowsKeepOrg, issued \subseteq issued',
           NEW h \in Handlers, NEW c, call' = [call EXCEPT ![h] = c], TargetOK(c, user', issued')
    PROVE  AdminsOK'
  <1>0. TypeOK /\ Orgs \subseteq Users /\ Tokens \subseteq Users /\ Orgs \cap Tokens = {}
    BY DistinctAssumption DEF IInv, Users
  <1>1. FoundersOK'
    BY <1>0 DEF FoundersOK, AdminsOK, RowsKeepOrg, Row
  <1>2. ASSUME NEW g \in Handlers PROVE TargetOK(call[g], user', issued')
    <2>1. TargetOK(call[g], user, issued)
      BY DEF AdminsOK, TargetsOK
    <2> QED BY <1>0, <2>1 DEF TargetOK, RowsKeepOrg, Row
  <1>3. \A g \in Handlers : call'[g] = IF g = h THEN c ELSE call[g]
    BY <1>0 DEF TypeOK
  <1>4. TargetsOK'
    BY <1>2, <1>3 DEF TargetsOK
  <1> QED BY <1>1, <1>4 DEF AdminsOK

(* The request that ends, or goes on, is not about a member of the team. *)
LEMMA AdminsElsewhere ==
    ASSUME IInv, AdminsOK, RowsKeepOrg, issued \subseteq issued',
           NEW h \in Handlers, NEW c, call' = [call EXCEPT ![h] = c], c.pc \notin TeamPcs
    PROVE  AdminsOK'
  <1>1. TargetOK(c, user', issued')
    BY DEF TargetOK, TeamPcs
  <1> QED BY <1>1, TargetsMoved

LEMMA TeamRequestsHaveTargets ==
    ASSUME IInv, LinksOK, AdminsOK, NEW h \in Handlers,
           \/ \E s \in sessions, u \in Users, role \in UserRole : updateRole(h, s, u, role)
           \/ \E s \in sessions, u \in Users : remove(h, s, u)
           \/ CountToDemote(h) \/ CountToRemove(h)
    PROVE  AdminsOK'
  <1>0. /\ NoCall \in Call /\ NoCall.pc = "idle" /\ call[h] \in Call /\ TypeOK
        /\ TargetOK(call[h], user, issued)
    BY NoCallOK, CallHere DEF NoCall, IInv, AdminsOK, TargetsOK
  <1>1. UNCHANGED <<user, issued>>
    BY DEF updateRole, remove, CountToDemote, CountToRemove, Count, Start, rowVars, linkVars
  <1>2. RowsKeepOrg
    BY <1>1 DEF RowsKeepOrg, Row
  <1>3. ASSUME NEW u \in Users, NEW s \in sessions, InOrg(u, s.org)
        PROVE  /\ u \in Orgs => s.org = u
               /\ u \in Tokens => u \in issued /\ user[u].org = s.org
    BY <1>3 DEF AdminsOK, FoundersOK, InOrg, LinksOK, TokensIssued
  <1>4. ASSUME NEW s \in sessions, NEW u \in Users, NEW role \in UserRole,
               updateRole(h, s, u, role)
        PROVE  AdminsOK'
    <2> DEFINE pc == IF user[u].role = "admin" /\ role # "admin"
                     THEN "countToDemote" ELSE "writeRole"
               c == [NoCall EXCEPT !.pc = pc, !.org = s.org, !.of = u, !.role = role,
                                   !.seen = user[u].role]
    <2>1. c.pc = pc /\ c.org = s.org /\ c.of = u /\ c.role = role /\ c.seen = user[u].role
      BY <1>0 DEF Call
    <2>2. call' = [call EXCEPT ![h] = c] /\ InOrg(u, s.org)
      BY <1>4 DEF updateRole, Start
    <2> HIDE DEF c
    <2>3. TargetOK(c, user', issued')
      BY <1>1, <1>3, <2>1, <2>2 DEF TargetOK
    <2> QED BY <1>1, <1>2, <2>2, <2>3, TargetsMoved
  <1>5. ASSUME NEW s \in sessions, NEW u \in Users, remove(h, s, u) PROVE AdminsOK'
    <2> DEFINE pc == IF user[u].role = "admin" THEN "countToRemove" ELSE "deleteUser"
               c == [NoCall EXCEPT !.pc = pc, !.org = s.org, !.of = u, !.seen = user[u].role]
    <2>1. c.pc = pc /\ c.org = s.org /\ c.of = u /\ c.seen = user[u].role
      BY <1>0 DEF Call
    <2>2. call' = [call EXCEPT ![h] = c] /\ InOrg(u, s.org)
      BY <1>5 DEF remove, Start
    <2> HIDE DEF c
    <2>3. TargetOK(c, user', issued')
      BY <1>1, <1>3, <2>1, <2>2 DEF TargetOK
    <2> QED BY <1>1, <1>2, <2>2, <2>3, TargetsMoved
  <1>6. ASSUME NEW pc \in TeamPcs, NEW next \in TeamPcs, Count(h, pc, next) PROVE AdminsOK'
    <2> DEFINE a == Cardinality(Admins(call[h].org))
               c == [call[h] EXCEPT !.pc = next, !.count = a]
    <2>1. CASE Return(h)
      BY <1>0, <1>1, <1>2, <2>1, AdminsElsewhere DEF Return, Go, TeamPcs
    <2>2. CASE Go(h, c) /\ ~(a <= 1)
      <3>1. a \in Nat
        <4>1. IsFiniteSet(Users)
          BY FiniteAssumption, FS_Union DEF Users
        <4>2. IsFiniteSet(Admins(call[h].org))
          BY <4>1, FS_Subset DEF Admins
        <4> QED BY <4>2, FS_CardinalityType
      <3> HIDE DEF a
      <3>2. c.pc = next /\ c.org = call[h].org /\ c.of = call[h].of /\ c.count = a
        BY <1>0 DEF Call
      <3>3. a > 1 /\ call[h].pc \in TeamPcs
        BY <1>6, <2>2, <3>1 DEF Count
      <3>4. call' = [call EXCEPT ![h] = c]
        BY <2>2 DEF Go
      <3> HIDE DEF c
      <3>5. TargetOK(c, user', issued')
        BY <1>0, <1>1, <3>2, <3>3 DEF TargetOK
      <3> QED BY <1>1, <1>2, <3>4, <3>5, TargetsMoved
    <2> QED BY <1>6, <2>1, <2>2 DEF Count
  <1>7. CASE CountToDemote(h) \/ CountToRemove(h)
    BY <1>6, <1>7 DEF CountToDemote, CountToRemove, TeamPcs
  <1> QED BY <1>4, <1>5, <1>7

LEMMA AccountsKeepOrg ==
    ASSUME IInv, NEW h \in Handlers,
           \/ InsertFounder(h) \/ SetPassword(h) \/ Accept(h) \/ WriteRole(h) \/ DeleteUser(h)
           \/ \E t \in Tokens : WriteReset(h, t) \/ InsertInvited(h, t)
    PROVE  /\ RowsKeepOrg
           /\ issued \subseteq issued'
           /\ call' = [call EXCEPT ![h] = call'[h]] /\ call'[h].pc \notin TeamPcs
  <1> DEFINE c == call[h]
             u == c.of
  <1>0. /\ c \in Call /\ CallOK(c, slug, settings) /\ TypeOK
        /\ NoCall \in Call /\ NoCall.pc = "idle" /\ "idle" \notin TeamPcs /\ "mail" \notin TeamPcs
    BY CallHere, NoCallOK DEF IInv, NoCall, TeamPcs
  <1>1. ASSUME NEW n, Go(h, n), n.pc \notin TeamPcs
        PROVE  call' = [call EXCEPT ![h] = call'[h]] /\ call'[h].pc \notin TeamPcs
    BY <1>0, <1>1 DEF Go, TypeOK
  <1>2. \A t : [c EXCEPT !.pc = "mail", !.token = t].pc = "mail"
    BY <1>0 DEF Call
  <1>3. \/ call' = [call EXCEPT ![h] = call'[h]] /\ call'[h].pc \notin TeamPcs
        \/ \E t \in Tokens : Go(h, [c EXCEPT !.pc = "mail", !.token = t])
    BY <1>0, <1>1 DEF InsertFounder, SetPassword, Accept, WriteRole, DeleteUser, WriteReset,
       InsertInvited, Return
  <1>4. call' = [call EXCEPT ![h] = call'[h]] /\ call'[h].pc \notin TeamPcs
    BY <1>0, <1>1, <1>2, <1>3
  <1>5. issued \subseteq issued'
    BY DEF InsertFounder, SetPassword, Accept, WriteRole, DeleteUser, WriteReset,
       InsertInvited, linkVars
  <1>6. ASSUME NEW x, user[u] \in User => x.org = user[u].org, u \in Users,
               user' = IF Row(u) THEN [user EXCEPT ![u] = x] ELSE user
        PROVE  RowsKeepOrg
    BY <1>0, <1>6 DEF RowsKeepOrg, Row, TypeOK
  <1>7. CASE InsertFounder(h)
    <2> DEFINE o == c.org
               x == [org |-> o, email |-> c.email, role |-> "admin", status |-> "active",
                     password |-> TRUE, invite |-> FALSE, reset |-> None]
    <2>1. o \in Orgs /\ user' = [user EXCEPT ![o] = x]
      BY <1>0, <1>7 DEF InsertFounder, CallOK
    <2>2. x.org = o
      OBVIOUS
    <2> HIDE DEF x, o
    <2> QED BY <1>0, <1>4, <1>5, <2>1, <2>2 DEF RowsKeepOrg, Row, TypeOK
  <1>8. CASE SetPassword(h)
    <2> DEFINE x == [user[u] EXCEPT !.password = TRUE, !.reset = None]
    <2>1. user[u] \in User => x.org = user[u].org
      BY DEF User
    <2>2. u \in Users /\ user' = IF Row(u) THEN [user EXCEPT ![u] = x] ELSE user
      BY <1>0, <1>8 DEF SetPassword, CallOK, TypeOK
    <2> HIDE DEF x
    <2> QED BY <1>4, <1>5, <1>6, <2>1, <2>2
  <1>9. CASE Accept(h)
    <2> DEFINE x == [user[u] EXCEPT !.password = TRUE, !.status = "active", !.invite = FALSE]
    <2>1. user[u] \in User => x.org = user[u].org
      BY DEF User
    <2>2. u \in Users /\ user' = IF Row(u) THEN [user EXCEPT ![u] = x] ELSE user
      BY <1>0, <1>9 DEF Accept, CallOK, TypeOK
    <2> HIDE DEF x
    <2> QED BY <1>4, <1>5, <1>6, <2>1, <2>2
  <1>10. CASE WriteRole(h)
    <2> DEFINE x == [user[u] EXCEPT !.role = c.role]
    <2>1. user[u] \in User => x.org = user[u].org
      BY DEF User
    <2>2. u \in Users /\ user' = IF Row(u) THEN [user EXCEPT ![u] = x] ELSE user
      BY <1>0, <1>10 DEF WriteRole, CallOK, TypeOK
    <2> HIDE DEF x
    <2> QED BY <1>4, <1>5, <1>6, <2>1, <2>2
  <1>11. CASE DeleteUser(h)
    <2>1. RowsKeepOrg
      BY <1>0, <1>11 DEF DeleteUser, RowsKeepOrg, Row, TypeOK
    <2> QED BY <1>4, <1>5, <2>1
  <1>12. ASSUME NEW t \in Tokens, WriteReset(h, t) PROVE RowsKeepOrg
    <2> DEFINE x == [user[u] EXCEPT !.reset = t]
    <2>1. user[u] \in User => x.org = user[u].org
      BY DEF User
    <2>2. u \in Users /\ user' = IF Row(u) THEN [user EXCEPT ![u] = x] ELSE user
      BY <1>0, <1>12 DEF WriteReset, CallOK, TypeOK
    <2> HIDE DEF x
    <2> QED BY <1>6, <2>1, <2>2
  <1>13. ASSUME NEW t \in Tokens, InsertInvited(h, t) PROVE RowsKeepOrg
    <2>1. t \notin issued
      BY <1>13 DEF InsertInvited
    <2>2. \A v \in Users : v = t \/ user'[v] = user[v]
      BY <1>0, <1>13 DEF InsertInvited, TypeOK
    <2> QED BY <2>1, <2>2 DEF RowsKeepOrg, Row
  <1> QED BY <1>4, <1>5, <1>7, <1>8, <1>9, <1>10, <1>11, <1>12, <1>13

LEMMA AdminsInitially == Init => AdminsOK
  <1> SUFFICES ASSUME Init PROVE AdminsOK
    OBVIOUS
  <1>1. FoundersOK
    BY DEF Init, FoundersOK, Row, Users
  <1>2. NoCall.pc = "idle"
    BY DEF NoCall
  <1>3. TargetsOK
    BY <1>2 DEF Init, TargetsOK, TargetOK, TeamPcs
  <1> QED BY <1>1, <1>3 DEF AdminsOK

LEMMA AdminsEveryStep == IInv /\ LinksOK /\ AdminsOK /\ [Next]_vars => AdminsOK'
  <1> SUFFICES ASSUME IInv, LinksOK, AdminsOK, [Next]_vars PROVE AdminsOK'
    OBVIOUS
  <1>0. UNCHANGED user => RowsKeepOrg
    BY DEF RowsKeepOrg, Row
  <1>1. ASSUME NEW h \in Handlers,
               \/ \E e \in Emails : signup(h, e) \/ login(h, e) \/ forgotPassword(h, e)
               \/ \E s \in sessions, e \in Emails, role \in UserRole : invite(h, s, e, role)
               \/ OrganizationsRequest(h)
               \/ TrySlug(h) \/ SaveSettings(h) \/ FindEmail(h) \/ \E o \in Orgs : InsertOrg(h, o)
               \/ TouchLogin(h) \/ Mail(h) \/ Crash(h)
        PROVE  AdminsOK'
    <2>1. UNCHANGED <<user, issued>>
      BY <1>1 DEF signup, login, forgotPassword, invite, OrganizationsRequest, FindSlug, WriteSlug,
         TrySlug, SaveSettings, FindEmail, InsertOrg, TouchLogin, Mail, Crash, Start, rowVars,
         linkVars
    <2>2. call' = [call EXCEPT ![h] = call'[h]] /\ call'[h].pc \notin TeamPcs
      BY <1>1, ElsewhereThanTeam DEF OrganizationsRequest
    <2> QED BY <1>0, <2>1, <2>2, AdminsElsewhere
  <1>2. ASSUME NEW h \in Handlers, NEW t \in Tokens, resetPassword(h, t) \/ acceptInvite(h, t)
        PROVE  AdminsOK'
    <2>1. UNCHANGED <<user, issued>>
      BY <1>2 DEF resetPassword, acceptInvite, Start, rowVars, linkVars
    <2>2. NoCall \in Call
      BY NoCallOK
    <2>3. CASE resetPassword(h, t)
      <3>1. PICK u \in Users :
                Start(h, [NoCall EXCEPT !.pc = "setPassword", !.of = u, !.token = t])
        BY <2>3 DEF resetPassword
      <3> DEFINE c == [NoCall EXCEPT !.pc = "setPassword", !.of = u, !.token = t]
      <3>2. c.pc = "setPassword" /\ call' = [call EXCEPT ![h] = c]
        BY <2>2, <3>1 DEF Start, Call
      <3> HIDE DEF c
      <3> QED BY <1>0, <2>1, <3>2, AdminsElsewhere DEF TeamPcs
    <2>4. CASE acceptInvite(h, t)
      <3> DEFINE c == [NoCall EXCEPT !.pc = "accept", !.of = t, !.token = t]
      <3>1. c.pc = "accept" /\ call' = [call EXCEPT ![h] = c]
        BY <2>2, <2>4 DEF acceptInvite, Start, Call
      <3> HIDE DEF c
      <3> QED BY <1>0, <2>1, <3>1, AdminsElsewhere DEF TeamPcs
    <2> QED BY <1>2, <2>3, <2>4
  <1>3. ASSUME NEW h \in Handlers,
               \/ InsertFounder(h) \/ SetPassword(h) \/ Accept(h) \/ WriteRole(h) \/ DeleteUser(h)
               \/ \E t \in Tokens : WriteReset(h, t) \/ InsertInvited(h, t)
        PROVE  AdminsOK'
    BY <1>3, AccountsKeepOrg, AdminsElsewhere
  <1>4. ASSUME NEW h \in Handlers, UsersRequest(h) PROVE AdminsOK'
    BY <1>3, <1>4, TeamRequestsHaveTargets DEF UsersRequest
  <1>5. ASSUME NEW h \in Handlers, AuthRequest(h) PROVE AdminsOK'
    BY <1>1, <1>2, <1>3, <1>5 DEF AuthRequest
  <1>6. CASE UNCHANGED vars
    BY <1>6 DEF vars, AdminsOK, FoundersOK, TargetsOK, Row
  <1> QED BY <1>1, <1>4, <1>5, <1>6 DEF Next

(* No account leaves its organization or stops being an admin. *)
AdminsStay ==
    \A o \in Orgs, u \in Users : u \in Admins(o) => u \in Admins(o)'

LEMMA OthersLeaveAdmins ==
    ASSUME IInv, LinksOK, AdminsOK, NEW h \in Handlers,
           AuthRequest(h) \/ OrganizationsRequest(h) \/ Crash(h)
    PROVE  AdminsStay
  <1> DEFINE c == call[h]
             u == c.of
  <1>0. c \in Call /\ CallOK(c, slug, settings) /\ TypeOK
    BY CallHere DEF IInv
  <1>1. ASSUME UNCHANGED user PROVE AdminsStay
    BY <1>1 DEF AdminsStay, Admins, InOrg, Row
  <1>2. ASSUME NEW v \in Users, NEW x, user' = [user EXCEPT ![v] = x],
               Row(v) /\ user[v].role = "admin" =>
                   x # None /\ x.org = user[v].org /\ x.role = "admin"
        PROVE  AdminsStay
    BY <1>0, <1>2 DEF AdminsStay, Admins, InOrg, Row, TypeOK
  <1>3. ASSUME Row(u), u \in Users, NEW x \in User,
               user' = [user EXCEPT ![u] = x] \/ user' = user,
               x.org = user[u].org, x.role = user[u].role
        PROVE  AdminsStay
    BY <1>1, <1>2, <1>3, NoRowAssumption
  <1>4. CASE InsertFounder(h)
    <2> DEFINE o == c.org
               x == [org |-> o, email |-> c.email, role |-> "admin", status |-> "active",
                     password |-> TRUE, invite |-> FALSE, reset |-> None]
    <2>1. o \in Orgs /\ o \in Users /\ c.email \in Emails /\ user' = [user EXCEPT ![o] = x]
      BY <1>0, <1>4 DEF InsertFounder, CallOK, Users
    <2>2. x \in User /\ x.org = o /\ x.role = "admin"
      BY <2>1 DEF User, UserRole, UserStatus
    <2>3. Row(o) => user[o].org = o
      BY <2>1 DEF AdminsOK, FoundersOK
    <2> HIDE DEF x, o
    <2> QED BY <1>2, <2>1, <2>2, <2>3, NoRowAssumption
  <1>5. CASE SetPassword(h) \/ Accept(h)
    <2>1. u \in Users
      BY <1>5, TokenHere DEF SetPassword, Accept
    <2>2. CASE ~Row(u)
      BY <1>1, <1>5, <2>2 DEF SetPassword, Accept
    <2>3. CASE Row(u) /\ SetPassword(h)
      <3> DEFINE x == [user[u] EXCEPT !.password = TRUE, !.reset = None]
      <3>0. user[u] \in User
        BY <2>1, <2>3, RowHere
      <3>1. x \in User /\ x.org = user[u].org /\ x.role = user[u].role
        <4>1. x \in User
          BY <3>0, ColumnsChange
        <4>2. x.org = user[u].org /\ x.role = user[u].role
          BY <3>0 DEF User
        <4> QED BY <4>1, <4>2
      <3>2. user' = [user EXCEPT ![u] = x]
        BY <1>0, <2>1, <2>3 DEF SetPassword, TypeOK
      <3> HIDE DEF x
      <3> QED BY <1>3, <2>1, <2>3, <3>1, <3>2
    <2>4. CASE Row(u) /\ Accept(h)
      <3> DEFINE x == [user[u] EXCEPT !.password = TRUE, !.status = "active", !.invite = FALSE]
      <3>0. user[u] \in User
        BY <2>1, <2>4, RowHere
      <3>1. x \in User /\ x.org = user[u].org /\ x.role = user[u].role
        <4>1. x \in User
          BY <3>0, ColumnsChange
        <4>2. x.org = user[u].org /\ x.role = user[u].role
          BY <3>0 DEF User
        <4> QED BY <4>1, <4>2
      <3>2. user' = [user EXCEPT ![u] = x]
        BY <1>0, <2>1, <2>4 DEF Accept, TypeOK
      <3> HIDE DEF x
      <3> QED BY <1>3, <2>1, <2>4, <3>1, <3>2
    <2> QED BY <1>5, <2>2, <2>3, <2>4
  <1>6. ASSUME NEW t \in Tokens, WriteReset(h, t) PROVE AdminsStay
    <2>1. u \in Users
      BY <1>0, <1>6 DEF WriteReset, CallOK
    <2>2. CASE ~Row(u)
      BY <1>1, <1>6, <2>2 DEF WriteReset
    <2>3. CASE Row(u)
      <3> DEFINE x == [user[u] EXCEPT !.reset = t]
      <3>0. user[u] \in User
        BY <2>1, <2>3, RowHere
      <3>1. x \in User /\ x.org = user[u].org /\ x.role = user[u].role
        <4>1. x \in User
          BY <3>0, ColumnsChange
        <4>2. x.org = user[u].org /\ x.role = user[u].role
          BY <3>0 DEF User
        <4> QED BY <4>1, <4>2
      <3>2. user' = [user EXCEPT ![u] = x]
        BY <1>0, <1>6, <2>1, <2>3 DEF WriteReset, TypeOK
      <3> HIDE DEF x
      <3> QED BY <1>3, <2>1, <2>3, <3>1, <3>2
    <2> QED BY <2>2, <2>3
  <1>7. ASSUME NEW t \in Tokens, InsertInvited(h, t) PROVE AdminsStay
    <2>1. ~Row(t) /\ t \in Users
      BY <1>7 DEF InsertInvited, LinksOK, TokensIssued, Users
    <2>2. \A v \in Users : v = t \/ user'[v] = user[v]
      BY <1>0, <1>7 DEF InsertInvited, TypeOK
    <2> QED BY <2>1, <2>2 DEF AdminsStay, Admins, InOrg, Row
  <1>8. ASSUME \/ \E e \in Emails : signup(h, e) \/ login(h, e) \/ forgotPassword(h, e)
               \/ \E t \in Tokens : resetPassword(h, t) \/ acceptInvite(h, t)
               \/ \E s \in sessions, e \in Emails, role \in UserRole : invite(h, s, e, role)
               \/ TrySlug(h) \/ SaveSettings(h) \/ FindEmail(h) \/ \E o \in Orgs : InsertOrg(h, o)
               \/ TouchLogin(h) \/ Mail(h) \/ Crash(h) \/ OrganizationsRequest(h)
        PROVE  AdminsStay
    <2>1. UNCHANGED user
      BY <1>8 DEF signup, login, forgotPassword, invite, OrganizationsRequest, FindSlug, WriteSlug,
         TrySlug, SaveSettings, FindEmail, InsertOrg, TouchLogin, Mail, Crash, Start, rowVars,
         resetPassword, acceptInvite
    <2> QED BY <1>1, <2>1
  <1> QED BY <1>4, <1>5, <1>6, <1>7, <1>8 DEF AuthRequest

(* The only admin goes by a write whose request had counted another, or had    *)
(* read another role.                                                          *)
Overtaken(o) ==
    \E h \in Handlers :
       /\ call[h].pc \in {"writeRole", "deleteUser"} /\ call'[h] = NoCall
       /\ call[h].org = o /\ call[h].of \in Admins(o)
       /\ \/ call[h].seen # "admin"
          \/ call[h].count # Cardinality(Admins(o))

LEMMA LastAdminGoes ==
    ASSUME IInv, LinksOK, AdminsOK, NEW h \in Handlers, WriteRole(h) \/ DeleteUser(h),
           NEW o \in Orgs, Admins(o) # {}, Admins(o)' = {}
    PROVE  Overtaken(o)
  <1> DEFINE c == call[h]
             u == c.of
  <1>0. c \in Call /\ CallOK(c, slug, settings) /\ TypeOK /\ TargetOK(c, user, issued)
    BY CallHere DEF IInv, AdminsOK, TargetsOK
  <1>1. u \in Users /\ c.pc \in {"writeRole", "deleteUser"} /\ call'[h] = NoCall
    BY <1>0 DEF WriteRole, DeleteUser, CallOK, Return, Go, TypeOK
  <1>2. \A v \in Users : v # u => user'[v] = user[v]
    BY <1>0, <1>1 DEF WriteRole, DeleteUser, TypeOK
  <1>3. Admins(o) = {u}
    <2>1. \A v \in Admins(o) : v = u
      BY <1>2 DEF Admins, InOrg, Row
    <2> QED BY <2>1
  <1>4. Cardinality(Admins(o)) = 1
    BY <1>3, FS_Singleton
  <1>5. Row(u) /\ user[u].org = o /\ user[u].role = "admin" /\ user[u] \in User
    <2>1. u \in Admins(o)
      BY <1>3
    <2> QED BY <1>1, <2>1, RowHere DEF Admins, InOrg
  <1>6. c.org = o
    BY <1>0, <1>1, <1>5 DEF TargetOK, TeamPcs, Users, AdminsOK, FoundersOK, Row
  <1>7. c.pc = "writeRole" => c.role # "admin"
    <2> SUFFICES ASSUME c.pc = "writeRole", c.role = "admin" PROVE FALSE
      OBVIOUS
    <2> DEFINE x == [user[u] EXCEPT !.role = c.role]
    <2>1. x \in User /\ x.org = o /\ x.role = "admin"
      BY <1>1, <1>5, ColumnsChange DEF User, UserRole
    <2>2. user' = [user EXCEPT ![u] = x]
      BY <1>0, <1>1, <1>5 DEF WriteRole, DeleteUser, TypeOK
    <2> HIDE DEF x
    <2>3. user'[u] = x /\ x # None
      BY <1>0, <1>1, <2>1, <2>2, NoRowAssumption DEF TypeOK
    <2> QED BY <1>1, <2>1, <2>3 DEF Admins, InOrg, Row
  <1>8. c.seen = "admin" => c.count > 1
    BY <1>0, <1>1, <1>7 DEF TargetOK
  <1>9. c.seen # "admin" \/ c.count # Cardinality(Admins(o))
    BY <1>4, <1>8
  <1> QED BY <1>1, <1>3, <1>6, <1>9 DEF Overtaken

(* Whatever requests on the team cross, an organization loses its last admin   *)
(* only by a change of role or a removal that was overtaken: the role or the   *)
(* number of admins it had read is no longer so (users.service.ts:85).         *)
THEOREM LastAdminGoesOvertaken == Spec => LastAdminStays
  <1> DEFINE Kept == \A o \in Orgs : Admins(o) # {} /\ Admins(o)' = {} => Overtaken(o)
  <1>1. IInv /\ LinksOK /\ AdminsOK /\ [Next]_vars => [Kept]_vars
    <2> SUFFICES ASSUME IInv, LinksOK, AdminsOK, NEW h \in Handlers,
                        AuthRequest(h) \/ UsersRequest(h) \/ OrganizationsRequest(h) \/ Crash(h),
                        NEW o \in Orgs, Admins(o) # {}, Admins(o)' = {}
                 PROVE  Overtaken(o)
      BY DEF Next
    <2>1. AdminsStay => FALSE
      BY DEF AdminsStay, Admins
    <2>2. CASE AuthRequest(h) \/ OrganizationsRequest(h) \/ Crash(h)
      BY <2>1, <2>2, OthersLeaveAdmins
    <2>3. CASE UsersRequest(h) /\ ~WriteRole(h) /\ ~DeleteUser(h)
      <3>1. UNCHANGED user
        BY <2>3 DEF UsersRequest, updateRole, remove, CountToDemote, CountToRemove, Count, Start,
           rowVars
      <3>2. AdminsStay
        BY <3>1 DEF AdminsStay, Admins, InOrg, Row
      <3> QED BY <2>1, <3>2
    <2>4. CASE WriteRole(h) \/ DeleteUser(h)
      BY <2>4, LastAdminGoes
    <2> QED BY <2>2, <2>3, <2>4
  <1>2. Spec => []AdminsOK
    BY Initially, EveryStep, LinksInitially, LinksEveryStep, AdminsInitially, AdminsEveryStep,
       PTL DEF Spec
  <1>3. Spec => []LinksOK
    BY Initially, EveryStep, LinksInitially, LinksEveryStep, PTL DEF Spec
  <1>4. Spec => [][Kept]_vars
    BY <1>1, <1>2, <1>3, Invariance, PTL DEF Spec
  <1> QED BY <1>4 DEF LastAdminStays, Overtaken

================================================================================
