----------------------------------- MODULE Team -----------------------------------
(***************************************************************************)
(* Organizations, their users and the links that let them in: AuthService, *)
(* UsersService, OrganizationsService and the guards of their routes.      *)
(*                                                                         *)
(* A founder is identified by the organization of the signup, an invited   *)
(* user by the invitation's token.  Signed tokens (sessions) carry the     *)
(* role they were signed with and are never revoked.  A request awaits     *)
(* one database call after another and may die between any two.            *)
(***************************************************************************)
EXTENDS Naturals, FiniteSets

CONSTANTS
    Orgs,        \* identifiers organizations are created with
    Emails,
    Tokens,      \* random tokens of invitation and reset links
    Handlers,    \* requests in progress at once
    MaxSlug,     \* bound: name, name-2, ... the slugs of organizations of one name
    MaxRequests, \* bound: requests made in a behaviour
    None         \* no row, no value

ASSUME DistinctAssumption == Orgs \cap Tokens = {} /\ None \notin Orgs \cup Tokens \cup Emails
ASSUME FiniteAssumption == IsFiniteSet(Orgs) /\ IsFiniteSet(Tokens)
ASSUME BoundsAssumption == MaxSlug \in Nat \ {0} /\ MaxRequests \in Nat

VARIABLES
    slug,      \* organizations rows: the slug, 0 without a row
    settings,  \* organizations with an organization_settings row
    user,      \* users rows
    issued,    \* tokens generated
    mailed,    \* tokens mailed to somebody
    sessions,  \* signed tokens
    spent,     \* tokens that have set a password
    call,      \* where each handler stands, and what it has read
    requests   \* number of requests made

vars == <<slug, settings, user, issued, mailed, sessions, spent, call, requests>>
orgVars == <<slug, settings>>
linkVars == <<issued, mailed, spent>>
rowVars == <<orgVars, user, linkVars, sessions>>

--------------------------------------------------------------------------------

UserRole == {"admin", "recruiter"}
UserStatus == {"active", "invited"}     \* nothing sets "disabled"
Users == Orgs \cup Tokens

User == [org : Orgs, email : Emails, role : UserRole, status : UserStatus,
         password : BOOLEAN, invite : BOOLEAN, reset : Tokens \cup {None}]
ASSUME NoRowAssumption == None \notin User

Session == [sub : Users, org : Orgs, role : UserRole]

Pc == {"idle", "trySlug", "insertOrg", "saveSettings", "findEmail", "insertFounder",
       "touchLogin", "writeReset", "mail", "setPassword", "insertInvited", "accept",
       "countToDemote", "countToRemove", "writeRole", "deleteUser", "writeSlug"}

Call == [pc : Pc, org : Orgs \cup {None}, email : Emails \cup {None},
         role : UserRole \cup {None}, seen : UserRole \cup {None}, of : Users \cup {None},
         token : Tokens \cup {None}, slug : 0..MaxSlug, count : Nat]
NoCall == [pc |-> "idle", org |-> None, email |-> None, role |-> None, seen |-> None,
           of |-> None, token |-> None, slug |-> 0, count |-> 0]

TypeOK ==
    /\ slug \in [Orgs -> 0..MaxSlug]
    /\ settings \subseteq Orgs
    /\ user \in [Users -> User \cup {None}]
    /\ issued \subseteq Tokens /\ mailed \subseteq Tokens /\ spent \subseteq Tokens
    /\ sessions \subseteq Session
    /\ call \in [Handlers -> Call]
    /\ requests \in 0..MaxRequests

Init ==
    /\ slug = [o \in Orgs |-> 0] /\ settings = {}
    /\ user = [u \in Users |-> None]
    /\ issued = {} /\ mailed = {} /\ spent = {}
    /\ sessions = {}
    /\ call = [h \in Handlers |-> NoCall]
    /\ requests = 0

Row(u) == user[u] # None
InOrg(u, o) == Row(u) /\ user[u].org = o
HasEmail(u, e) == Row(u) /\ user[u].email = e
Admins(o) == {u \in Users : InOrg(u, o) /\ user[u].role = "admin"}
SlugTaken(s) == \E o \in Orgs : slug[o] = s

signToken(u, role) ==
    sessions' = sessions \cup {[sub |-> u, org |-> user[u].org, role |-> role]}

(* JwtStrategy and RolesGuard: the role is that of the token, not of the row. *)
IsAdmin(s) == s \in sessions /\ s.role = "admin"

Start(h, request) ==
    /\ call[h].pc = "idle"
    /\ requests < MaxRequests
    /\ requests' = requests + 1
    /\ call' = [call EXCEPT ![h] = request]
    /\ UNCHANGED rowVars

Go(h, next) == call' = [call EXCEPT ![h] = next] /\ UNCHANGED requests
(* The response or the exception, whatever was written before. *)
Return(h) == Go(h, NoCall)

Crash(h) ==
    /\ call[h].pc # "idle"
    /\ Return(h)
    /\ UNCHANGED rowVars

--------------------------------------------------------------------------------
(* Signing up: OrganizationsService.createWithDefaults, then the founder.    *)

signup(h, e) == Start(h, [NoCall EXCEPT !.pc = "trySlug", !.email = e, !.slug = 1])

(* name-2, name-3, ... until one is free *)
TrySlug(h) ==
    /\ call[h].pc = "trySlug"
    /\ \/ SlugTaken(call[h].slug) /\ call[h].slug < MaxSlug
          /\ Go(h, [call[h] EXCEPT !.slug = @ + 1])
       \/ ~SlugTaken(call[h].slug) /\ Go(h, [call[h] EXCEPT !.pc = "insertOrg"])
    /\ UNCHANGED rowVars

InsertOrg(h, o) ==
    /\ call[h].pc = "insertOrg"
    /\ slug[o] = 0
    /\ IF SlugTaken(call[h].slug) THEN Return(h) /\ UNCHANGED slug
       ELSE /\ slug' = [slug EXCEPT ![o] = call[h].slug]
            /\ Go(h, [call[h] EXCEPT !.pc = "saveSettings", !.org = o])
    /\ UNCHANGED <<settings, user, linkVars, sessions>>

SaveSettings_Later(h) ==
    /\ call[h].pc = "saveSettings"
    /\ Go(h, [call[h] EXCEPT !.pc = "findEmail"])
    /\ UNCHANGED rowVars

SaveSettings(h) ==
    /\ call[h].pc = "saveSettings"
    /\ settings' = settings \cup {call[h].org}
    /\ Go(h, [call[h] EXCEPT !.pc = "findEmail"])
    /\ UNCHANGED <<slug, user, linkVars, sessions>>

(* The address is looked up in the organization just created. *)
FindEmail(h) ==
    /\ call[h].pc = "findEmail"
    /\ IF \E u \in Users : InOrg(u, call[h].org) /\ HasEmail(u, call[h].email)
       THEN Return(h)
       ELSE Go(h, [call[h] EXCEPT !.pc = "insertFounder"])
    /\ UNCHANGED rowVars

InsertFounder(h) ==
    /\ call[h].pc = "insertFounder"
    /\ LET o == call[h].org IN
       /\ user' = [user EXCEPT ![o] =
             [org |-> o, email |-> call[h].email, role |-> "admin", status |-> "active",
              password |-> TRUE, invite |-> FALSE, reset |-> None]]
       /\ sessions' = sessions \cup {[sub |-> o, org |-> o, role |-> "admin"]}
    /\ Return(h)
    /\ UNCHANGED <<orgVars, linkVars>>

--------------------------------------------------------------------------------
(* Signing in.                                                               *)

(* findByEmailWithPassword: one of the rows with that address, in whichever    *)
(* organization.  Without a row, a right password or the status: no effect.    *)
login(h, e) ==
    \E u \in Users :
        /\ HasEmail(u, e) /\ user[u].password /\ user[u].status = "active"
        /\ Start(h, [NoCall EXCEPT !.pc = "touchLogin", !.of = u, !.role = user[u].role])

TouchLogin(h) ==
    /\ call[h].pc = "touchLogin"
    /\ IF Row(call[h].of) THEN signToken(call[h].of, call[h].role) ELSE UNCHANGED sessions
    /\ Return(h)
    /\ UNCHANGED <<orgVars, user, linkVars>>

--------------------------------------------------------------------------------
(* Links.                                                                    *)

forgotPassword(h, e) ==
    \E u \in Users :
        HasEmail(u, e) /\ Start(h, [NoCall EXCEPT !.pc = "writeReset", !.of = u])

WriteReset(h, t) ==
    /\ call[h].pc = "writeReset"
    /\ t \notin issued
    /\ issued' = issued \cup {t}
    /\ IF Row(call[h].of)
       THEN /\ user' = [user EXCEPT ![call[h].of] = [@ EXCEPT !.reset = t]]
            /\ Go(h, [call[h] EXCEPT !.pc = "mail", !.token = t])
       ELSE Return(h) /\ UNCHANGED user
    /\ UNCHANGED <<orgVars, mailed, spent, sessions>>

(* sendMail may throw: the row stays, the link is lost. *)
Mail(h) ==
    /\ call[h].pc = "mail"
    /\ mailed' = mailed \cup {call[h].token} \/ UNCHANGED mailed
    /\ Return(h)
    /\ UNCHANGED <<orgVars, user, issued, spent, sessions>>

(* findByResetTokenHash; an expired link has no effect. *)
resetPassword(h, t) ==
    /\ t \in mailed
    /\ \E u \in Users :
          /\ Row(u) /\ user[u].reset = t
          /\ Start(h, [NoCall EXCEPT !.pc = "setPassword", !.of = u, !.token = t])

SetPassword_KeepsLink(h) ==
    /\ call[h].pc = "setPassword"
    /\ LET u == call[h].of IN
       IF Row(u) THEN /\ user' = [user EXCEPT ![u] = [@ EXCEPT !.password = TRUE]]
                      /\ spent' = spent \cup {call[h].token}
       ELSE UNCHANGED <<user, spent>>
    /\ Return(h)
    /\ UNCHANGED <<orgVars, issued, mailed, sessions>>

(* Whichever link the row holds by now is cleared. *)
SetPassword(h) ==
    /\ call[h].pc = "setPassword"
    /\ LET u == call[h].of IN
       IF Row(u) THEN /\ user' = [user EXCEPT ![u] = [@ EXCEPT !.password = TRUE, !.reset = None]]
                      /\ spent' = spent \cup {call[h].token}
       ELSE UNCHANGED <<user, spent>>
    /\ Return(h)
    /\ UNCHANGED <<orgVars, issued, mailed, sessions>>

(* invite: findByEmailInOrg *)
invite(h, s, e, role) ==
    /\ IsAdmin(s)
    /\ ~\E u \in Users : InOrg(u, s.org) /\ HasEmail(u, e)
    /\ Start(h, [NoCall EXCEPT !.pc = "insertInvited", !.org = s.org, !.email = e, !.role = role])

(* A second invitation of the address since then breaks the unique index. *)
InsertInvited(h, t) ==
    /\ call[h].pc = "insertInvited"
    /\ t \notin issued
    /\ issued' = issued \cup {t}
    /\ LET o == call[h].org  e == call[h].email IN
       IF \E u \in Users : InOrg(u, o) /\ HasEmail(u, e) THEN Return(h) /\ UNCHANGED user
       ELSE /\ user' = [user EXCEPT ![t] =
                 [org |-> o, email |-> e, role |-> call[h].role, status |-> "invited",
                  password |-> FALSE, invite |-> TRUE, reset |-> None]]
            /\ Go(h, [call[h] EXCEPT !.pc = "mail", !.token = t])
    /\ UNCHANGED <<orgVars, mailed, spent, sessions>>

(* findByInviteTokenHash *)
acceptInvite(h, t) ==
    /\ t \in mailed
    /\ Row(t) /\ user[t].invite
    /\ Start(h, [NoCall EXCEPT !.pc = "accept", !.of = t, !.token = t])

(* The session carries the role the row has now. *)
Accept(h) ==
    /\ call[h].pc = "accept"
    /\ LET u == call[h].of IN
       IF Row(u) THEN /\ user' = [user EXCEPT ![u] =
                         [@ EXCEPT !.password = TRUE, !.status = "active", !.invite = FALSE]]
                      /\ spent' = spent \cup {call[h].token}
                      /\ signToken(u, user[u].role)
       ELSE UNCHANGED <<user, spent, sessions>>
    /\ Return(h)
    /\ UNCHANGED <<orgVars, issued, mailed>>

--------------------------------------------------------------------------------
(* The team.                                                                 *)

updateRole(h, s, u, role) ==
    /\ IsAdmin(s) /\ InOrg(u, s.org)
    /\ Start(h, [NoCall EXCEPT
            !.pc = IF user[u].role = "admin" /\ role # "admin" THEN "countToDemote" ELSE "writeRole",
            !.org = s.org, !.of = u, !.role = role, !.seen = user[u].role])

(* countAdmins: of any status *)
Count(h, pc, next) ==
    /\ call[h].pc = pc
    /\ LET n == Cardinality(Admins(call[h].org)) IN
       IF n <= 1 THEN Return(h) ELSE Go(h, [call[h] EXCEPT !.pc = next, !.count = n])
    /\ UNCHANGED rowVars

CountToDemote(h) == Count(h, "countToDemote", "writeRole")
CountToRemove_Skipped(h) ==
    /\ call[h].pc = "countToRemove"
    /\ Go(h, [call[h] EXCEPT !.pc = "deleteUser", !.count = Cardinality(Admins(call[h].org))])
    /\ UNCHANGED rowVars
CountToRemove(h) == Count(h, "countToRemove", "deleteUser")

WriteRole(h) ==
    /\ call[h].pc = "writeRole"
    /\ user' = IF Row(call[h].of)
               THEN [user EXCEPT ![call[h].of] = [@ EXCEPT !.role = call[h].role]]
               ELSE user
    /\ Return(h)
    /\ UNCHANGED <<orgVars, linkVars, sessions>>

(* "You cannot remove yourself": the user the session was signed for. *)
remove(h, s, u) ==
    /\ IsAdmin(s) /\ InOrg(u, s.org) /\ u # s.sub
    /\ Start(h, [NoCall EXCEPT
            !.pc = IF user[u].role = "admin" THEN "countToRemove" ELSE "deleteUser",
            !.org = s.org, !.of = u, !.seen = user[u].role])

DeleteUser(h) ==
    /\ call[h].pc = "deleteUser"
    /\ user' = [user EXCEPT ![call[h].of] = None]
    /\ Return(h)
    /\ UNCHANGED <<orgVars, linkVars, sessions>>

(* OrganizationsService.update, of the slug; other columns are not modelled. *)
FindSlug(h, s, new) ==
    /\ IsAdmin(s)
    /\ \A o \in Orgs : slug[o] = new => o = s.org
    /\ Start(h, [NoCall EXCEPT !.pc = "writeSlug", !.org = s.org, !.slug = new])

WriteSlug(h) ==
    /\ call[h].pc = "writeSlug"
    /\ slug' = IF \A o \in Orgs : slug[o] = call[h].slug => o = call[h].org
               THEN [slug EXCEPT ![call[h].org] = call[h].slug] ELSE slug
    /\ Return(h)
    /\ UNCHANGED <<settings, user, linkVars, sessions>>

--------------------------------------------------------------------------------

AuthRequest(h) ==
    \/ \E e \in Emails : signup(h, e) \/ login(h, e) \/ forgotPassword(h, e)
    \/ \E t \in Tokens : resetPassword(h, t) \/ acceptInvite(h, t)
    \/ \E s \in sessions, e \in Emails, role \in UserRole : invite(h, s, e, role)
    \/ TrySlug(h) \/ SaveSettings(h) \/ FindEmail(h) \/ InsertFounder(h)
    \/ \E o \in Orgs : InsertOrg(h, o)
    \/ TouchLogin(h) \/ Mail(h) \/ SetPassword(h) \/ Accept(h)
    \/ \E t \in Tokens : WriteReset(h, t) \/ InsertInvited(h, t)

UsersRequest(h) ==
    \/ \E s \in sessions, u \in Users, role \in UserRole : updateRole(h, s, u, role)
    \/ \E s \in sessions, u \in Users : remove(h, s, u)
    \/ CountToDemote(h) \/ CountToRemove(h) \/ WriteRole(h) \/ DeleteUser(h)

OrganizationsRequest(h) ==
    \/ \E s \in sessions, new \in 1..MaxSlug : FindSlug(h, s, new)
    \/ WriteSlug(h)

Next ==
    \E h \in Handlers : AuthRequest(h) \/ UsersRequest(h) \/ OrganizationsRequest(h) \/ Crash(h)

Spec == Init /\ [][Next]_vars

--------------------------------------------------------------------------------

(* Every account can be used: its organization has settings, which getSettings *)
(* insists on (organizations.service.ts:58), an active account has a password  *)
(* and an invited one still has its invitation.  A signup that died in between *)
(* leaves an organization, but no account, behind.                             *)
AccountsUsable ==
    \A u \in Users : Row(u) =>
        /\ slug[user[u].org] # 0 /\ user[u].org \in settings
        /\ user[u].status = "active" => user[u].password
        /\ user[u].status = "invited" <=> user[u].invite

(* "Cannot demote the only admin" (users.service.ts:86): an organization loses *)
(* its last admin only when the role or the number of admins had changed since *)
(* the request that demotes or removes that admin read them.                   *)
LastAdminStays ==
    [][\A o \in Orgs : Admins(o) # {} /\ Admins(o)' = {} =>
          \E h \in Handlers :
             /\ call[h].pc \in {"writeRole", "deleteUser"} /\ call'[h] = NoCall
             /\ call[h].org = o /\ call[h].of \in Admins(o)
             /\ \/ call[h].seen # "admin"
                \/ call[h].count # Cardinality(Admins(o))]_vars

(* A link sets a password once (auth.service.ts:116, 165): a second use of it  *)
(* had found it on the row before the first one took it off.                   *)
HoldsLink(u, t) == user[u].reset = t \/ (u = t /\ user[u].invite)
LinkWorksOnce ==
    [][\A h \in Handlers :
          /\ call[h].pc \in {"setPassword", "accept"}
          /\ call'[h] = NoCall /\ Row(call[h].of)
          /\ call[h].token \in spent
          => ~HoldsLink(call[h].of, call[h].token)]_vars

================================================================================
