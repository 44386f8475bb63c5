------------------------------- MODULE Session -------------------------------
(***************************************************************************)
(* Who is signed in: the accounts on the server, the browser's local       *)
(* storage that all tabs share (the token, the user it was issued to, and  *)
(* the x-user-id / x-user-role pair that the pages read), and in every tab *)
(* the user of AuthContext, the validation of a stored token that runs at  *)
(* load, and the sign-in or registration under way.  A request takes its   *)
(* headers from storage at the moment it is made, and the server decides   *)
(* from them whose request it is.                                          *)
(* Source: AuthContext.tsx, api/auth.ts, api/identity.ts, LoginPage.tsx    *)
(* and, on the server, the auth directory.                                 *)
(***************************************************************************)
EXTENDS Integers

CONSTANTS
    Users,              \* who has, or may register, an account
    Tabs,
    Nobody,             \* an absent user, token or header
    InitialAccounts,    \* the account tables to start from
    Production,         \* NODE_ENV = production: no identity without a token
    MaxEvents           \* how many loads, submissions, changes of accounts outside the
                        \* program, requests of the pages and losses of messages happen

UserRole == {"VIEWER", "CONTRIBUTOR", "STEWARD", "CURATOR", "GOVERNANCE_APPROVER",
             "INTEGRATION_ENGINEER", "ADMIN"}

\* The role strings of local storage and of the x-user-role header.
RoleToLegacy ==
    [r \in UserRole |->
        CASE r = "VIEWER" -> "viewer"
          [] r = "CONTRIBUTOR" -> "contributor"
          [] r = "STEWARD" -> "steward"
          [] r = "CURATOR" -> "curator"
          [] r = "GOVERNANCE_APPROVER" -> "governance-board"
          [] r = "INTEGRATION_ENGINEER" -> "integration-engineer"
          [] r = "ADMIN" -> "admin"]

LegacyRoles == {RoleToLegacy[r] : r \in UserRole}
RoleFromLegacy == [l \in LegacyRoles |-> CHOOSE r \in UserRole : RoleToLegacy[r] = l]

AccountRow == [role : UserRole \cup {"none"}, active : BOOLEAN]

ASSUME AccountsAssumption == InitialAccounts \subseteq [Users -> AccountRow]

VARIABLES
    accounts,   \* per user: the role, "none" without an account, and whether it is active
    token,      \* ecm:auth:token: whose token it is and the role it was issued with
    storedUser, \* ecm:auth:user
    identity,   \* ecm:userId and ecm:userRole
    user,       \* AuthContext.user of each tab
    me,         \* the validation of the stored token in each tab
    signIn,     \* the sign-in or registration under way in each tab
    events      \* how many of these have happened

storage == <<token, storedUser, identity>>
sessionVars == <<accounts, token, storedUser, identity, user, me, signIn, events>>

Idle == [kind |-> "none", of |-> Nobody, reply |-> Nobody]
Asked(kind, u) == [kind |-> kind, of |-> u, reply |-> Nobody]
Refused == [id |-> Nobody, role |-> "none"]

\* The public user record of an account, as the server reports it.
PublicUser(u) == [id |-> u, role |-> accounts[u].role]
Usable(u) == accounts[u].role # "none" /\ accounts[u].active
LegacyIdentity(r) == [id |-> r.id, role |-> RoleToLegacy[r.role]]

\* A user is signed in, and every tab is loaded and has validated the token; what
\* a browser without a user does comes after a Logout.
SessionInit ==
    /\ accounts \in InitialAccounts
    /\ \E u \in Users :
          /\ Usable(u)
          /\ token = PublicUser(u) /\ storedUser = token /\ identity = LegacyIdentity(token)
    /\ user = [t \in Tabs |-> storedUser]
    /\ me = [t \in Tabs |-> Idle]
    /\ signIn = [t \in Tabs |-> Idle]
    /\ events = 0

Event == events < MaxEvents /\ events' = events + 1

\* syncUser: the tab's user and the pair in storage change together.
SyncUser(t, r) ==
    /\ user' = [user EXCEPT ![t] = r]
    /\ identity' = IF r = Nobody THEN Nobody ELSE LegacyIdentity(r)

\* AuthProvider mounts and initializeAuth runs up to its await.
LoadTab(t) ==
    /\ Event
    /\ me' = [me EXCEPT ![t] = IF token = Nobody THEN Idle ELSE Asked("me", token.id)]
    /\ signIn' = [signIn EXCEPT ![t] = Idle]
    /\ IF token # Nobody /\ storedUser # Nobody
       THEN SyncUser(t, storedUser)
       ELSE user' = [user EXCEPT ![t] = Nobody] /\ UNCHANGED identity
    /\ UNCHANGED <<accounts, token, storedUser>>

\* GET /auth/me: the strategy and the service both look the account up.
ServeMe(t) ==
    /\ me[t].kind = "me" /\ me[t].reply = Nobody
    /\ me' = [me EXCEPT ![t].reply = IF Usable(me[t].of) THEN PublicUser(me[t].of) ELSE Refused]
    /\ UNCHANGED <<accounts, storage, user, signIn, events>>

MeAnswered(t) ==
    /\ me[t].reply \notin {Nobody, Refused}
    /\ SyncUser(t, me[t].reply)
    /\ me' = [me EXCEPT ![t] = Idle]
    /\ UNCHANGED <<accounts, token, storedUser, signIn, events>>

\* The catch of initializeAuth: refused, or no answer at all.
MeFailed(t) ==
    /\ \/ me[t].reply = Refused /\ UNCHANGED events
       \/ me[t] # Idle /\ Event
    /\ SyncUser(t, Nobody)
    /\ token' = Nobody /\ storedUser' = Nobody
    /\ me' = [me EXCEPT ![t] = Idle]
    /\ UNCHANGED <<accounts, signIn>>

\* LoginPage: one submission at a time.
SubmitSignIn(t, kind, u) ==
    /\ Event
    /\ signIn[t] = Idle
    /\ signIn' = [signIn EXCEPT ![t] = Asked(kind, u)]
    /\ UNCHANGED <<accounts, storage, user, me>>

ServeLogin(t) ==
    /\ signIn[t].kind = "login" /\ signIn[t].reply = Nobody
    /\ signIn' =
          [signIn EXCEPT ![t].reply = IF Usable(signIn[t].of) THEN PublicUser(signIn[t].of) ELSE Refused]
    /\ UNCHANGED <<accounts, storage, user, me, events>>

\* The unique index on the email decides; the page names no role.
ServeRegister(t) ==
    LET u == signIn[t].of
    IN  /\ signIn[t].kind = "register" /\ signIn[t].reply = Nobody
        /\ IF accounts[u].role = "none"
           THEN /\ accounts' = [accounts EXCEPT ![u] = [role |-> "VIEWER", active |-> TRUE]]
                /\ signIn' = [signIn EXCEPT ![t].reply = [id |-> u, role |-> "VIEWER"]]
           ELSE /\ signIn' = [signIn EXCEPT ![t].reply = Refused]
                /\ UNCHANGED accounts
        /\ UNCHANGED <<storage, user, me, events>>

\* persistAuth, then syncUser.
SignInAnswered(t) ==
    /\ signIn[t].reply \notin {Nobody, Refused}
    /\ token' = signIn[t].reply /\ storedUser' = token'
    /\ SyncUser(t, token')
    /\ signIn' = [signIn EXCEPT ![t] = Idle]
    /\ UNCHANGED <<accounts, me, events>>

SignInFailed(t) ==
    /\ \/ signIn[t].reply = Refused /\ UNCHANGED events
       \/ signIn[t] # Idle /\ Event
    /\ signIn' = [signIn EXCEPT ![t] = Idle]
    /\ UNCHANGED <<accounts, storage, user, me>>

\* The banner shows "Sign out" while the tab has a user.
Logout(t) ==
    /\ user[t] # Nobody
    /\ token' = Nobody /\ storedUser' = Nobody
    /\ SyncUser(t, Nobody)
    /\ UNCHANGED <<accounts, me, signIn, events>>

\* Roles and activity change in the database; no endpoint does it.
ChangeAccount(u, role, active) ==
    /\ Event
    /\ accounts[u].role # "none"
    /\ accounts' = [accounts EXCEPT ![u] = [role |-> role, active |-> active]]
    /\ UNCHANGED <<storage, user, me, signIn>>

\* getIdentityHeaders.
Headers == [token |-> token, identity |-> identity]

\* Mutant: the role the token was issued with.
AuthenticateByClaims(tok) == IF Usable(tok.id) THEN tok ELSE Nobody

\* The user a bearer token stands for: the account as it is now.
AuthenticateWithJwt(tok) == IF Usable(tok.id) THEN PublicUser(tok.id) ELSE Nobody

ResolveLegacyHeaderUser(pair) ==
    IF Production \/ pair = Nobody THEN Nobody
    ELSE [id |-> pair.id, role |-> RoleFromLegacy[pair.role]]

Authenticate(headers) ==
    IF headers.token # Nobody THEN AuthenticateWithJwt(headers.token)
    ELSE ResolveLegacyHeaderUser(headers.identity)

ServeAuth(t) == ServeMe(t) \/ ServeLogin(t) \/ ServeRegister(t)
AuthSettles(t) == MeAnswered(t) \/ MeFailed(t) \/ SignInAnswered(t) \/ SignInFailed(t)

\* Without a token in storage nobody is signed in: the tab has no user and the
\* pages see no identity.  What "Sign out" does at once, and what must not be
\* undone by an answer that was still on its way (one tab).
LoggedOutIsUnauthenticated ==
    token = Nobody => identity = Nobody /\ \A t \in Tabs : user[t] = Nobody

SessionTypeOK ==
    LET Records == [id : Users, role : UserRole]
    IN  /\ \A u \in Users : accounts[u].role \in UserRole \cup {"none"} /\ accounts[u].active \in BOOLEAN
        /\ token \in Records \cup {Nobody}
        /\ storedUser \in Records \cup {Nobody}
        /\ identity \in [id : Users, role : LegacyRoles] \cup {Nobody}
        /\ \A t \in Tabs : user[t] \in Records \cup {Nobody}
=============================================================================
