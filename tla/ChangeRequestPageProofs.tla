------------------------ MODULE ChangeRequestPageProofs ------------------------
(***************************************************************************)
(* Theorems about ChangeRequestPage, for any numbers of tabs, users,       *)
(* versions and requests under way: a page never settles on older data     *)
(* than it was told, it offers what the server accepts, and no token       *)
(* outlives a role.                                                        *)
(*                                                                         *)
(* Why a page does not settle on older data: an answer that a tab gets     *)
(* while it shows the page begins the query anew, and a query that begins  *)
(* after a version was told brings that version or a later one.  Why it    *)
(* offers what is accepted: a change request that is pending has no        *)
(* decision of the board, and none of the curator but an approval.         *)
(***************************************************************************)
EXTENDS ChangeRequestPage, TLAPS

Records == [id : Users, role : UserRole]
Identities == [id : Users, role : LegacyRoles]

\* A question to the authentication endpoints, and its answer.
Questions == [kind : {"none", "me", "login", "register"}, of : Users \cup {Nobody},
              reply : Records \cup {Nobody, Refused}]

QuestionOK(q) == q \in Questions /\ (q.kind # "none" => q.of \in Users)

SessionOK ==
    /\ accounts \in [Users -> AccountRow]
    /\ token \in Records \cup {Nobody}
    /\ storedUser \in Records \cup {Nobody}
    /\ identity \in Identities \cup {Nobody}
    /\ user \in [Tabs -> Records \cup {Nobody}]
    /\ me \in [Tabs -> Questions] /\ signIn \in [Tabs -> Questions]
    /\ \A t \in Tabs : QuestionOK(me[t]) /\ QuestionOK(signIn[t])
    /\ events \in Nat

Pages ==
    [shown : BOOLEAN, data : Snapshots \cup {NoData}, stale : BOOLEAN, error : BOOLEAN,
     acting : Identities \cup {Nobody}, form : {"none"} \cup ActionOps, failing : BOOLEAN]

Calls ==
    [n : Nat, panel : {"actions", "execution", "gone", "closed"}, op : Ops,
     headers : [token : Records \cup {Nobody}, identity : Identities \cup {Nobody}],
     reply : Snapshots \cup {Nobody, Refused}]

Queries == [kind : {"query"}, of : {Nobody}, reply : Snapshots \cup {Nobody}]

\* A request has a number of its own, one at most is under way per mounted panel,
\* and no answer is newer than the server (events and the version so far).
CallsFit(cs, happened, version) ==
    /\ \A c \in cs :
          /\ c.n < happened
          /\ c.reply \notin {Nobody, Refused} => c.reply \in Snapshots /\ c.reply.version <= version
    /\ \A c, d \in cs :
          /\ c.n = d.n => c = d
          /\ c.panel = d.panel /\ c.panel \in {"actions", "execution"} => c = d

\* What a query brings is not older than what its tab was told.
FetchFits(f, v) == f.reply # Nobody => f.reply \in Snapshots /\ v <= f.reply.version

\* A tab was told nothing the server does not know, and nothing while it is elsewhere.
ToldFits(p, v, version) == v <= version /\ (~p.shown => v = 0)

\* The data are not older than what the tab was told, or newer ones are on their way.
DataFits(p, f, v) == p.data # NoData /\ p.data.version < v => p.error \/ f # Idle

TabOK(t) ==
    /\ FetchFits(fetch[t], told[t])
    /\ ToldFits(page[t], told[t], cr.version)
    /\ DataFits(page[t], fetch[t], told[t])
    /\ CallsFit(calls[t], events, cr.version)

ServerOK == cr \in Snapshots /\ DecisionsFit(cr)

PageOK ==
    /\ page \in [Tabs -> Pages]
    /\ fetch \in [Tabs -> Queries \cup {Idle}]
    /\ calls \in [Tabs -> SUBSET Calls]
    /\ told \in [Tabs -> 0..MaxVersion]
    /\ \A t \in Tabs : TabOK(t)

IInv == SessionOK /\ ServerOK /\ PageOK

-----------------------------------------------------------------------------
(* Roles and operations *)

LEMMA LegacyRole ==
    ASSUME NEW r \in UserRole
    PROVE  RoleToLegacy[r] \in LegacyRoles
  BY DEF LegacyRoles

\* A role of local storage is the spelling of the role it is read as.
LEMMA RoleRead ==
    ASSUME NEW l \in LegacyRoles
    PROVE  RoleFromLegacy[l] \in UserRole /\ RoleToLegacy[RoleFromLegacy[l]] = l
<1>1. \E r \in UserRole : RoleToLegacy[r] = l
  BY DEF LegacyRoles
<1>2. RoleFromLegacy[l] = CHOOSE r \in UserRole : RoleToLegacy[r] = l
  BY DEF RoleFromLegacy
<1>3. QED
  BY <1>1, <1>2

LEMMA Spellings ==
    /\ RoleToLegacy["CURATOR"] = "curator"
    /\ RoleToLegacy["GOVERNANCE_APPROVER"] = "governance-board"
    /\ RoleToLegacy["ADMIN"] = "admin"
  BY DEF RoleToLegacy, UserRole

LEMMA Froms ==
    /\ From["submit"] = {"DRAFT"} /\ From["request"] = {"SUBMITTED"}
    /\ From["cancel"] = {"DRAFT", "SUBMITTED"}
    /\ From["approve"] = {"PENDING_APPROVAL"} /\ From["reject"] = {"PENDING_APPROVAL"}
    /\ From["execute"] = {"APPROVED"} /\ From["complete"] = {"EXECUTING"}
    /\ From["apply"] = {"EXECUTING"} /\ From["fail"] = {"EXECUTING"}
  BY DEF From

LEMMA OpNames ==
    Ops = {"submit", "request", "execute", "cancel", "approve", "reject", "complete", "apply", "fail"}
  BY DEF Ops, ActionOps, Decisions, ExecutionOps

LEMMA StatusNames ==
    (UNION {From[op] : op \in Ops}) \cup Terminal =
      {"DRAFT", "SUBMITTED", "PENDING_APPROVAL", "APPROVED", "EXECUTING",
       "COMPLETED", "REJECTED", "CANCELLED"}
<1>1. \A op \in Ops : From[op] \subseteq {"DRAFT", "SUBMITTED", "PENDING_APPROVAL", "APPROVED", "EXECUTING"}
  BY Froms, OpNames
<1>2. /\ "DRAFT" \in From["submit"] /\ "SUBMITTED" \in From["request"]
      /\ "PENDING_APPROVAL" \in From["approve"] /\ "APPROVED" \in From["execute"]
      /\ "EXECUTING" \in From["fail"]
  BY Froms
<1>3. UNION {From[op] : op \in Ops} = {"DRAFT", "SUBMITTED", "PENDING_APPROVAL", "APPROVED", "EXECUTING"}
  <2>1. UNION {From[op] : op \in Ops} \subseteq {"DRAFT", "SUBMITTED", "PENDING_APPROVAL", "APPROVED", "EXECUTING"}
    BY <1>1
  <2>2. \A op \in Ops : From[op] \subseteq UNION {From[o] : o \in Ops}
    OBVIOUS
  <2>3. /\ From["submit"] \subseteq UNION {From[o] : o \in Ops}
        /\ From["request"] \subseteq UNION {From[o] : o \in Ops}
        /\ From["approve"] \subseteq UNION {From[o] : o \in Ops}
        /\ From["execute"] \subseteq UNION {From[o] : o \in Ops}
        /\ From["fail"] \subseteq UNION {From[o] : o \in Ops}
    BY <2>2, OpNames
  <2>4. QED
    BY <2>1, <2>3, <1>2
<1>4. QED
  BY <1>3 DEF Terminal

LEMMA LegacyRecord ==
    ASSUME NEW r \in Records
    PROVE  LegacyIdentity(r) \in Identities
<1>1. r.id \in Users /\ r.role \in UserRole
  BY DEF Records
<1>2. RoleToLegacy[r.role] \in LegacyRoles
  BY <1>1, LegacyRole
<1>3. QED
  BY <1>1, <1>2 DEF LegacyIdentity, Identities

\* Who is known by an account, or by the headers of a request.
LEMMA UsableIsRecord ==
    ASSUME SessionOK, NEW u \in Users, Usable(u)
    PROVE  PublicUser(u) \in Records
  BY DEF SessionOK, Usable, PublicUser, Records, AccountRow

-----------------------------------------------------------------------------
(* What a step of the server leaves of a change request *)

LEMMA AfterOK ==
    ASSUME ServerOK, NEW op \in Ops, NEW role, Accepts(op, role), cr.version < MaxVersion
    PROVE  /\ After(op, role) \in Snapshots /\ DecisionsFit(After(op, role))
           /\ After(op, role).version = cr.version + 1
<1> DEFINE by(approver) == op \in Decisions /\ ApprovalRole(role) = approver
           cur == IF by("curator") THEN op ELSE cr.curator
           brd == IF by("governance-board") THEN op ELSE cr.board
           st == NextStatus(op, role)
<1>1. After(op, role) = [cr EXCEPT !.version = cr.version + 1, !.status = st, !.curator = cur, !.board = brd]
  BY DEF After
<1>2. cr.version \in Nat /\ cr.version + 1 \in 0..MaxVersion
  BY StartsAssumption DEF ServerOK, Snapshots
<1>3. cr.status \in From[op]
  BY DEF Accepts
<1>4. /\ cr.curator \in {"none", "approve", "reject"} /\ cr.board \in {"none", "approve", "reject"}
  BY DEF ServerOK, Snapshots, Decisions
<1>5. cur \in {"none"} \cup Decisions /\ brd \in {"none"} \cup Decisions
  BY <1>4 DEF Decisions
<1>6. st \in {"DRAFT", "SUBMITTED", "PENDING_APPROVAL", "APPROVED", "EXECUTING",
              "COMPLETED", "REJECTED", "CANCELLED"}
  BY <1>3, Froms, OpNames DEF NextStatus
<1>7. st \in {"SUBMITTED", "PENDING_APPROVAL"} =>
        op \in {"submit", "request"} \/ (op = "approve" /\ by("curator"))
  BY <1>3, Froms, OpNames DEF NextStatus, Decisions
<1>8. st # "DRAFT" /\ (st = "SUBMITTED" => op = "submit")
  BY <1>3, Froms, OpNames DEF NextStatus
<1>9. op \in {"submit", "request"} => cur = "none" /\ brd = "none"
  BY <1>3, Froms DEF ServerOK, DecisionsFit, Decisions
<1>10. op = "approve" /\ by("curator") => cur = "approve" /\ brd = "none"
  BY <1>3, Froms DEF ServerOK, DecisionsFit
<1>11. st \in {"APPROVED", "EXECUTING"} =>
        op \in {"execute", "fail"} \/ (op = "approve" /\ ~by("curator"))
  BY <1>3, Froms, OpNames DEF NextStatus, Decisions
<1>12. op \in {"execute", "fail"} => cur = "approve" /\ brd = "approve"
  BY <1>3, Froms DEF ServerOK, DecisionsFit, Decisions
<1>13. op = "approve" /\ ~by("curator") => cur = "approve" /\ brd = "approve"
  <2>1. ASSUME op = "approve", ~by("curator")
        PROVE  by("governance-board") /\ cr.curator = "approve"
    BY <2>1 DEF Accepts, Decisions, ApprovalRole
  <2>2. QED
    BY <2>1
<1> HIDE DEF by, cur, brd, st
<1>14. After(op, role) \in Snapshots /\ After(op, role).version = cr.version + 1
  BY <1>1, <1>2, <1>5, <1>6, StatusNames DEF ServerOK, Snapshots
<1>15. DecisionsFit(After(op, role))
  <2>1. /\ After(op, role).status = st /\ After(op, role).curator = cur /\ After(op, role).board = brd
    BY <1>1 DEF ServerOK, Snapshots
  <2>2. QED
    BY <1>7, <1>8, <1>9, <1>10, <1>11, <1>12, <1>13, <2>1 DEF DecisionsFit
<1>16. QED
  BY <1>14, <1>15

-----------------------------------------------------------------------------
(* The session: every action keeps the types of accounts, storage and questions *)

LEMMA IdleIsQuestion == Idle \in Questions /\ QuestionOK(Idle)
  BY DEF Idle, Questions, QuestionOK

LEMMA AskedIsQuestion ==
    ASSUME NEW kind \in {"me", "login", "register"}, NEW u \in Users
    PROVE  Asked(kind, u) \in Questions /\ QuestionOK(Asked(kind, u))
  BY DEF Asked, Questions, QuestionOK

\* A question stays one when it is answered by a record or refused.
LEMMA AnsweredIsQuestion ==
    ASSUME NEW q, QuestionOK(q), NEW r \in Records \cup {Nobody, Refused}
    PROVE  QuestionOK([q EXCEPT !.reply = r])
  BY DEF QuestionOK, Questions

LEMMA SyncUserOK ==
    ASSUME SessionOK, NEW t \in Tabs, NEW r \in Records \cup {Nobody}, SyncUser(t, r)
    PROVE  user' \in [Tabs -> Records \cup {Nobody}] /\ identity' \in Identities \cup {Nobody}
<1>1. user' \in [Tabs -> Records \cup {Nobody}]
  BY DEF SyncUser, SessionOK
<1>2. identity' \in Identities \cup {Nobody}
  BY LegacyRecord DEF SyncUser
<1>3. QED
  BY <1>1, <1>2

\* A question replaced in one tab.
LEMMA QuestionReplaced ==
    ASSUME NEW qs \in [Tabs -> Questions], \A x \in Tabs : QuestionOK(qs[x]),
           NEW t \in Tabs, NEW q, QuestionOK(q)
    PROVE  /\ [qs EXCEPT ![t] = q] \in [Tabs -> Questions]
           /\ \A x \in Tabs : QuestionOK([qs EXCEPT ![t] = q][x])
  BY DEF QuestionOK

LEMMA EventCounts ==
    ASSUME SessionOK, Event
    PROVE  events' \in Nat /\ events' = events + 1
  BY DEF SessionOK, Event

LEMMA LoadTabOK ==
    ASSUME SessionOK, NEW t \in Tabs, LoadTab(t)
    PROVE  SessionOK'
<1>1. QuestionOK(IF token = Nobody THEN Idle ELSE Asked("me", token.id))
  BY IdleIsQuestion, AskedIsQuestion DEF SessionOK, Records
<1>2. me' \in [Tabs -> Questions] /\ \A x \in Tabs : QuestionOK(me'[x])
  BY <1>1, QuestionReplaced DEF SessionOK, LoadTab
<1>3. signIn' \in [Tabs -> Questions] /\ \A x \in Tabs : QuestionOK(signIn'[x])
  BY IdleIsQuestion, QuestionReplaced DEF SessionOK, LoadTab
<1>4. user' \in [Tabs -> Records \cup {Nobody}] /\ identity' \in Identities \cup {Nobody}
  BY SyncUserOK DEF SessionOK, LoadTab
<1>5. events' \in Nat
  BY EventCounts DEF LoadTab
<1>6. QED
  BY <1>2, <1>3, <1>4, <1>5 DEF SessionOK, LoadTab, QuestionOK

\* What a step leaves when it changes the questions of one tab and nothing stored.
LEMMA QuestionsStep ==
    ASSUME SessionOK, NEW t \in Tabs, NEW q, NEW r, QuestionOK(q), QuestionOK(r),
           me' = [me EXCEPT ![t] = q], signIn' = [signIn EXCEPT ![t] = r],
           accounts' \in [Users -> AccountRow], token' \in Records \cup {Nobody},
           storedUser' \in Records \cup {Nobody}, identity' \in Identities \cup {Nobody},
           user' \in [Tabs -> Records \cup {Nobody}], events' \in Nat
    PROVE  SessionOK'
<1>1. me' \in [Tabs -> Questions] /\ \A x \in Tabs : QuestionOK(me'[x])
  BY QuestionReplaced DEF SessionOK
<1>2. signIn' \in [Tabs -> Questions] /\ \A x \in Tabs : QuestionOK(signIn'[x])
  BY QuestionReplaced DEF SessionOK
<1>3. QED
  BY <1>1, <1>2 DEF SessionOK, QuestionOK

LEMMA OwnQuestions ==
    ASSUME SessionOK, NEW t \in Tabs
    PROVE  /\ me = [me EXCEPT ![t] = me[t]] /\ signIn = [signIn EXCEPT ![t] = signIn[t]]
           /\ QuestionOK(me[t]) /\ QuestionOK(signIn[t])
  BY DEF SessionOK

LEMMA ReplyIsRecord ==
    ASSUME SessionOK, NEW q, QuestionOK(q), q.reply \notin {Nobody, Refused}
    PROVE  q.reply \in Records
  BY DEF QuestionOK, Questions

LEMMA ServeMeOK ==
    ASSUME SessionOK, NEW t \in Tabs, ServeMe(t)
    PROVE  SessionOK'
<1> DEFINE r == IF Usable(me[t].of) THEN PublicUser(me[t].of) ELSE Refused
<1>1. me[t].of \in Users
  BY OwnQuestions DEF ServeMe, QuestionOK
<1>2. r \in Records \cup {Nobody, Refused}
  BY <1>1, UsableIsRecord
<1>3. me' = [me EXCEPT ![t] = [me[t] EXCEPT !.reply = r]]
  BY DEF ServeMe, SessionOK
<1> HIDE DEF r
<1>4. QuestionOK([me[t] EXCEPT !.reply = r])
  BY <1>2, OwnQuestions, AnsweredIsQuestion
<1>5. signIn' = [signIn EXCEPT ![t] = signIn[t]] /\ QuestionOK(signIn[t])
  BY OwnQuestions DEF ServeMe
<1>6. UNCHANGED <<accounts, token, storedUser, identity, user, events>>
  BY DEF ServeMe, storage
<1>7. QED
  BY <1>3, <1>4, <1>5, <1>6, QuestionsStep DEF SessionOK

LEMMA ServeLoginOK ==
    ASSUME SessionOK, NEW t \in Tabs, ServeLogin(t)
    PROVE  SessionOK'
<1> DEFINE r == IF Usable(signIn[t].of) THEN PublicUser(signIn[t].of) ELSE Refused
<1>1. signIn[t].of \in Users
  BY OwnQuestions DEF ServeLogin, QuestionOK
<1>2. r \in Records \cup {Nobody, Refused}
  BY <1>1, UsableIsRecord
<1>3. signIn' = [signIn EXCEPT ![t] = [signIn[t] EXCEPT !.reply = r]]
  BY DEF ServeLogin, SessionOK
<1> HIDE DEF r
<1>4. QuestionOK([signIn[t] EXCEPT !.reply = r])
  BY <1>2, OwnQuestions, AnsweredIsQuestion
<1>5. me' = [me EXCEPT ![t] = me[t]] /\ QuestionOK(me[t])
  BY OwnQuestions DEF ServeLogin
<1>6. UNCHANGED <<accounts, token, storedUser, identity, user, events>>
  BY DEF ServeLogin, storage
<1>7. QED
  BY <1>3, <1>4, <1>5, <1>6, QuestionsStep DEF SessionOK

LEMMA ServeRegisterOK ==
    ASSUME SessionOK, NEW t \in Tabs, ServeRegister(t)
    PROVE  SessionOK'
<1> DEFINE u == signIn[t].of
           free == accounts[u].role = "none"
           r == IF free THEN [id |-> u, role |-> "VIEWER"] ELSE Refused
<1>1. u \in Users
  BY OwnQuestions DEF ServeRegister, QuestionOK
<1>2. r \in Records \cup {Nobody, Refused}
  BY <1>1 DEF Records, UserRole
<1>3. accounts' \in [Users -> AccountRow]
  <2>1. [role |-> "VIEWER", active |-> TRUE] \in AccountRow
    BY DEF AccountRow, UserRole
  <2>2. accounts' = accounts \/ accounts' = [accounts EXCEPT ![u] = [role |-> "VIEWER", active |-> TRUE]]
    BY DEF ServeRegister
  <2>3. QED
    BY <2>1, <2>2 DEF SessionOK
<1>4. signIn' = [signIn EXCEPT ![t] = [signIn[t] EXCEPT !.reply = r]]
  BY DEF ServeRegister, SessionOK
<1> HIDE DEF r
<1>5. QuestionOK([signIn[t] EXCEPT !.reply = r])
  BY <1>2, OwnQuestions, AnsweredIsQuestion
<1>6. me' = [me EXCEPT ![t] = me[t]] /\ QuestionOK(me[t])
  BY OwnQuestions DEF ServeRegister
<1>7. UNCHANGED <<token, storedUser, identity, user, events>>
  BY DEF ServeRegister, storage
<1>8. QED
  BY <1>3, <1>4, <1>5, <1>6, <1>7, QuestionsStep DEF SessionOK

LEMMA MeAnsweredOK ==
    ASSUME SessionOK, NEW t \in Tabs, MeAnswered(t)
    PROVE  SessionOK'
<1>1. me[t].reply \in Records
  BY OwnQuestions, ReplyIsRecord DEF MeAnswered
<1>2. user' \in [Tabs -> Records \cup {Nobody}] /\ identity' \in Identities \cup {Nobody}
  BY <1>1, SyncUserOK DEF MeAnswered
<1>3. signIn' = [signIn EXCEPT ![t] = signIn[t]] /\ QuestionOK(signIn[t])
  BY OwnQuestions DEF MeAnswered
<1>4. QED
  BY <1>2, <1>3, IdleIsQuestion, QuestionsStep DEF MeAnswered, SessionOK

LEMMA MeFailedOK ==
    ASSUME SessionOK, NEW t \in Tabs, MeFailed(t)
    PROVE  SessionOK'
<1>1. user' \in [Tabs -> Records \cup {Nobody}] /\ identity' \in Identities \cup {Nobody}
  BY SyncUserOK DEF MeFailed
<1>2. signIn' = [signIn EXCEPT ![t] = signIn[t]] /\ QuestionOK(signIn[t])
  BY OwnQuestions DEF MeFailed
<1>3. events' \in Nat
  BY EventCounts DEF MeFailed, SessionOK
<1>4. QED
  BY <1>1, <1>2, <1>3, IdleIsQuestion, QuestionsStep DEF MeFailed, SessionOK

LEMMA SubmitSignInOK ==
    ASSUME SessionOK, NEW t \in Tabs, NEW u \in Users, NEW kind \in {"login", "register"},
           SubmitSignIn(t, kind, u)
    PROVE  SessionOK'
<1>1. me' = [me EXCEPT ![t] = me[t]] /\ QuestionOK(me[t])
  BY OwnQuestions DEF SubmitSignIn
<1>2. QuestionOK(Asked(kind, u))
  BY AskedIsQuestion
<1>3. events' \in Nat
  BY EventCounts DEF SubmitSignIn
<1>4. QED
  BY <1>1, <1>2, <1>3, QuestionsStep DEF SubmitSignIn, storage, SessionOK

LEMMA SignInAnsweredOK ==
    ASSUME SessionOK, NEW t \in Tabs, SignInAnswered(t)
    PROVE  SessionOK'
<1>1. signIn[t].reply \in Records
  BY OwnQuestions, ReplyIsRecord DEF SignInAnswered
<1>2. token' \in Records /\ storedUser' \in Records
  BY <1>1 DEF SignInAnswered
<1>3. SyncUser(t, signIn[t].reply)
  BY DEF SignInAnswered, SyncUser
<1>4. user' \in [Tabs -> Records \cup {Nobody}] /\ identity' \in Identities \cup {Nobody}
  BY <1>1, <1>3, SyncUserOK
<1>5. me' = [me EXCEPT ![t] = me[t]] /\ QuestionOK(me[t])
  BY OwnQuestions DEF SignInAnswered
<1>6. QED
  BY <1>2, <1>4, <1>5, IdleIsQuestion, QuestionsStep DEF SignInAnswered, SessionOK

LEMMA SignInFailedOK ==
    ASSUME SessionOK, NEW t \in Tabs, SignInFailed(t)
    PROVE  SessionOK'
<1>1. me' = [me EXCEPT ![t] = me[t]] /\ QuestionOK(me[t])
  BY OwnQuestions DEF SignInFailed
<1>2. events' \in Nat
  BY EventCounts DEF SignInFailed, SessionOK
<1>3. QED
  BY <1>1, <1>2, IdleIsQuestion, QuestionsStep DEF SignInFailed, storage, SessionOK

LEMMA LogoutOK ==
    ASSUME SessionOK, NEW t \in Tabs, Logout(t)
    PROVE  SessionOK'
<1>1. user' \in [Tabs -> Records \cup {Nobody}] /\ identity' \in Identities \cup {Nobody}
  BY SyncUserOK DEF Logout
<1>2. QED
  BY <1>1 DEF Logout, SessionOK, QuestionOK

LEMMA ChangeAccountOK ==
    ASSUME SessionOK, NEW u \in Users, NEW r \in NewRoles, NEW active \in BOOLEAN,
           ChangeAccount(u, r, active)
    PROVE  SessionOK'
<1>1. [role |-> r, active |-> active] \in AccountRow
  BY StartsAssumption DEF AccountRow
<1>2. accounts' \in [Users -> AccountRow]
  BY <1>1 DEF ChangeAccount, SessionOK
<1>3. events' \in Nat
  BY EventCounts DEF ChangeAccount
<1>4. QED
  BY <1>2, <1>3 DEF ChangeAccount, storage, SessionOK, QuestionOK

\* An action that only counts an event, or nothing of the session.
LEMMA CountedOK ==
    ASSUME SessionOK, Event, UNCHANGED <<accounts, storage, user, me, signIn>>
    PROVE  SessionOK'
  BY EventCounts DEF storage, SessionOK, QuestionOK

LEMMA SessionKept ==
    ASSUME SessionOK, UNCHANGED sessionVars
    PROVE  SessionOK'
  BY DEF sessionVars, SessionOK, QuestionOK

-----------------------------------------------------------------------------
(* What a page shows and which requests are under way *)

LEMMA VersionIsNatural ==
    ASSUME NEW s \in Snapshots
    PROVE  s.version \in Nat
  BY StartsAssumption DEF Snapshots

LEMMA CallsFitLater ==
    ASSUME NEW cs \in SUBSET Calls, NEW h \in Nat, NEW h2 \in Nat, NEW v \in Nat, NEW v2 \in Nat,
           h <= h2, v <= v2, CallsFit(cs, h, v)
    PROVE  CallsFit(cs, h2, v2)
<1>1. \A c \in cs : c.n \in Nat /\ (c.reply \in Snapshots => c.reply.version \in Nat)
  BY VersionIsNatural DEF Calls
<1>2. QED
  BY <1>1 DEF CallsFit

\* The other tabs keep what they have, and time only makes it older.
LEMMA TabStep ==
    ASSUME PageOK, cr \in Snapshots, cr' \in Snapshots, cr.version <= cr'.version,
           events \in Nat, events' \in Nat, events <= events',
           NEW t \in Tabs, NEW p \in Pages, NEW f \in Queries \cup {Idle},
           NEW cs \in SUBSET Calls, NEW v \in 0..MaxVersion,
           page' = [page EXCEPT ![t] = p], fetch' = [fetch EXCEPT ![t] = f],
           calls' = [calls EXCEPT ![t] = cs], told' = [told EXCEPT ![t] = v],
           FetchFits(f, v), ToldFits(p, v, cr'.version), DataFits(p, f, v),
           CallsFit(cs, events', cr'.version)
    PROVE  PageOK'
<1>1. /\ page' \in [Tabs -> Pages] /\ fetch' \in [Tabs -> Queries \cup {Idle}]
      /\ calls' \in [Tabs -> SUBSET Calls] /\ told' \in [Tabs -> 0..MaxVersion]
  BY DEF PageOK
<1>2. ASSUME NEW u \in Tabs
      PROVE  TabOK(u)'
  <2>1. CASE u = t
    <3>1. page'[u] = p /\ fetch'[u] = f /\ calls'[u] = cs /\ told'[u] = v
      BY <2>1 DEF PageOK
    <3>2. QED
      BY <3>1 DEF TabOK
  <2>2. CASE u # t
    <3>1. page'[u] = page[u] /\ fetch'[u] = fetch[u] /\ calls'[u] = calls[u] /\ told'[u] = told[u]
      BY <2>2 DEF PageOK
    <3>2. cr.version \in Nat /\ cr'.version \in Nat
      BY VersionIsNatural
    <3>3. calls[u] \in SUBSET Calls /\ told[u] \in Nat /\ TabOK(u)
      BY StartsAssumption DEF PageOK
    <3>4. CallsFit(calls[u], events', cr'.version)
      BY <3>2, <3>3, CallsFitLater DEF TabOK
    <3>5. ToldFits(page[u], told[u], cr'.version)
      BY <3>2, <3>3 DEF TabOK, ToldFits
    <3>6. QED
      BY <3>1, <3>3, <3>4, <3>5 DEF TabOK
  <2>3. QED
    BY <2>1, <2>2
<1>3. QED
  BY <1>1, <1>2 DEF PageOK

\* A tab that is not part of a step keeps its invariant.
LEMMA PageKept ==
    ASSUME PageOK, cr \in Snapshots, cr' \in Snapshots, cr.version <= cr'.version,
           events \in Nat, events' \in Nat, events <= events', UNCHANGED <<page, fetch, calls, told>>
    PROVE  PageOK'
<1>1. cr.version \in Nat /\ cr'.version \in Nat
  BY VersionIsNatural
<1>2. ASSUME NEW u \in Tabs
      PROVE  TabOK(u)'
  <2>1. calls[u] \in SUBSET Calls /\ told[u] \in Nat /\ TabOK(u)
    BY StartsAssumption DEF PageOK
  <2>2. CallsFit(calls[u], events', cr'.version)
    BY <1>1, <2>1, CallsFitLater DEF TabOK
  <2>3. ToldFits(page[u], told[u], cr'.version)
    BY <1>1, <2>1 DEF TabOK, ToldFits
  <2>4. QED
    BY <2>1, <2>2, <2>3 DEF TabOK
<1>3. QED
  BY <1>2 DEF PageOK

\* A render leaves the data, the marks and the error as they are.
LEMMA RenderOK ==
    ASSUME SessionOK, NEW p \in Pages
    PROVE  /\ Render(p) \in Pages
           /\ Render(p).shown = p.shown /\ Render(p).data = p.data /\ Render(p).error = p.error
<1>1. identity \in Identities \cup {Nobody}
  BY DEF SessionOK
<1>2. QED
  BY <1>1 DEF Render, Pages

\* The parts of a tab's own state, as the steps replace them.
LEMMA OwnTab ==
    ASSUME PageOK, NEW t \in Tabs
    PROVE  /\ page[t] \in Pages /\ fetch[t] \in Queries \cup {Idle}
           /\ calls[t] \in SUBSET Calls /\ told[t] \in 0..MaxVersion /\ TabOK(t)
           /\ page = [page EXCEPT ![t] = page[t]] /\ fetch = [fetch EXCEPT ![t] = fetch[t]]
           /\ calls = [calls EXCEPT ![t] = calls[t]] /\ told = [told EXCEPT ![t] = told[t]]
  BY DEF PageOK

\* A subset of the requests, or the requests with some of them detached from
\* their panels, fits as well.
LEMMA FewerFit ==
    ASSUME NEW cs, NEW ds \in SUBSET cs, NEW h, NEW v, CallsFit(cs, h, v)
    PROVE  CallsFit(ds, h, v)
  BY DEF CallsFit

\* Each request has an original of the same number and answer.
Originals(ds, cs) ==
    \A d \in ds : \E c \in cs :
        d.n = c.n /\ d.reply = c.reply

LEMMA AttachedOK ==
    ASSUME NEW cs \in SUBSET Calls, NEW p
    PROVE  /\ Attached(cs, p) \in SUBSET Calls
           /\ Originals(Attached(cs, p), cs)
<1> DEFINE F(c) == [c EXCEPT !.panel = IF c.panel \in {"actions", "execution"} /\ ~Mounted(p, c.panel)
                                       THEN "gone" ELSE @]
<1>1. ASSUME NEW c \in cs
      PROVE  F(c) \in Calls /\ F(c).n = c.n /\ F(c).reply = c.reply
  BY DEF Calls
<1>2. QED
  BY <1>1 DEF Attached, Originals

LEMMA AttachedFit ==
    ASSUME NEW cs \in SUBSET Calls, NEW p, NEW h, NEW v, CallsFit(cs, h, v)
    PROVE  CallsFit(Attached(cs, p), h, v)
<1> DEFINE F(c) == [c EXCEPT !.panel = IF c.panel \in {"actions", "execution"} /\ ~Mounted(p, c.panel)
                                       THEN "gone" ELSE @]
<1>1. ASSUME NEW c \in cs
      PROVE  /\ F(c).n = c.n /\ F(c).reply = c.reply
             /\ F(c).panel \in {"actions", "execution"} => F(c).panel = c.panel
  BY DEF Calls
<1>2. Attached(cs, p) = {F(c) : c \in cs}
  BY DEF Attached
<1> HIDE DEF F
<1>3. \A d \in Attached(cs, p) : \E c \in cs : d = F(c)
  BY <1>2
<1>4. ASSUME NEW d \in Attached(cs, p), NEW e \in Attached(cs, p)
      PROVE  /\ d.n = e.n => d = e
             /\ d.panel = e.panel /\ d.panel \in {"actions", "execution"} => d = e
  <2>1. PICK c \in cs : d = F(c)
    BY <1>3
  <2>2. PICK b \in cs : e = F(b)
    BY <1>3
  <2>3. (c.n = b.n => c = b) /\ (c.panel = b.panel /\ c.panel \in {"actions", "execution"} => c = b)
    BY DEF CallsFit
  <2>4. QED
    BY <1>1, <2>1, <2>2, <2>3
<1>5. ASSUME NEW d \in Attached(cs, p)
      PROVE  /\ d.n < h
             /\ d.reply \notin {Nobody, Refused} => d.reply \in Snapshots /\ d.reply.version <= v
  <2>1. PICK c \in cs : d = F(c)
    BY <1>3
  <2>2. QED
    BY <1>1, <2>1 DEF CallsFit
<1>6. QED
  BY <1>4, <1>5 DEF CallsFit

-----------------------------------------------------------------------------
(* The steps of one tab *)

LEMMA Numbers ==
    ASSUME IInv
    PROVE  events \in Nat /\ cr \in Snapshots /\ cr.version \in Nat /\ cr.version <= cr.version
  BY VersionIsNatural DEF IInv, SessionOK, ServerOK

\* A step that leaves the server alone.
LEMMA QuietStep ==
    ASSUME IInv, UNCHANGED cr, events' \in {events, events + 1},
           NEW t \in Tabs, NEW p \in Pages, NEW f \in Queries \cup {Idle},
           NEW cs \in SUBSET Calls, NEW v \in 0..MaxVersion,
           page' = [page EXCEPT ![t] = p], fetch' = [fetch EXCEPT ![t] = f],
           calls' = [calls EXCEPT ![t] = cs], told' = [told EXCEPT ![t] = v],
           FetchFits(f, v), ToldFits(p, v, cr.version), DataFits(p, f, v),
           CallsFit(cs, events, cr.version)
    PROVE  PageOK'
<1>1. events' \in Nat /\ events <= events'
  BY Numbers
<1>2. CallsFit(cs, events', cr.version)
  BY <1>1, Numbers, CallsFitLater
<1>3. QED
  BY <1>1, <1>2, Numbers, TabStep DEF IInv

LEMMA WaitingIsQuery ==
    /\ Waiting \in Queries /\ Waiting # Idle
    /\ \A v : FetchFits(Waiting, v) /\ FetchFits(Idle, v)
  BY DEF Waiting, Asked, Idle, Queries, FetchFits

\* Nothing is older than the version 0.
LEMMA DataFitNothing ==
    ASSUME NEW p \in Pages, NEW f
    PROVE  DataFits(p, f, 0)
<1>1. p.data # NoData => p.data.version \in Nat
  BY VersionIsNatural DEF Pages
<1>2. QED
  BY <1>1 DEF DataFits

LEMMA FetchFitsNothing ==
    ASSUME NEW f, NEW v, FetchFits(f, v)
    PROVE  FetchFits(f, 0)
<1>1. f.reply # Nobody => f.reply.version \in Nat
  BY VersionIsNatural DEF FetchFits
<1>2. QED
  BY <1>1 DEF FetchFits

LEMMA ZeroIsVersion == 0 \in 0..MaxVersion
  BY StartsAssumption

LEMMA VisitOK ==
    ASSUME IInv, NEW t \in Tabs, Visit(t)
    PROVE  PageOK'
<1> DEFINE q == [page[t] EXCEPT !.shown = TRUE]
           p == Render(q)
<1>1. /\ page[t] \in Pages /\ fetch[t] \in Queries \cup {Idle}
      /\ calls[t] \in SUBSET Calls /\ told[t] \in 0..MaxVersion /\ TabOK(t)
  BY OwnTab DEF IInv
<1>2. q \in Pages /\ q.shown
  BY <1>1 DEF Pages
<1>3. page' = [page EXCEPT ![t] = p]
  BY DEF Visit, Show
<1> HIDE DEF q
<1>4. p \in Pages /\ p.shown
  BY <1>2, RenderOK DEF IInv
<1> HIDE DEF p
<1>5. told[t] = 0
  BY <1>1 DEF TabOK, ToldFits, Visit
<1>6. PICK f \in {fetch[t], Waiting} : fetch' = [fetch EXCEPT ![t] = f]
  <2>1. CASE UNCHANGED fetch
    BY <2>1, OwnTab DEF IInv
  <2>2. CASE fetch' = [fetch EXCEPT ![t] = IF @ = Idle THEN Waiting ELSE @]
    BY <2>2 DEF IInv, PageOK
  <2>3. QED
    BY <2>1, <2>2 DEF Visit
<1>7. f \in Queries \cup {Idle} /\ FetchFits(f, 0)
  BY <1>1, <1>5, <1>6, WaitingIsQuery DEF TabOK
<1>8. DataFits(p, f, 0) /\ ToldFits(p, 0, cr.version)
  BY <1>4, DataFitNothing, Numbers DEF ToldFits
<1>9. /\ UNCHANGED <<cr, events>> /\ calls' = [calls EXCEPT ![t] = calls[t]]
      /\ told' = [told EXCEPT ![t] = 0]
  BY <1>5, OwnTab DEF Visit, sessionVars, IInv
<1>10. QED
  BY <1>1, <1>3, <1>4, <1>6, <1>7, <1>8, <1>9, QuietStep, ZeroIsVersion DEF TabOK

\* The page is left: by the user, or because a sign-in navigates elsewhere.
LEMMA LeftOK ==
    ASSUME IInv, NEW t \in Tabs, Left(t), UNCHANGED events
    PROVE  PageOK'
<1> DEFINE q == [page[t] EXCEPT !.shown = FALSE]
           p == Render(q)
           cs == Attached(calls[t], q)
<1>1. /\ page[t] \in Pages /\ fetch[t] \in Queries \cup {Idle}
      /\ calls[t] \in SUBSET Calls /\ told[t] \in 0..MaxVersion /\ TabOK(t)
  BY OwnTab DEF IInv
<1>2. q \in Pages /\ ~q.shown
  BY <1>1 DEF Pages
<1>3. page' = [page EXCEPT ![t] = p] /\ calls' = [calls EXCEPT ![t] = cs]
  BY DEF Left, Show, IInv, PageOK
<1> HIDE DEF q
<1>4. p \in Pages /\ ~p.shown
  BY <1>2, RenderOK DEF IInv
<1>5. cs \in SUBSET Calls /\ CallsFit(cs, events, cr.version)
  BY <1>1, AttachedOK, AttachedFit DEF TabOK
<1> HIDE DEF p, cs
<1>6. FetchFits(fetch[t], 0) /\ DataFits(p, fetch[t], 0) /\ ToldFits(p, 0, cr.version)
  BY <1>1, <1>4, FetchFitsNothing, DataFitNothing, Numbers DEF TabOK, ToldFits
<1>7. UNCHANGED cr /\ fetch' = [fetch EXCEPT ![t] = fetch[t]] /\ told' = [told EXCEPT ![t] = 0]
  BY OwnTab DEF Left, IInv
<1>8. QED
  BY <1>1, <1>3, <1>4, <1>5, <1>6, <1>7, QuietStep, ZeroIsVersion

LEMMA RefetchOK ==
    ASSUME IInv, NEW t \in Tabs, Refetch(t)
    PROVE  PageOK'
<1>1. /\ page[t] \in Pages /\ calls[t] \in SUBSET Calls /\ told[t] \in 0..MaxVersion /\ TabOK(t)
      /\ page' = [page EXCEPT ![t] = page[t]] /\ calls' = [calls EXCEPT ![t] = calls[t]]
      /\ told' = [told EXCEPT ![t] = told[t]]
  BY OwnTab DEF IInv, Refetch
<1>2. fetch' = [fetch EXCEPT ![t] = Waiting] /\ UNCHANGED <<cr, events>>
  BY DEF Refetch, sessionVars
<1>3. DataFits(page[t], Waiting, told[t])
  BY WaitingIsQuery DEF DataFits
<1>4. QED
  BY <1>1, <1>2, <1>3, WaitingIsQuery, QuietStep DEF TabOK

LEMMA QueryServedOK ==
    ASSUME IInv, NEW t \in Tabs, QueryServed(t)
    PROVE  PageOK'
<1> DEFINE f == [fetch[t] EXCEPT !.reply = cr]
<1>1. /\ page[t] \in Pages /\ calls[t] \in SUBSET Calls /\ told[t] \in 0..MaxVersion /\ TabOK(t)
      /\ page' = [page EXCEPT ![t] = page[t]] /\ calls' = [calls EXCEPT ![t] = calls[t]]
      /\ told' = [told EXCEPT ![t] = told[t]]
  BY OwnTab DEF IInv, QueryServed
<1>2. fetch' = [fetch EXCEPT ![t] = f] /\ UNCHANGED <<cr, events>>
  BY DEF QueryServed, sessionVars, IInv, PageOK
<1>3. f \in Queries /\ f.reply = cr /\ f # Idle
  BY Numbers DEF QueryServed, Waiting, Asked, Queries, Idle
<1>4. FetchFits(f, told[t]) /\ DataFits(page[t], f, told[t])
  BY <1>1, <1>3, Numbers DEF FetchFits, DataFits, TabOK, ToldFits
<1>5. QED
  BY <1>1, <1>2, <1>3, <1>4, QuietStep DEF TabOK

LEMMA QueryAnsweredOK ==
    ASSUME IInv, NEW t \in Tabs, QueryAnswered(t)
    PROVE  PageOK'
<1> DEFINE q == [page[t] EXCEPT !.data = fetch[t].reply, !.error = FALSE, !.stale = FALSE]
           p == Render(q)
           cs == Attached(calls[t], q)
<1>1. /\ page[t] \in Pages /\ fetch[t] \in Queries \cup {Idle}
      /\ calls[t] \in SUBSET Calls /\ told[t] \in 0..MaxVersion /\ TabOK(t)
  BY OwnTab DEF IInv
<1>2. fetch[t].reply \in Snapshots /\ told[t] <= fetch[t].reply.version
  BY <1>1 DEF QueryAnswered, TabOK, FetchFits
<1>3. q \in Pages /\ q.shown = page[t].shown /\ q.data = fetch[t].reply
  BY <1>1, <1>2 DEF Pages
<1>4. page' = [page EXCEPT ![t] = p] /\ calls' = [calls EXCEPT ![t] = cs]
  BY DEF QueryAnswered, Show, IInv, PageOK
<1> HIDE DEF q
<1>5. p \in Pages /\ p.shown = page[t].shown /\ p.data = fetch[t].reply
  BY <1>3, RenderOK DEF IInv
<1>6. cs \in SUBSET Calls /\ CallsFit(cs, events, cr.version)
  BY <1>1, AttachedOK, AttachedFit DEF TabOK
<1> HIDE DEF p, cs
<1>7. DataFits(p, Idle, told[t])
  <2>1. told[t] \in Nat /\ fetch[t].reply.version \in Nat
    BY <1>1, <1>2, StartsAssumption, VersionIsNatural
  <2>2. QED
    BY <1>2, <1>5, <2>1 DEF DataFits
<1>8. ToldFits(p, told[t], cr.version)
  BY <1>1, <1>5 DEF TabOK, ToldFits
<1>9. UNCHANGED <<cr, events>> /\ fetch' = [fetch EXCEPT ![t] = Idle] /\ told' = [told EXCEPT ![t] = told[t]]
  BY OwnTab DEF QueryAnswered, sessionVars, IInv
<1>10. QED
  BY <1>1, <1>4, <1>5, <1>6, <1>7, <1>8, <1>9, WaitingIsQuery, QuietStep

LEMMA QueryFailedOK ==
    ASSUME IInv, NEW t \in Tabs, QueryFailed(t)
    PROVE  PageOK'
<1> DEFINE q == [page[t] EXCEPT !.error = TRUE]
           p == Render(q)
           cs == Attached(calls[t], q)
<1>1. /\ page[t] \in Pages /\ fetch[t] \in Queries \cup {Idle}
      /\ calls[t] \in SUBSET Calls /\ told[t] \in 0..MaxVersion /\ TabOK(t)
  BY OwnTab DEF IInv
<1>2. q \in Pages /\ q.shown = page[t].shown /\ q.error
  BY <1>1 DEF Pages
<1>3. page' = [page EXCEPT ![t] = p] /\ calls' = [calls EXCEPT ![t] = cs]
  BY DEF QueryFailed, Show, IInv, PageOK
<1> HIDE DEF q
<1>4. p \in Pages /\ p.shown = page[t].shown /\ p.error
  BY <1>2, RenderOK DEF IInv
<1>5. cs \in SUBSET Calls /\ CallsFit(cs, events, cr.version)
  BY <1>1, AttachedOK, AttachedFit DEF TabOK
<1> HIDE DEF p, cs
<1>6. DataFits(p, Idle, told[t])
  BY <1>4 DEF DataFits
<1>7. ToldFits(p, told[t], cr.version)
  BY <1>1, <1>4 DEF TabOK, ToldFits
<1>8. /\ UNCHANGED cr /\ events' \in {events, events + 1}
      /\ fetch' = [fetch EXCEPT ![t] = Idle] /\ told' = [told EXCEPT ![t] = told[t]]
  BY OwnTab DEF QueryFailed, Event, IInv
<1>9. QED
  BY <1>1, <1>3, <1>4, <1>5, <1>6, <1>7, <1>8, WaitingIsQuery, QuietStep

\* A step that renders the tab with other panel state, the rest as it is.
LEMMA ShownOK ==
    ASSUME IInv, NEW t \in Tabs, NEW q \in Pages,
           q.shown = page[t].shown, q.data = page[t].data, q.error = page[t].error,
           Show(t, q), NEW cs \in SUBSET calls[t], calls' = [calls EXCEPT ![t] = cs],
           UNCHANGED <<cr, fetch, told>>, events' \in {events, events + 1}
    PROVE  PageOK'
<1> DEFINE p == Render(q)
<1>1. /\ page[t] \in Pages /\ fetch[t] \in Queries \cup {Idle}
      /\ calls[t] \in SUBSET Calls /\ told[t] \in 0..MaxVersion /\ TabOK(t)
      /\ fetch' = [fetch EXCEPT ![t] = fetch[t]] /\ told' = [told EXCEPT ![t] = told[t]]
  BY OwnTab DEF IInv
<1>2. page' = [page EXCEPT ![t] = p]
  BY DEF Show
<1>3. /\ p \in Pages /\ p.shown = page[t].shown /\ p.data = page[t].data /\ p.error = page[t].error
  BY RenderOK DEF IInv
<1> HIDE DEF p
<1>4. ToldFits(p, told[t], cr.version) /\ DataFits(p, fetch[t], told[t]) /\ FetchFits(fetch[t], told[t])
  BY <1>1, <1>3 DEF TabOK, ToldFits, DataFits
<1>5. cs \in SUBSET Calls /\ CallsFit(cs, events, cr.version)
  BY <1>1, FewerFit DEF TabOK
<1>6. QED
  BY <1>1, <1>2, <1>3, <1>4, <1>5, QuietStep

\* What the page does by itself, or what only opens and closes its forms.
LEMMA FormOK ==
    ASSUME IInv, NEW t \in Tabs, NEW op \in ActionOps,
           ToggleForm(t, op) \/ Dismiss(t) \/ ToggleFailure(t) \/ Rerender(t)
    PROVE  PageOK'
<1>1. page[t] \in Pages /\ calls' = [calls EXCEPT ![t] = calls[t]]
  BY OwnTab DEF IInv, ToggleForm, Dismiss, ToggleFailure, Rerender
<1>2. UNCHANGED <<cr, fetch, told, events>>
  BY DEF ToggleForm, Dismiss, ToggleFailure, Rerender, sessionVars
<1>3. \E q \in Pages : /\ q.shown = page[t].shown /\ q.data = page[t].data /\ q.error = page[t].error
                       /\ Show(t, q)
  <2>1. CASE ToggleForm(t, op)
    <3> DEFINE q == [page[t] EXCEPT !.form = IF @ = op THEN "none" ELSE op]
    <3>1. q \in Pages /\ q.shown = page[t].shown /\ q.data = page[t].data /\ q.error = page[t].error
      BY <1>1 DEF Pages
    <3>2. Show(t, q)
      BY <2>1 DEF ToggleForm
    <3>3. QED
      BY <3>1, <3>2
  <2>2. CASE Dismiss(t)
    <3> DEFINE q == [page[t] EXCEPT !.form = "none"]
    <3>1. q \in Pages /\ q.shown = page[t].shown /\ q.data = page[t].data /\ q.error = page[t].error
      BY <1>1 DEF Pages
    <3>2. Show(t, q)
      BY <2>2 DEF Dismiss
    <3>3. QED
      BY <3>1, <3>2
  <2>3. CASE ToggleFailure(t)
    <3> DEFINE q == [page[t] EXCEPT !.failing = ~@]
    <3>1. q \in Pages /\ q.shown = page[t].shown /\ q.data = page[t].data /\ q.error = page[t].error
      BY <1>1 DEF Pages
    <3>2. Show(t, q)
      BY <2>3 DEF ToggleFailure
    <3>3. QED
      BY <3>1, <3>2
  <2>4. CASE Rerender(t)
    BY <1>1, <2>4 DEF Rerender
  <2>5. QED
    BY <2>1, <2>2, <2>3, <2>4
<1>4. QED
  BY <1>1, <1>2, <1>3, ShownOK

\* A click sends a request, if none of its panel is under way.
LEMMA SendOK ==
    ASSUME IInv, NEW t \in Tabs, NEW op \in Ops, NEW panel \in {"actions", "execution"},
           ~Pending(t, panel), NEW q \in Pages,
           q.shown = page[t].shown, q.data = page[t].data, q.error = page[t].error,
           Show(t, q), Send(t, panel, op)
    PROVE  PageOK'
<1> DEFINE p == Render(q)
           new == [n |-> events, panel |-> panel, op |-> op, headers |-> Headers, reply |-> Nobody]
           cs == calls[t] \cup {new}
<1>1. /\ page[t] \in Pages /\ fetch[t] \in Queries \cup {Idle}
      /\ calls[t] \in SUBSET Calls /\ told[t] \in 0..MaxVersion /\ TabOK(t)
      /\ fetch' = [fetch EXCEPT ![t] = fetch[t]] /\ told' = [told EXCEPT ![t] = told[t]]
  BY OwnTab DEF IInv, Send
<1>2. page' = [page EXCEPT ![t] = p]
  BY DEF Show
<1>3. /\ p \in Pages /\ p.shown = page[t].shown /\ p.data = page[t].data /\ p.error = page[t].error
  BY RenderOK DEF IInv
<1> HIDE DEF p
<1>4. ToldFits(p, told[t], cr.version) /\ DataFits(p, fetch[t], told[t]) /\ FetchFits(fetch[t], told[t])
  BY <1>1, <1>3 DEF TabOK, ToldFits, DataFits
<1>5. events \in Nat /\ events' = events + 1
  BY Numbers DEF Send, Event
<1>6. calls' = [calls EXCEPT ![t] = cs]
  BY DEF Send, IInv, PageOK
<1>7. new \in Calls
  BY <1>5 DEF Calls, Headers, IInv, SessionOK
<1>8. new.n = events /\ new.panel = panel /\ new.reply = Nobody
  OBVIOUS
<1> HIDE DEF new
<1>9. cs \in SUBSET Calls
  BY <1>1, <1>7
<1>10. CallsFit(cs, events + 1, cr.version)
  <2>1. \A c \in calls[t] : c.n \in Nat /\ c.n < events /\ c.panel # panel
    BY <1>1 DEF TabOK, CallsFit, Calls, Pending
  <2>2. \A c \in cs : c.n < events + 1
    BY <1>5, <1>8, <2>1
  <2>3. \A c \in calls[t] : c.n # new.n /\ c.panel # new.panel
    BY <1>5, <1>8, <2>1
  <2>4. \A c, d \in cs : /\ c.n = d.n => c = d
                         /\ c.panel = d.panel /\ c.panel \in {"actions", "execution"} => c = d
    BY <1>1, <2>3 DEF TabOK, CallsFit
  <2>5. \A c \in cs : c.reply \notin {Nobody, Refused} => c.reply \in Snapshots /\ c.reply.version <= cr.version
    BY <1>1, <1>8 DEF TabOK, CallsFit
  <2>6. QED
    BY <2>2, <2>4, <2>5 DEF CallsFit
<1> HIDE DEF cs
<1>11. /\ PageOK /\ cr \in Snapshots /\ cr' \in Snapshots /\ cr.version <= cr'.version
       /\ events' \in Nat /\ events <= events'
  BY <1>5, Numbers DEF Send, IInv
<1>12. CallsFit(cs, events', cr'.version) /\ ToldFits(p, told[t], cr'.version)
  BY <1>4, <1>5, <1>10 DEF Send
<1>13. QED
  BY <1>1, <1>2, <1>3, <1>4, <1>5, <1>6, <1>9, <1>11, <1>12, TabStep

LEMMA ClickOK ==
    ASSUME IInv, NEW t \in Tabs, NEW op \in Ops,
           ClickAction(t, op) \/ ClickExecution(t, op) \/ Confirm(t) \/ ConfirmFailure(t)
    PROVE  PageOK'
<1>1. page[t] \in Pages
  BY OwnTab DEF IInv
<1>2. CASE ClickAction(t, op)
  BY <1>1, <1>2, SendOK DEF ClickAction
<1>3. CASE ClickExecution(t, op)
  BY <1>1, <1>3, SendOK DEF ClickExecution
<1>4. CASE Confirm(t)
  <2> DEFINE q == [page[t] EXCEPT !.form = "none"]
  <2>1. q \in Pages /\ q.shown = page[t].shown /\ q.data = page[t].data /\ q.error = page[t].error
    BY <1>1 DEF Pages
  <2>2. page[t].form \in Ops
    BY <1>1, <1>4 DEF Pages, Confirm, FormVisible, Ops
  <2>3. Show(t, q) /\ Send(t, "actions", page[t].form) /\ ~Pending(t, "actions")
    BY <1>4 DEF Confirm
  <2> HIDE DEF q
  <2>4. QED
    BY <2>1, <2>2, <2>3, SendOK
<1>5. CASE ConfirmFailure(t)
  <2> DEFINE q == [page[t] EXCEPT !.failing = FALSE]
  <2>1. q \in Pages /\ q.shown = page[t].shown /\ q.data = page[t].data /\ q.error = page[t].error
    BY <1>1 DEF Pages
  <2>2. Show(t, q) /\ Send(t, "execution", "fail") /\ ~Pending(t, "execution")
    BY <1>5 DEF ConfirmFailure
  <2>3. "fail" \in Ops
    BY OpNames
  <2> HIDE DEF q
  <2>4. QED
    BY <2>1, <2>2, <2>3, SendOK
<1>6. QED
  BY <1>2, <1>3, <1>4, <1>5

\* A request that is answered with an error, or lost, changes nothing of the data.
LEMMA CallEndsOK ==
    ASSUME IInv, NEW t \in Tabs, NEW c \in calls[t], Failed(t, c) \/ CallLost(t, c)
    PROVE  PageOK'
<1>1. page[t] \in Pages /\ calls[t] \ {c} \in SUBSET calls[t]
  BY OwnTab DEF IInv
<1>2. calls' = [calls EXCEPT ![t] = calls[t] \ {c}]
  BY DEF Failed, CallLost, IInv, PageOK
<1>3. /\ UNCHANGED <<cr, fetch, told>> /\ events' \in {events, events + 1} /\ Show(t, page[t])
  BY DEF Failed, CallLost, sessionVars, Event
<1>4. QED
  BY <1>1, <1>2, <1>3, ShownOK

\* The server serves a request: the answer is the change request as it is then.
LEMMA RepliedFit ==
    ASSUME NEW cs \in SUBSET Calls, NEW h, NEW v, CallsFit(cs, h, v), NEW c \in cs,
           NEW r, r = Refused \/ (r \in Snapshots /\ r.version <= v)
    PROVE  /\ (cs \ {c}) \cup {[c EXCEPT !.reply = r]} \in SUBSET Calls
           /\ CallsFit((cs \ {c}) \cup {[c EXCEPT !.reply = r]}, h, v)
<1> DEFINE d == [c EXCEPT !.reply = r]
<1>1. d \in Calls /\ d.n = c.n /\ d.panel = c.panel /\ d.reply = r
  BY DEF Calls
<1> HIDE DEF d
<1>2. \A x, y \in (cs \ {c}) \cup {d} :
        /\ x.n = y.n => x = y
        /\ x.panel = y.panel /\ x.panel \in {"actions", "execution"} => x = y
  BY <1>1 DEF CallsFit
<1>3. \A x \in (cs \ {c}) \cup {d} :
        /\ x.n < h
        /\ x.reply \notin {Nobody, Refused} => x.reply \in Snapshots /\ x.reply.version <= v
  BY <1>1 DEF CallsFit
<1>4. (cs \ {c}) \cup {d} \in SUBSET Calls /\ CallsFit((cs \ {c}) \cup {d}, h, v)
  BY <1>1, <1>2, <1>3 DEF CallsFit
<1>5. QED
  BY <1>4 DEF d

LEMMA HeadersOK ==
    ASSUME IInv, NEW c \in Calls, NEW who, who = Authenticate(c.headers), who # Nobody
    PROVE  who.role \in UserRole \cup {"none"}
<1>1. c.headers.token \in Records \cup {Nobody} /\ c.headers.identity \in Identities \cup {Nobody}
  BY DEF Calls
<1>2. CASE c.headers.token # Nobody
  <2>1. c.headers.token.id \in Users
    BY <1>1, <1>2 DEF Records
  <2>2. who.role = accounts[c.headers.token.id].role
    BY <1>2, <2>1 DEF Authenticate, AuthenticateWithJwt, PublicUser
  <2>3. QED
    BY <2>1, <2>2 DEF IInv, SessionOK, AccountRow
<1>3. CASE c.headers.token = Nobody
  <2>1. c.headers.identity \in Identities /\ who.role = RoleFromLegacy[c.headers.identity.role]
    BY <1>1, <1>3 DEF Authenticate, ResolveLegacyHeaderUser
  <2>2. QED
    BY <2>1, RoleRead DEF Identities
<1>4. QED
  BY <1>2, <1>3

LEMMA ServeCallOK ==
    ASSUME IInv, NEW t \in Tabs, NEW c \in calls[t], ServeCall(t, c)
    PROVE  PageOK' /\ ServerOK'
<1>1. /\ page[t] \in Pages /\ fetch[t] \in Queries \cup {Idle}
      /\ calls[t] \in SUBSET Calls /\ told[t] \in 0..MaxVersion /\ TabOK(t)
      /\ page' = [page EXCEPT ![t] = page[t]] /\ fetch' = [fetch EXCEPT ![t] = fetch[t]]
      /\ told' = [told EXCEPT ![t] = told[t]]
  BY OwnTab DEF IInv, ServeCall
<1>2. UNCHANGED events /\ events \in Nat /\ cr \in Snapshots /\ cr.version \in Nat
  BY Numbers DEF ServeCall, sessionVars
<1>3. ServerOK' /\ cr' \in Snapshots /\ cr.version <= cr'.version
  <2>1. CASE UNCHANGED cr
    BY <1>2, <2>1 DEF IInv, ServerOK, DecisionsFit
  <2>2. CASE ~UNCHANGED cr
    <3>1. PICK role : Accepts(c.op, role) /\ cr.version < MaxVersion /\ cr' = After(c.op, role)
      BY <2>2 DEF ServeCall
    <3>2. c.op \in Ops
      BY <1>1 DEF Calls
    <3>3. /\ cr' \in Snapshots /\ DecisionsFit(cr') /\ cr'.version = cr.version + 1
      BY <3>1, <3>2, AfterOK DEF IInv
    <3>4. QED
      BY <1>2, <3>3 DEF ServerOK, DecisionsFit
  <2>3. QED
    BY <2>1, <2>2
<1>4. PICK r \in {cr', Refused} : Reply(t, c, r)
  BY DEF ServeCall
<1> DEFINE cs == (calls[t] \ {c}) \cup {[c EXCEPT !.reply = r]}
<1>5. cr'.version \in Nat /\ cr'.version <= cr'.version
  BY <1>3, VersionIsNatural
<1>6. CallsFit(calls[t], events, cr'.version)
  BY <1>1, <1>2, <1>3, <1>5, CallsFitLater DEF TabOK
<1>7. cs \in SUBSET Calls /\ CallsFit(cs, events, cr'.version)
  BY <1>1, <1>3, <1>4, <1>5, <1>6, RepliedFit
<1>8. calls' = [calls EXCEPT ![t] = cs]
  BY <1>4 DEF Reply, IInv, PageOK
<1> HIDE DEF cs
<1>9. /\ FetchFits(fetch[t], told[t]) /\ DataFits(page[t], fetch[t], told[t])
      /\ ToldFits(page[t], told[t], cr'.version)
  <2>1. told[t] \in Nat
    BY <1>1, StartsAssumption
  <2>2. QED
    BY <1>1, <1>2, <1>3, <1>5, <2>1 DEF TabOK, ToldFits
<1>10. PageOK'
  <2>1. PageOK /\ events' \in Nat /\ events <= events' /\ CallsFit(cs, events', cr'.version)
    BY <1>2, <1>7 DEF IInv
  <2>2. QED
    BY <1>1, <1>2, <1>3, <1>7, <1>8, <1>9, <2>1, TabStep
<1>11. QED
  BY <1>3, <1>10

\* An answer while the page is shown is told, and the query begins anew.
LEMMA SucceededOK ==
    ASSUME IInv, NEW t \in Tabs, NEW c \in calls[t], Succeeded(t, c)
    PROVE  PageOK'
<1> DEFINE q == [page[t] EXCEPT !.data = c.reply, !.error = FALSE, !.stale = TRUE]
           p == Render(q)
           cs == Attached(calls[t] \ {c}, p)
           f == IF page[t].shown THEN Waiting ELSE fetch[t]
           v == IF page[t].shown /\ told[t] < c.reply.version THEN c.reply.version ELSE told[t]
<1>1. /\ page[t] \in Pages /\ fetch[t] \in Queries \cup {Idle}
      /\ calls[t] \in SUBSET Calls /\ told[t] \in 0..MaxVersion /\ TabOK(t)
  BY OwnTab DEF IInv
<1>2. c.reply \in Snapshots /\ c.reply.version <= cr.version
  BY <1>1 DEF Succeeded, TabOK, CallsFit
<1>3. q \in Pages /\ q.shown = page[t].shown
  BY <1>1, <1>2 DEF Pages
<1>4. page' = [page EXCEPT ![t] = p] /\ page'[t] = p
  BY DEF Succeeded, Stored, Show, IInv, PageOK
<1>5. calls' = [calls EXCEPT ![t] = cs]
  BY <1>4 DEF Succeeded, IInv, PageOK
<1>6. fetch' = [fetch EXCEPT ![t] = f]
  BY OwnTab DEF Succeeded, Stored, IInv
<1>7. told' = [told EXCEPT ![t] = v]
  BY DEF Succeeded, IInv, PageOK
<1>8. UNCHANGED <<cr, events>>
  BY DEF Succeeded, sessionVars
<1> HIDE DEF q
<1>9. p \in Pages /\ p.shown = page[t].shown
  BY <1>3, RenderOK DEF IInv
<1>10. cs \in SUBSET Calls /\ CallsFit(cs, events, cr.version)
  BY <1>1, FewerFit, AttachedOK, AttachedFit DEF TabOK
<1> HIDE DEF p, cs
<1>11. /\ v \in 0..MaxVersion /\ v <= cr.version /\ (~page[t].shown => v = 0)
  BY <1>1, <1>2 DEF Snapshots, TabOK, ToldFits
<1>12. /\ f \in Queries \cup {Idle} /\ FetchFits(f, v) /\ DataFits(p, f, v)
  <2>1. CASE page[t].shown
    <3>1. f = Waiting
      BY <2>1
    <3>2. QED
      BY <3>1, WaitingIsQuery DEF DataFits
  <2>2. CASE ~page[t].shown
    <3>1. f = fetch[t] /\ v = 0
      BY <1>11, <2>2
    <3>2. QED
      BY <1>1, <1>9, <3>1, FetchFitsNothing, DataFitNothing DEF TabOK
  <2>3. QED
    BY <2>1, <2>2
<1> HIDE DEF f, v
<1>13. ToldFits(p, v, cr.version)
  BY <1>9, <1>11 DEF ToldFits
<1>14. QED
  BY <1>4, <1>5, <1>6, <1>7, <1>8, <1>9, <1>10, <1>11, <1>12, <1>13, QuietStep

\* A load forgets what the tab had; its requests stay on their way.
LEMMA LoadOK ==
    ASSUME IInv, NEW t \in Tabs, Load(t)
    PROVE  PageOK'
<1> DEFINE p == [shown |-> FALSE, data |-> NoData, stale |-> FALSE, error |-> FALSE,
                 acting |-> Nobody, form |-> "none", failing |-> FALSE]
           F(c) == [c EXCEPT !.panel = "closed"]
           cs == {F(c) : c \in calls[t]}
<1>1. calls[t] \in SUBSET Calls /\ TabOK(t)
  BY OwnTab DEF IInv
<1>2. p \in Pages /\ ~p.shown
  BY DEF Pages
<1>3. /\ page' = [page EXCEPT ![t] = p] /\ fetch' = [fetch EXCEPT ![t] = Idle]
      /\ calls' = [calls EXCEPT ![t] = cs] /\ told' = [told EXCEPT ![t] = 0]
  BY DEF Load, IInv, PageOK
<1>4. UNCHANGED cr /\ events' \in {events, events + 1}
  BY DEF Load, LoadTab, Event
<1> HIDE DEF p
<1>5. \A c \in calls[t] : F(c) \in Calls /\ F(c).n = c.n /\ F(c).reply = c.reply /\ F(c).panel = "closed"
  BY <1>1 DEF Calls
<1> HIDE DEF F
<1>6. cs \in SUBSET Calls /\ \A d \in cs : \E c \in calls[t] : d = F(c)
  BY <1>5
<1>7. CallsFit(cs, events, cr.version)
  <2>1. ASSUME NEW d \in cs, NEW e \in cs
        PROVE  d.panel = "closed" /\ (d.n = e.n => d = e)
    <3>1. PICK c \in calls[t] : d = F(c)
      BY <1>6
    <3>2. PICK b \in calls[t] : e = F(b)
      BY <1>6
    <3>3. c.n = b.n => c = b
      BY <1>1 DEF TabOK, CallsFit
    <3>4. QED
      BY <1>5, <3>1, <3>2, <3>3
  <2>2. ASSUME NEW d \in cs
        PROVE  /\ d.n < events
               /\ d.reply \notin {Nobody, Refused} => d.reply \in Snapshots /\ d.reply.version <= cr.version
    <3>1. PICK c \in calls[t] : d = F(c)
      BY <1>6
    <3>2. QED
      BY <1>1, <1>5, <3>1 DEF TabOK, CallsFit
  <2>3. QED
    BY <2>1, <2>2 DEF CallsFit
<1> HIDE DEF cs
<1>8. ToldFits(p, 0, cr.version) /\ DataFits(p, Idle, 0)
  BY <1>2, Numbers, DataFitNothing DEF ToldFits
<1>9. QED
  BY <1>2, <1>3, <1>4, <1>6, <1>7, <1>8, WaitingIsQuery, ZeroIsVersion, QuietStep

\* Steps of the session, and of colleagues, touch no page.
LEMMA ElsewhereOK ==
    ASSUME IInv, UNCHANGED <<page, fetch, calls, told>>, UNCHANGED cr, events' \in {events, events + 1}
    PROVE  PageOK' /\ ServerOK'
<1>1. events' \in Nat /\ events <= events'
  BY Numbers
<1>2. PageOK'
  BY <1>1, Numbers, PageKept DEF IInv
<1>3. QED
  BY <1>2 DEF IInv, ServerOK, DecisionsFit

LEMMA ColleagueOK ==
    ASSUME IInv, NEW op \in Ops, NEW role, Colleague(op, role)
    PROVE  PageOK' /\ ServerOK'
<1>1. cr' \in Snapshots /\ DecisionsFit(cr') /\ cr'.version = cr.version + 1
  BY AfterOK DEF Colleague, IInv
<1>2. cr.version <= cr'.version /\ UNCHANGED <<page, fetch, calls, told, events>>
  BY <1>1, Numbers DEF Colleague, sessionVars
<1>3. PageOK'
  BY <1>1, <1>2, Numbers, PageKept DEF IInv
<1>4. QED
  BY <1>1, <1>3 DEF ServerOK, DecisionsFit

-----------------------------------------------------------------------------
(* The invariant *)

LEMMA Initially == Init => IInv
<1> SUFFICES ASSUME Init PROVE IInv
  OBVIOUS
<1>1. SessionOK
  <2>1. accounts \in [Users -> AccountRow]
    BY AccountsAssumption DEF Init, SessionInit
  <2>2. PICK u \in Users : /\ Usable(u)
                           /\ token = PublicUser(u) /\ storedUser = token /\ identity = LegacyIdentity(token)
    BY DEF Init, SessionInit
  <2>3. token \in Records
    BY <2>1, <2>2 DEF Usable, PublicUser, Records, AccountRow
  <2>4. identity \in Identities
    BY <2>2, <2>3, LegacyRecord
  <2>5. user \in [Tabs -> Records \cup {Nobody}]
    BY <2>2, <2>3 DEF Init, SessionInit
  <2>6. /\ me \in [Tabs -> Questions] /\ signIn \in [Tabs -> Questions]
        /\ \A t \in Tabs : QuestionOK(me[t]) /\ QuestionOK(signIn[t])
    BY IdleIsQuestion DEF Init, SessionInit
  <2>7. events \in Nat
    BY DEF Init, SessionInit
  <2>8. QED
    BY <2>1, <2>2, <2>3, <2>4, <2>5, <2>6, <2>7 DEF SessionOK
<1>2. ServerOK
  BY StartsAssumption DEF Init, ServerOK
<1>3. PageOK
  <2> DEFINE p == [shown |-> FALSE, data |-> NoData, stale |-> FALSE, error |-> FALSE,
                   acting |-> Nobody, form |-> "none", failing |-> FALSE]
  <2>1. /\ page = [t \in Tabs |-> p] /\ fetch = [t \in Tabs |-> Idle]
        /\ calls = [t \in Tabs |-> {}] /\ told = [t \in Tabs |-> 0]
    BY DEF Init
  <2>2. p \in Pages /\ ~p.shown
    BY DEF Pages
  <2> HIDE DEF p
  <2>3. cr.version \in Nat
    BY <1>2, VersionIsNatural DEF ServerOK
  <2>4. ToldFits(p, 0, cr.version) /\ DataFits(p, Idle, 0) /\ FetchFits(Idle, 0)
    BY <2>2, <2>3, DataFitNothing, WaitingIsQuery DEF ToldFits
  <2>5. CallsFit({}, events, cr.version)
    BY DEF CallsFit
  <2>6. \A t \in Tabs : TabOK(t)
    BY <2>1, <2>4, <2>5 DEF TabOK
  <2>7. QED
    BY <2>1, <2>2, <2>6, ZeroIsVersion DEF PageOK
<1>4. QED
  BY <1>1, <1>2, <1>3 DEF IInv

\* What the user of a tab does.
LEMMA UserKeeps ==
    ASSUME IInv, NEW t \in Tabs, User(t)
    PROVE  IInv'
<1>1. ServerOK'
  <2>1. UNCHANGED cr
    BY DEF User, Visit, Leave, Left, Refetch, Rerender, Load, SignIn, Logout, pageVars,
           ClickAction, ToggleForm, ClickExecution, Confirm, Dismiss, ToggleFailure, ConfirmFailure, Send
  <2>2. QED
    BY <2>1 DEF IInv, ServerOK, DecisionsFit
<1>2. SessionOK /\ PageOK
  BY DEF IInv
<1>3. ASSUME Visit(t) \/ Leave(t) \/ Refetch(t) \/ Rerender(t)
      PROVE  SessionOK' /\ PageOK'
  <2>1. UNCHANGED sessionVars
    BY <1>3 DEF Visit, Leave, Refetch, Rerender
  <2>2. PageOK'
    <3>1. CASE Visit(t)
      BY <3>1, VisitOK
    <3>2. CASE Leave(t)
      BY <3>2, LeftOK DEF Leave, sessionVars
    <3>3. CASE Refetch(t)
      BY <3>3, RefetchOK
    <3>4. CASE Rerender(t)
      BY <3>4, FormOK DEF ActionOps
    <3>5. QED
      BY <1>3, <3>1, <3>2, <3>3, <3>4
  <2>3. QED
    BY <1>2, <2>1, <2>2, SessionKept
<1>4. ASSUME Load(t)
      PROVE  SessionOK' /\ PageOK'
  BY <1>2, <1>4, LoadOK, LoadTabOK DEF Load
<1>5. ASSUME SignIn(t)
      PROVE  SessionOK' /\ PageOK'
  <2>1. CASE SignInAnswered(t) /\ Left(t)
    <3>1. UNCHANGED events
      BY <2>1 DEF SignInAnswered
    <3>2. QED
      BY <1>2, <2>1, <3>1, LeftOK, SignInAnsweredOK
  <2>2. ASSUME NEW u \in Users, NEW kind \in {"login", "register"}, SubmitSignIn(t, kind, u),
               UNCHANGED pageVars
        PROVE  SessionOK' /\ PageOK'
    <3>1. events' \in {events, events + 1}
      BY <2>2 DEF SubmitSignIn, Event
    <3>2. UNCHANGED <<page, fetch, calls, told>> /\ UNCHANGED cr
      BY <2>2 DEF pageVars
    <3>3. PageOK'
      BY <3>1, <3>2, ElsewhereOK
    <3>4. SessionOK'
      BY <1>2, <2>2, SubmitSignInOK
    <3>5. QED
      BY <3>3, <3>4
  <2>3. QED
    BY <1>5, <2>1, <2>2 DEF SignIn
<1>6. ASSUME Logout(t), UNCHANGED pageVars
      PROVE  SessionOK' /\ PageOK'
  <2>1. UNCHANGED <<page, fetch, calls, told>> /\ UNCHANGED cr /\ events' \in {events, events + 1}
    BY <1>6 DEF pageVars, Logout
  <2>2. QED
    BY <1>2, <1>6, <2>1, ElsewhereOK, LogoutOK
<1>7. ASSUME NEW op \in Ops,
             ClickAction(t, op) \/ ClickExecution(t, op) \/ Confirm(t) \/ ConfirmFailure(t)
      PROVE  SessionOK' /\ PageOK'
  <2>1. Event /\ UNCHANGED <<accounts, storage, user, me, signIn>>
    BY <1>7 DEF ClickAction, ClickExecution, Confirm, ConfirmFailure, Send
  <2>2. QED
    BY <1>2, <1>7, <2>1, CountedOK, ClickOK
<1>8. ASSUME NEW op \in ActionOps, ToggleForm(t, op) \/ Dismiss(t) \/ ToggleFailure(t)
      PROVE  SessionOK' /\ PageOK'
  <2>1. UNCHANGED sessionVars
    BY <1>8 DEF ToggleForm, Dismiss, ToggleFailure
  <2>2. QED
    BY <1>2, <1>8, <2>1, SessionKept, FormOK
<1>9. "submit" \in ActionOps /\ ActionOps \subseteq Ops /\ ExecutionOps \subseteq Ops
  BY DEF Ops, ActionOps
<1>10. SessionOK' /\ PageOK'
  BY <1>3, <1>4, <1>5, <1>6, <1>7, <1>8, <1>9 DEF User
<1>11. QED
  BY <1>1, <1>10 DEF IInv

\* What arrives at a tab or at the server.
LEMMA NetworkKeeps ==
    ASSUME IInv, NEW t \in Tabs, Network(t)
    PROVE  IInv'
<1>1. SessionOK /\ PageOK /\ ServerOK
  BY DEF IInv
<1>2. ASSUME UNCHANGED cr
      PROVE  ServerOK'
  BY <1>1, <1>2 DEF ServerOK, DecisionsFit
<1>3. ASSUME QueryServed(t) \/ QueryAnswered(t) \/ QueryFailed(t)
      PROVE  IInv'
  <2>1. UNCHANGED cr
    BY <1>3 DEF QueryServed, QueryAnswered, QueryFailed
  <2>2. PageOK'
    BY <1>3, QueryServedOK, QueryAnsweredOK, QueryFailedOK
  <2>3. UNCHANGED sessionVars \/ (Event /\ UNCHANGED <<accounts, storage, user, me, signIn>>)
    BY <1>3 DEF QueryServed, QueryAnswered, QueryFailed
  <2>4. SessionOK'
    BY <1>1, <2>3, SessionKept, CountedOK
  <2>5. QED
    BY <1>2, <2>1, <2>2, <2>4 DEF IInv
<1>4. ASSUME NEW c \in calls[t], ServeCall(t, c)
      PROVE  IInv'
  BY <1>1, <1>4, ServeCallOK, SessionKept DEF ServeCall, IInv
<1>5. ASSUME NEW c \in calls[t], Succeeded(t, c) \/ Failed(t, c) \/ CallLost(t, c)
      PROVE  IInv'
  <2>1. UNCHANGED cr
    BY <1>5 DEF Succeeded, Failed, CallLost
  <2>2. PageOK'
    BY <1>5, SucceededOK, CallEndsOK
  <2>3. UNCHANGED sessionVars \/ (Event /\ UNCHANGED <<accounts, storage, user, me, signIn>>)
    BY <1>5 DEF Succeeded, Failed, CallLost
  <2>4. SessionOK'
    BY <1>1, <2>3, SessionKept, CountedOK
  <2>5. QED
    BY <1>2, <2>1, <2>2, <2>4 DEF IInv
<1>6. ASSUME ServeAuth(t) \/ MeAnswered(t) \/ MeFailed(t) \/ SignInFailed(t), UNCHANGED pageVars
      PROVE  IInv'
  <2>1. UNCHANGED <<page, fetch, calls, told>> /\ UNCHANGED cr
    BY <1>6 DEF pageVars
  <2>2. events' \in {events, events + 1}
    BY <1>6 DEF ServeAuth, ServeMe, ServeLogin, ServeRegister, MeAnswered, MeFailed, SignInFailed, Event
  <2>3. SessionOK'
    BY <1>1, <1>6, ServeMeOK, ServeLoginOK, ServeRegisterOK, MeAnsweredOK, MeFailedOK, SignInFailedOK
       DEF ServeAuth
  <2>4. QED
    BY <2>1, <2>2, <2>3, ElsewhereOK DEF IInv
<1>7. QED
  BY <1>3, <1>4, <1>5, <1>6 DEF Network

LEMMA Inductive == IInv /\ [Next]_vars => IInv'
<1> SUFFICES ASSUME IInv, [Next]_vars PROVE IInv'
  OBVIOUS
<1>1. SessionOK /\ PageOK /\ ServerOK
  BY DEF IInv
<1>2. CASE \E t \in Tabs : User(t) \/ Network(t)
  BY <1>2, UserKeeps, NetworkKeeps
<1>3. CASE \E op \in Ops, role \in DecisionRoles : Colleague(op, role)
  <2>1. PICK op \in Ops, role \in DecisionRoles : Colleague(op, role)
    BY <1>3
  <2>2. PageOK' /\ ServerOK'
    BY <2>1, ColleagueOK
  <2>3. SessionOK'
    BY <1>1, <2>1, SessionKept DEF Colleague
  <2>4. QED
    BY <2>2, <2>3 DEF IInv
<1>4. CASE Account
  <2>1. PICK u \in Users, r \in NewRoles, active \in BOOLEAN : ChangeAccount(u, r, active)
    BY <1>4 DEF Account
  <2>2. UNCHANGED <<page, fetch, calls, told>> /\ UNCHANGED cr
    BY <1>4 DEF Account, pageVars
  <2>3. events' \in {events, events + 1}
    BY <2>1 DEF ChangeAccount, Event
  <2>4. SessionOK'
    BY <1>1, <2>1, ChangeAccountOK
  <2>5. QED
    BY <2>2, <2>3, <2>4, ElsewhereOK DEF IInv
<1>5. CASE UNCHANGED vars
  <2>1. UNCHANGED sessionVars /\ UNCHANGED <<page, fetch, calls, told>> /\ UNCHANGED cr
    BY <1>5 DEF vars, pageVars
  <2>2. UNCHANGED events
    BY <2>1 DEF sessionVars
  <2>3. SessionOK'
    BY <1>1, <2>1, SessionKept
  <2>4. QED
    BY <2>1, <2>2, <2>3, ElsewhereOK DEF IInv
<1>6. QED
  BY <1>2, <1>3, <1>4, <1>5 DEF Next

LEMMA Always == Spec => []IInv
  BY Initially, Inductive, PTL DEF Spec

-----------------------------------------------------------------------------
(* What the pages show and offer *)

LEMMA PageTypes ==
    ASSUME IInv
    PROVE  TypeOK
<1>1. SessionTypeOK
  BY DEF IInv, SessionOK, SessionTypeOK, Records, Identities, AccountRow
<1>2. ASSUME NEW t \in Tabs
      PROVE  /\ page[t].data \in Snapshots \cup {NoData}
             /\ fetch[t].reply \in Snapshots \cup {Nobody}
             /\ told[t] \in 0..MaxVersion
             /\ \A c, d \in calls[t] :
                  /\ c.reply \in Snapshots \cup {Nobody, Refused}
                  /\ c.panel = d.panel /\ c.panel \in {"actions", "execution"} => c = d
  <2>1. /\ page[t] \in Pages /\ fetch[t] \in Queries \cup {Idle}
        /\ calls[t] \in SUBSET Calls /\ told[t] \in 0..MaxVersion /\ TabOK(t)
    BY OwnTab DEF IInv
  <2>2. page[t].data \in Snapshots \cup {NoData} /\ fetch[t].reply \in Snapshots \cup {Nobody}
    BY <2>1 DEF Pages, Queries, Idle
  <2>3. \A c, d \in calls[t] :
          /\ c.reply \in Snapshots \cup {Nobody, Refused}
          /\ c.panel = d.panel /\ c.panel \in {"actions", "execution"} => c = d
    BY <2>1 DEF Calls, TabOK, CallsFit
  <2>4. QED
    BY <2>1, <2>2, <2>3
<1>3. QED
  BY <1>1, <1>2 DEF TypeOK, IInv, ServerOK

LEMMA NothingOlder ==
    ASSUME IInv
    PROVE  OlderIsNotFinal
<1> SUFFICES ASSUME NEW t \in Tabs, page[t].data # NoData, page[t].data.version < told[t],
                    ~page[t].error, fetch[t] # Waiting
             PROVE  fetch[t] # Idle /\ fetch[t].reply.version >= told[t]
  BY DEF OlderIsNotFinal
<1>1. fetch[t] \in Queries \cup {Idle} /\ TabOK(t) /\ told[t] \in Nat
  BY OwnTab, StartsAssumption DEF IInv
<1>2. fetch[t] # Idle /\ fetch[t] \in Queries
  BY <1>1 DEF TabOK, DataFits
<1>3. fetch[t].reply # Nobody
  <2>1. fetch[t] = [kind |-> "query", of |-> Nobody, reply |-> fetch[t].reply]
    BY <1>2 DEF Queries
  <2>2. QED
    BY <2>1 DEF Waiting, Asked
<1>4. fetch[t].reply.version \in Nat /\ told[t] <= fetch[t].reply.version
  BY <1>1, <1>3, VersionIsNatural DEF TabOK, FetchFits
<1>5. QED
  BY <1>1, <1>2, <1>4

\* The buttons of a page whose data and role are current, action by action.
LEMMA OffersAgree ==
    ASSUME ServerOK, NEW p \in Pages, p.data = cr, p.acting \in Identities, p.acting # Nobody,
           NEW op \in Ops
    PROVE  op \in Offers(p) \cup ExecutionOffers(p) <=>
             Accepts(op, ActingRole(p)) \/ BoardBeforeCurator(op, ActingRole(p))
<1> DEFINE l == p.acting.role
           r == ActingRole(p)
<1>1. l \in LegacyRoles /\ r = RoleFromLegacy[l]
  BY DEF Identities, ActingRole
<1>2. r \in UserRole /\ l = RoleToLegacy[r]
  BY <1>1, RoleRead
<1>3. /\ r = "CURATOR" => l = "curator"
      /\ r = "GOVERNANCE_APPROVER" => l = "governance-board"
      /\ r = "ADMIN" => l = "admin"
  BY <1>2, Spellings
<1> HIDE DEF l, r
<1>4. cr.status = "PENDING_APPROVAL" => cr.board = "none" /\ cr.curator \in {"none", "approve"}
  BY DEF ServerOK, DecisionsFit, Snapshots, Decisions
<1>5. ASSUME op \in Decisions, cr.status = "PENDING_APPROVAL", r \in DecisionRoles
      PROVE  l \notin ExistingRoles(p) <=>
               \/ IF ApprovalRole(r) = "curator" THEN cr.curator = "none"
                  ELSE cr.curator = "approve" /\ cr.board = "none"
               \/ r = "GOVERNANCE_APPROVER" /\ cr.curator = "none"
  <2>1. ExistingRoles(p) = {x \in {"curator", "governance-board"} :
                              (IF x = "curator" THEN cr.curator ELSE cr.board) # "none"}
    BY DEF ExistingRoles
  <2>2. "governance-board" \notin ExistingRoles(p) /\ "admin" \notin ExistingRoles(p)
    BY <1>4, <1>5, <2>1
  <2>3. "curator" \in ExistingRoles(p) <=> cr.curator # "none"
    BY <2>1
  <2>4. CASE r = "CURATOR"
    BY <1>3, <2>3, <2>4 DEF ApprovalRole
  <2>5. CASE r = "GOVERNANCE_APPROVER"
    BY <1>3, <1>4, <1>5, <2>2, <2>5 DEF ApprovalRole
  <2>6. CASE r = "ADMIN"
    BY <1>3, <1>4, <1>5, <2>2, <2>6 DEF ApprovalRole
  <2>7. QED
    BY <1>5, <2>4, <2>5, <2>6 DEF DecisionRoles
<1>6. CASE op \in Decisions
  <2>1. From[op] = {"PENDING_APPROVAL"} /\ op \in {"approve", "reject"}
    BY <1>6, Froms DEF Decisions
  <2>2. op \in Offers(p) \cup ExecutionOffers(p) <=>
          cr.status = "PENDING_APPROVAL" /\ r \in DecisionRoles /\ l \notin ExistingRoles(p)
    BY <2>1 DEF Offers, ExecutionOffers, ActionOps, Decisions, ExecutionOps, CanApproveChangeRequests,
                DecisionRoles, l, r
  <2>3. Accepts(op, r) <=>
          /\ cr.status = "PENDING_APPROVAL" /\ r \in DecisionRoles
          /\ IF ApprovalRole(r) = "curator" THEN cr.curator = "none"
             ELSE cr.curator = "approve" /\ cr.board = "none"
    BY <1>6, <2>1 DEF Accepts, RolesFor
  <2>4. BoardBeforeCurator(op, r) <=>
          cr.status = "PENDING_APPROVAL" /\ r = "GOVERNANCE_APPROVER" /\ cr.curator = "none"
    BY <1>6 DEF BoardBeforeCurator
  <2>5. r = "GOVERNANCE_APPROVER" => r \in DecisionRoles
    BY DEF DecisionRoles
  <2>6. QED
    BY <1>5, <1>6, <2>2, <2>3, <2>4, <2>5 DEF r
<1>7. CASE op \notin Decisions
  <2>1. ~BoardBeforeCurator(op, r) /\ RolesFor(op) = ManagementRoles
    BY <1>7 DEF BoardBeforeCurator, RolesFor
  <2>2. op \in {"submit", "request", "execute", "cancel", "complete", "apply", "fail"}
    BY <1>7, OpNames DEF Decisions
  <2>3. Accepts(op, r) <=>
          /\ r \in {"CURATOR", "ADMIN"} /\ cr.status \in From[op]
          /\ op = "complete" => ~cr.structural
          /\ op = "apply" => cr.structural
    BY <1>7, <2>1 DEF Accepts, ManagementRoles
  <2>4. CASE op \in {"submit", "request", "execute", "cancel"}
    <3>1. op \in Offers(p) <=> r \in {"CURATOR", "ADMIN"} /\ cr.status \in From[op]
      BY <2>4, Froms DEF Offers, ActionOps, Decisions, CanManageChangeRequests, r
    <3>2. op \notin ExecutionOffers(p)
      BY <2>4 DEF ExecutionOffers, ExecutionOps
    <3>3. QED
      BY <2>1, <2>3, <2>4, <3>1, <3>2 DEF r
  <2>5. CASE op \in {"complete", "apply", "fail"}
    <3>1. op \in ExecutionOffers(p) <=>
            /\ cr.status = "EXECUTING" /\ r \in {"CURATOR", "ADMIN"}
            /\ op = "complete" => ~cr.structural
            /\ op = "apply" => cr.structural
      BY <2>5 DEF ExecutionOffers, ExecutionOps, CanPerformStructuralOperations, r
    <3>2. op \notin Offers(p)
      BY <2>5 DEF Offers, ActionOps, Decisions
    <3>3. From[op] = {"EXECUTING"}
      BY <2>5, Froms
    <3>4. QED
      BY <2>1, <2>3, <3>1, <3>2, <3>3 DEF r
  <2>6. QED
    BY <2>2, <2>4, <2>5
<1>8. QED
  BY <1>6, <1>7

LEMMA OffersAccepted ==
    ASSUME IInv
    PROVE  OffersWhatIsAccepted
<1> SUFFICES ASSUME NEW t \in Tabs, NEW who, who = Authenticate(Headers),
                    page[t].data = cr, page[t].acting # Nobody, who.role = ActingRole(page[t])
             PROVE  Offers(page[t]) \cup ExecutionOffers(page[t]) =
                      {op \in Ops : Accepts(op, who.role) \/ BoardBeforeCurator(op, who.role)}
  BY DEF OffersWhatIsAccepted
<1>1. page[t] \in Pages
  BY OwnTab DEF IInv
<1>2. page[t].acting \in Identities /\ ServerOK
  BY <1>1 DEF Pages, IInv
<1>3. Offers(page[t]) \cup ExecutionOffers(page[t]) \subseteq Ops
  BY DEF Offers, ExecutionOffers, Ops
<1>4. \A op \in Ops : op \in Offers(page[t]) \cup ExecutionOffers(page[t]) <=>
                        Accepts(op, who.role) \/ BoardBeforeCurator(op, who.role)
  BY <1>1, <1>2, OffersAgree
<1>5. QED
  BY <1>3, <1>4

\* What the page of a change request shows and offers, whatever its tabs, the
\* colleagues and the network do: it never settles on data older than its own
\* requests were answered with, at most one request of a panel is under way, and
\* with the current data and role it offers exactly what the server accepts
\* (handleAction, ActionsPanel and ExecutionStatusPanel of ChangeRequestDetailPage.tsx
\* against the guards of change-request.service.ts).
THEOREM PageCorrect == Spec => []PageIsRight
<1>1. IInv => PageIsRight
  BY PageTypes, NothingOlder, OffersAccepted DEF PageIsRight
<1>2. QED
  BY <1>1, Always, PTL

-----------------------------------------------------------------------------
(* What a role that was taken away can still do *)

\* No request of a tab is answered.
NoneAnswered(t) ==
    \A d \in calls'[t] :
        d.reply \in {Nobody, Refused} \/ \E c \in calls[t] : c.n = d.n /\ c.reply = d.reply

LEMMA OnlyServedAreAnswered ==
    ASSUME IInv, NEW t \in Tabs, NEW u \in Tabs, User(u) \/ Network(u),
           \A c \in calls[u] : u = t => ~ServeCall(u, c)
    PROVE  NoneAnswered(t)
<1>1. calls \in [Tabs -> SUBSET Calls]
  BY DEF IInv, PageOK
<1>2. ASSUME calls'[t] \subseteq calls[t]
      PROVE  NoneAnswered(t)
  BY <1>2 DEF NoneAnswered
<1>3. ASSUME NEW cs \in SUBSET calls[t], NEW p, calls'[t] = Attached(cs, p)
      PROVE  NoneAnswered(t)
  <2>1. Originals(Attached(cs, p), cs)
    BY <1>1, <1>3, AttachedOK
  <2>2. QED
    BY <1>3, <2>1 DEF NoneAnswered, Originals
<1>4. ASSUME NEW panel, NEW op, Send(u, panel, op)
      PROVE  NoneAnswered(t)
  BY <1>1, <1>4 DEF NoneAnswered, Send
<1>5. CASE u # t
  <2>1. calls'[t] = calls[t]
    BY <1>1, <1>5
       DEF User, Network, Visit, Leave, Left, Refetch, Rerender, Load, SignIn, Logout, pageVars,
           ClickAction, ToggleForm, ClickExecution, Confirm, Dismiss, ToggleFailure, ConfirmFailure, Send,
           QueryServed, QueryAnswered, QueryFailed, ServeCall, Reply, Succeeded, Failed, CallLost
  <2>2. QED
    BY <1>2, <2>1
<1>6. CASE u = t
  <2>1. CASE \/ Visit(u) \/ Refetch(u) \/ Rerender(u) \/ QueryServed(u)
             \/ (\E op \in ActionOps : ToggleForm(u, op)) \/ Dismiss(u) \/ ToggleFailure(u)
             \/ UNCHANGED pageVars
    <3>1. calls' = calls
      BY <2>1 DEF Visit, Refetch, Rerender, QueryServed, ToggleForm, Dismiss, ToggleFailure, pageVars
    <3>2. QED
      BY <1>2, <3>1
  <2>2. CASE \/ \E op \in ActionOps : ClickAction(u, op)
             \/ \E op \in ExecutionOps : ClickExecution(u, op)
             \/ Confirm(u) \/ ConfirmFailure(u)
    BY <1>4, <2>2 DEF ClickAction, ClickExecution, Confirm, ConfirmFailure
  <2>3. CASE Left(u) \/ QueryAnswered(u) \/ QueryFailed(u)
    <3>1. PICK p : calls' = [calls EXCEPT ![u] = Attached(calls[u], p)]
      BY <1>1, <2>3 DEF Left, QueryAnswered, QueryFailed
    <3>2. QED
      BY <1>1, <1>3, <1>6, <3>1
  <2>4. CASE \E c \in calls[u] : Succeeded(u, c)
    <3>1. PICK c \in calls[u] : Succeeded(u, c)
      BY <2>4
    <3>2. calls'[t] = Attached(calls[t] \ {c}, page'[t])
      BY <1>1, <1>6, <3>1 DEF Succeeded
    <3>3. calls[t] \ {c} \in SUBSET calls[t]
      OBVIOUS
    <3>4. QED
      BY <1>3, <3>2, <3>3
  <2>5. CASE \E c \in calls[u] : Failed(u, c) \/ CallLost(u, c)
    <3>1. calls'[t] \subseteq calls[t]
      BY <1>1, <1>6, <2>5 DEF Failed, CallLost
    <3>2. QED
      BY <1>2, <3>1
  <2>6. CASE Load(u)
    <3>1. calls'[t] = {[c EXCEPT !.panel = "closed"] : c \in calls[t]}
      BY <1>1, <1>6, <2>6 DEF Load
    <3>2. \A c \in calls[t] : [c EXCEPT !.panel = "closed"].n = c.n /\ [c EXCEPT !.panel = "closed"].reply = c.reply
      BY <1>1 DEF Calls
    <3>3. QED
      BY <3>1, <3>2 DEF NoneAnswered
  <2>7. QED
    BY <1>6, <2>1, <2>2, <2>3, <2>4, <2>5, <2>6 DEF User, Network, Leave, SignIn
<1>7. QED
  BY <1>5, <1>6

\* The one step that answers a request asks the account of its token.
LEMMA ServedByAccount ==
    ASSUME IInv, NEW t \in Tabs, NEW b \in calls[t], ServeCall(t, b),
           NEW c \in calls[t], c.reply = Nobody, c.headers.token # Nobody,
           NEW d \in calls'[t], d.n = c.n, d.reply \notin {Nobody, Refused}
    PROVE  LET a == accounts[c.headers.token.id] IN a.active /\ a.role \in RolesFor(c.op)
<1>1. calls[t] \in SUBSET Calls /\ CallsFit(calls[t], events, cr.version)
  BY OwnTab DEF IInv, TabOK
<1>2. PICK r : Reply(t, b, r)
  BY DEF ServeCall
<1>3. d \in (calls[t] \ {b}) \cup {[b EXCEPT !.reply = r]}
  BY <1>2 DEF Reply, IInv, PageOK
<1>4. d = [b EXCEPT !.reply = r] /\ d.n = b.n /\ d.reply = r
  <2>1. d \notin calls[t] \ {b}
    BY <1>1 DEF CallsFit
  <2>2. QED
    BY <1>1, <1>3, <2>1 DEF Calls
<1>5. b = c
  BY <1>1, <1>4 DEF CallsFit
<1>6. c.headers.token \in Records
  BY <1>1 DEF Calls
<1> DEFINE who == Authenticate(c.headers)
<1>7. who # Nobody /\ Accepts(c.op, who.role)
  <2>1. CASE UNCHANGED cr /\ Reply(t, b, Refused)
    <3>1. [b EXCEPT !.reply = Refused] \in calls'[t] /\ [b EXCEPT !.reply = Refused].n = b.n
      BY <1>1, <2>1 DEF Reply, IInv, PageOK, Calls
    <3>2. calls'[t] = (calls[t] \ {b}) \cup {[b EXCEPT !.reply = Refused]}
      BY <2>1 DEF Reply, IInv, PageOK
    <3>3. d = [b EXCEPT !.reply = Refused]
      BY <1>1, <1>4, <3>2 DEF CallsFit
    <3>4. d.reply = Refused
      BY <1>1, <3>3 DEF Calls
    <3>5. QED
      BY <3>4
  <2>2. CASE IF who = Nobody THEN FALSE ELSE Accepts(c.op, who.role)
    BY <2>2
  <2>3. QED
    BY <1>5, <2>1, <2>2 DEF ServeCall
<1>8. Usable(c.headers.token.id) /\ who = PublicUser(c.headers.token.id)
  BY <1>7 DEF Authenticate, AuthenticateWithJwt
<1>9. QED
  BY <1>7, <1>8 DEF Usable, PublicUser, Accepts

\* No request with a token moves the change request for an account that is
\* inactive, or whose role no longer allows it, however old the token, the page and
\* the request are (JwtStrategy.validate reads the account anew at every request).
THEOREM RolesTakeEffect == Spec => RoleChangesTakeEffect
<1>1. ASSUME IInv, [Next]_vars, NEW t \in Tabs, NEW c \in calls[t],
             c.reply = Nobody, c.headers.token # Nobody,
             NEW d \in calls'[t], d.n = c.n, d.reply \notin {Nobody, Refused}
      PROVE  LET a == accounts[c.headers.token.id] IN a.active /\ a.role \in RolesFor(c.op)
  <2>1. CASE \E b \in calls[t] : ServeCall(t, b)
    BY <1>1, <2>1, ServedByAccount
  <2>2. CASE ~\E b \in calls[t] : ServeCall(t, b)
    <3>1. CallsFit(calls[t], events, cr.version)
      BY <1>1, OwnTab DEF IInv, TabOK
    <3>2. ~NoneAnswered(t)
      BY <1>1, <3>1 DEF NoneAnswered, CallsFit
    <3>3. ASSUME UNCHANGED calls
          PROVE  FALSE
      BY <3>2, <3>3 DEF NoneAnswered
    <3>4. PICK u \in Tabs : User(u) \/ Network(u)
      BY <1>1, <3>3 DEF Next, Colleague, Account, vars, pageVars
    <3>5. QED
      BY <1>1, <2>2, <3>2, <3>4, OnlyServedAreAnswered
  <2>3. QED
    BY <2>1, <2>2
<1>2. IInv /\ [Next]_vars =>
        [\A t \in Tabs : \A c \in calls[t] :
           /\ c.reply = Nobody /\ c.headers.token # Nobody
           /\ \E d \in calls'[t] : d.n = c.n /\ d.reply \notin {Nobody, Refused}
           => LET a == accounts[c.headers.token.id] IN a.active /\ a.role \in RolesFor(c.op)]_vars
  BY <1>1
<1>3. QED
  BY <1>2, Always, PTL DEF Spec, RoleChangesTakeEffect

=============================================================================
