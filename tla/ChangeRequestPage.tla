--------------------------- MODULE ChangeRequestPage ---------------------------
(***************************************************************************)
(* The page of one change request, in tabs whose user signs in and out     *)
(* (Session), against a server on which colleagues move the same change    *)
(* request on.  A tab keeps one snapshot of it in its query cache; the     *)
(* panels offer actions by that snapshot and by the identity they read     *)
(* when they were last rendered; a click sends a request with the headers  *)
(* of the moment.  Requests and their answers are delayed, overtake one    *)
(* another and get lost.  On the server every endpoint is one atomic step: *)
(* ChangeRequest shows that it is.                                         *)
(* Source: ChangeRequestDetailPage.tsx, web api/change-requests.ts,        *)
(* auth/permissions.ts; the guards of change-request.controller.ts.        *)
(***************************************************************************)
EXTENDS Session

CONSTANTS
    NoData,         \* an empty query cache
    NewRoles,       \* the roles accounts are changed to
    Starts,         \* the states of the change request to start from
    MaxVersion      \* and how many times it moves on

VARIABLES
    cr,             \* the change request on the server; structural: of a structural type
    page,           \* of each tab: the query cache and what the page shows
    fetch,          \* of each tab: the query in flight
    calls,          \* of each tab: the requests in flight and their answers
    told            \* the newest version a tab learnt from an own request, while it stays on the page

pageVars == <<cr, page, fetch, calls, told>>
vars == <<sessionVars, pageVars>>

Terminal == {"COMPLETED", "REJECTED", "CANCELLED"}
ManagementRoles == {"CURATOR", "ADMIN"}
DecisionRoles == {"CURATOR", "GOVERNANCE_APPROVER", "ADMIN"}
Decisions == {"approve", "reject"}
ActionOps == {"submit", "request", "execute", "cancel"} \cup Decisions
ExecutionOps == {"complete", "apply", "fail"}
Ops == ActionOps \cup ExecutionOps

(* The server.                                                             *)

From == [submit |-> {"DRAFT"}, request |-> {"SUBMITTED"}, cancel |-> {"DRAFT", "SUBMITTED"},
         approve |-> {"PENDING_APPROVAL"}, reject |-> {"PENDING_APPROVAL"},
         execute |-> {"APPROVED"}, complete |-> {"EXECUTING"}, apply |-> {"EXECUTING"},
         fail |-> {"EXECUTING"}]

Snapshots ==
    [version : 0..MaxVersion, structural : BOOLEAN, curator : {"none"} \cup Decisions,
     board : {"none"} \cup Decisions, status : (UNION {From[op] : op \in Ops}) \cup Terminal]

\* Before the request for approval nobody decides, while it is pending the board
\* has not, and afterwards both have approved.
DecisionsFit(s) ==
    /\ s.status \in {"DRAFT", "SUBMITTED"} => s.curator = "none" /\ s.board = "none"
    /\ s.status = "PENDING_APPROVAL" => s.curator # "reject" /\ s.board = "none"
    /\ s.status \in {"APPROVED", "EXECUTING"} => s.curator = "approve" /\ s.board = "approve"

ASSUME StartsAssumption ==
    /\ MaxVersion \in Nat /\ NewRoles \subseteq UserRole
    /\ Starts \subseteq Snapshots /\ \A s \in Starts : DecisionsFit(s)

RolesFor(op) == IF op \in Decisions THEN DecisionRoles ELSE ManagementRoles

\* An administrator decides for whichever role is missing.
ApprovalRole(role) ==
    IF role = "CURATOR" \/ (role = "ADMIN" /\ cr.curator = "none")
    THEN "curator" ELSE "governance-board"

\* Whether the guards of the endpoint and of the service let the request pass.
Accepts(op, role) ==
    /\ role \in RolesFor(op)
    /\ cr.status \in From[op]
    /\ op = "complete" => ~cr.structural
    /\ op = "apply" => cr.structural
    /\ op \in Decisions =>
          IF ApprovalRole(role) = "curator" THEN cr.curator = "none"
          ELSE cr.curator = "approve" /\ cr.board = "none"

NextStatus(op, role) ==
    CASE op = "submit" -> "SUBMITTED"
      [] op = "request" -> "PENDING_APPROVAL"
      [] op = "cancel" -> "CANCELLED"
      [] op = "reject" -> "REJECTED"
      [] op = "approve" -> IF ApprovalRole(role) = "curator" THEN cr.status ELSE "APPROVED"
      [] op = "execute" -> "EXECUTING"
      [] op = "fail" -> "APPROVED"
      [] OTHER -> "COMPLETED"

After(op, role) ==
    LET by(approver) == op \in Decisions /\ ApprovalRole(role) = approver
    IN  [cr EXCEPT !.version = @ + 1,
                   !.status = NextStatus(op, role),
                   !.curator = IF by("curator") THEN op ELSE @,
                   !.board = IF by("governance-board") THEN op ELSE @]

\* What else may refuse: the impact gate, a lock held, an operation that does not fit.
MayFail == {"request", "execute", "apply"}

(* The page.                                                               *)

ActionsMounted(p) == p.shown /\ ~p.error /\ p.data # NoData
ExecutionMounted(p) == ActionsMounted(p) /\ p.data.status = "EXECUTING"
Mounted(p, panel) == IF panel = "actions" THEN ActionsMounted(p) ELSE ExecutionMounted(p)

\* What a render leaves: the identity read again, the state of unmounted panels gone.
Render(p) ==
    [p EXCEPT !.acting = IF ActionsMounted(p) THEN identity ELSE Nobody,
              !.form = IF ActionsMounted(p) THEN @ ELSE "none",
              !.failing = @ /\ ExecutionMounted(p)]

\* A request whose panel is unmounted goes on, but disables no button any more.
Attached(cs, p) ==
    {[c EXCEPT !.panel = IF c.panel \in {"actions", "execution"} /\ ~Mounted(p, c.panel)
                         THEN "gone" ELSE @] : c \in cs}

Show(t, p) == page' = [page EXCEPT ![t] = Render(p)]

ActingRole(p) == IF p.acting = Nobody THEN "none" ELSE RoleFromLegacy[p.acting.role]
CanManageChangeRequests(p) == ActingRole(p) \in {"CURATOR", "ADMIN"}
CanApproveChangeRequests(p) == ActingRole(p) \in {"CURATOR", "GOVERNANCE_APPROVER", "ADMIN"}
CanPerformStructuralOperations(p) == ActingRole(p) \in {"CURATOR", "ADMIN"}

ExistingRoles(p) ==
    {r \in {"curator", "governance-board"} :
        (IF r = "curator" THEN p.data.curator ELSE p.data.board) # "none"}

\* The buttons of ActionsPanel.
Offers(p) ==
    LET status == p.data.status
    IN  {op \in ActionOps :
           CASE op = "submit" -> status = "DRAFT" /\ CanManageChangeRequests(p)
             [] op = "request" -> status = "SUBMITTED" /\ CanManageChangeRequests(p)
             [] op = "execute" -> status = "APPROVED" /\ CanManageChangeRequests(p)
             [] op = "cancel" -> status \in {"DRAFT", "SUBMITTED"} /\ CanManageChangeRequests(p)
             [] OTHER -> /\ status = "PENDING_APPROVAL"
                         /\ CanApproveChangeRequests(p)
                         /\ p.acting.role \notin ExistingRoles(p)}

\* The buttons of ExecutionStatusPanel.
ExecutionOffers(p) ==
    {op \in ExecutionOps :
        /\ p.data.status = "EXECUTING"
        /\ CanPerformStructuralOperations(p)
        /\ op = "complete" => ~p.data.structural
        /\ op = "apply" => p.data.structural}

\* Mutant: the buttons stay enabled.
NeverPending(t, panel) == FALSE

\* isPending: the buttons of a panel are disabled while a request of its own is under way.
Pending(t, panel) == \E c \in calls[t] : c.panel = panel

Waiting == Asked("query", Nobody)

Init ==
    /\ SessionInit
    /\ cr \in Starts
    /\ page = [t \in Tabs |-> [shown |-> FALSE, data |-> NoData, stale |-> FALSE, error |-> FALSE,
                               acting |-> Nobody, form |-> "none", failing |-> FALSE]]
    /\ fetch = [t \in Tabs |-> Idle]
    /\ calls = [t \in Tabs |-> {}]
    /\ told = [t \in Tabs |-> 0]

\* The route is opened: a query that has no data or was invalidated is fetched,
\* one whose data has only become old may be.
Visit(t) ==
    /\ ~page[t].shown
    /\ Show(t, [page[t] EXCEPT !.shown = TRUE])
    /\ \/ fetch' = [fetch EXCEPT ![t] = IF @ = Idle THEN Waiting ELSE @]
       \/ page[t].data # NoData /\ ~page[t].stale /\ UNCHANGED fetch
    /\ UNCHANGED <<sessionVars, cr, calls, told>>

Left(t) ==
    LET p == [page[t] EXCEPT !.shown = FALSE]
    IN  /\ Show(t, p)
        /\ calls' = [calls EXCEPT ![t] = Attached(@, p)]
        /\ told' = [told EXCEPT ![t] = 0]
        /\ UNCHANGED <<cr, fetch>>

Leave(t) == page[t].shown /\ Left(t) /\ UNCHANGED sessionVars

\* The window gets the focus again after the data became old, or Retry is clicked.
Refetch(t) ==
    /\ page[t].shown /\ fetch[t] = Idle
    /\ fetch' = [fetch EXCEPT ![t] = Waiting]
    /\ UNCHANGED <<sessionVars, cr, page, calls, told>>

QueryServed(t) ==
    /\ fetch[t] = Waiting
    /\ fetch' = [fetch EXCEPT ![t].reply = cr]
    /\ UNCHANGED <<sessionVars, cr, page, calls, told>>

QueryAnswered(t) ==
    LET p == [page[t] EXCEPT !.data = fetch[t].reply, !.error = FALSE, !.stale = FALSE]
    IN  /\ fetch[t].reply # Nobody
        /\ Show(t, p)
        /\ calls' = [calls EXCEPT ![t] = Attached(@, p)]
        /\ fetch' = [fetch EXCEPT ![t] = Idle]
        /\ UNCHANGED <<sessionVars, cr, told>>

\* The query and its one retry failed: the data stay, the page shows the error.
QueryFailed(t) ==
    LET p == [page[t] EXCEPT !.error = TRUE]
    IN  /\ Event
        /\ fetch[t] # Idle
        /\ Show(t, p)
        /\ calls' = [calls EXCEPT ![t] = Attached(@, p)]
        /\ fetch' = [fetch EXCEPT ![t] = Idle]
        /\ UNCHANGED <<accounts, storage, user, me, signIn, cr, told>>

\* mutateAsync: the headers are those of this moment, not those of the render.
Send(t, panel, op) ==
    /\ Event
    /\ calls' = [calls EXCEPT ![t] = @ \cup
                   {[n |-> events, panel |-> panel, op |-> op, headers |-> Headers,
                     reply |-> Nobody]}]
    /\ UNCHANGED <<accounts, storage, user, me, signIn, cr, fetch, told>>

ClickAction(t, op) ==
    /\ ActionsMounted(page[t]) /\ ~Pending(t, "actions")
    /\ op \in Offers(page[t]) \cap {"submit", "request", "execute"}
    /\ Send(t, "actions", op)
    /\ Show(t, page[t])

\* Approve, Reject and Cancel request open a form, or close the one they opened.
ToggleForm(t, op) ==
    /\ ActionsMounted(page[t]) /\ ~Pending(t, "actions")
    /\ op \in Offers(page[t]) \cap ({"cancel"} \cup Decisions)
    /\ Show(t, [page[t] EXCEPT !.form = IF @ = op THEN "none" ELSE op])
    /\ UNCHANGED <<sessionVars, cr, fetch, calls, told>>

\* The form stays open, whatever is offered meanwhile, as long as the panel is visible.
FormVisible(p) == ActionsMounted(p) /\ p.form # "none" /\ Offers(p) # {}

Confirm(t) ==
    /\ FormVisible(page[t]) /\ ~Pending(t, "actions")
    /\ Send(t, "actions", page[t].form)
    /\ Show(t, [page[t] EXCEPT !.form = "none"])

Dismiss(t) ==
    /\ FormVisible(page[t])
    /\ Show(t, [page[t] EXCEPT !.form = "none"])
    /\ UNCHANGED <<sessionVars, cr, fetch, calls, told>>

ClickExecution(t, op) ==
    /\ ExecutionMounted(page[t]) /\ ~Pending(t, "execution")
    /\ op \in ExecutionOffers(page[t]) \cap {"complete", "apply"}
    /\ Send(t, "execution", op)
    /\ Show(t, page[t])

ToggleFailure(t) ==
    /\ ExecutionMounted(page[t])
    /\ \/ ~Pending(t, "execution") /\ "fail" \in ExecutionOffers(page[t])
       \/ page[t].failing
    /\ Show(t, [page[t] EXCEPT !.failing = ~@])
    /\ UNCHANGED <<sessionVars, cr, fetch, calls, told>>

ConfirmFailure(t) ==
    /\ ExecutionMounted(page[t]) /\ page[t].failing /\ ~Pending(t, "execution")
    /\ Send(t, "execution", "fail")
    /\ Show(t, [page[t] EXCEPT !.failing = FALSE])

\* Anything else that renders the panels anew.
Rerender(t) ==
    /\ ActionsMounted(page[t]) /\ page[t].acting # identity
    /\ Show(t, page[t])
    /\ UNCHANGED <<sessionVars, cr, fetch, calls, told>>

Reply(t, c, reply) == calls' = [calls EXCEPT ![t] = (@ \ {c}) \cup {[c EXCEPT !.reply = reply]}]

ServeCall(t, c) ==
    LET who == Authenticate(c.headers)
        passes == IF who = Nobody THEN FALSE ELSE Accepts(c.op, who.role)
    IN  /\ c.reply = Nobody
        /\ \/ /\ passes
              /\ cr.version < MaxVersion
              /\ cr' = After(c.op, who.role)
              /\ Reply(t, c, cr')
           \/ /\ passes => c.op \in MayFail
              /\ Reply(t, c, Refused)
              /\ UNCHANGED cr
        /\ UNCHANGED <<sessionVars, page, fetch, told>>

\* Mutant: the answer only becomes the data.
StoredAlone(t, reply) ==
    /\ Show(t, [page[t] EXCEPT !.data = reply, !.error = FALSE, !.stale = FALSE])
    /\ UNCHANGED fetch

\* onSuccess: the answer becomes the data, and the query is invalidated: it is
\* marked, and while the page shows it a fetch under way gives way to a new one.
Stored(t, reply) ==
    /\ Show(t, [page[t] EXCEPT !.data = reply, !.error = FALSE, !.stale = TRUE])
    /\ fetch' = IF page[t].shown THEN [fetch EXCEPT ![t] = Waiting] ELSE fetch

Succeeded(t, c) ==
    /\ c.reply \notin {Nobody, Refused} /\ c.panel # "closed"
    /\ Stored(t, c.reply)
    /\ calls' = [calls EXCEPT ![t] = Attached(@ \ {c}, page'[t])]
    /\ told' = [told EXCEPT ![t] = IF page[t].shown /\ @ < c.reply.version THEN c.reply.version ELSE @]
    /\ UNCHANGED <<sessionVars, cr>>

\* An error: the message is shown, nothing is fetched.
Failed(t, c) ==
    /\ c.reply = Refused \/ (c.panel = "closed" /\ c.reply # Nobody)
    /\ calls' = [calls EXCEPT ![t] = @ \ {c}]
    /\ Show(t, page[t])
    /\ UNCHANGED <<sessionVars, cr, fetch, told>>

CallLost(t, c) ==
    /\ Event
    /\ calls' = [calls EXCEPT ![t] = @ \ {c}]
    /\ Show(t, page[t])
    /\ UNCHANGED <<accounts, storage, user, me, signIn, cr, fetch, told>>

\* Colleagues work on the same change request.
Colleague(op, role) ==
    /\ Accepts(op, role) /\ cr.version < MaxVersion
    /\ cr' = After(op, role)
    /\ UNCHANGED <<sessionVars, page, fetch, calls, told>>

\* A load forgets cache and panels; requests on their way still reach the server.
Load(t) ==
    /\ LoadTab(t)
    /\ page' = [page EXCEPT ![t] = [shown |-> FALSE, data |-> NoData, stale |-> FALSE, error |-> FALSE,
                                    acting |-> Nobody, form |-> "none", failing |-> FALSE]]
    /\ fetch' = [fetch EXCEPT ![t] = Idle]
    /\ calls' = [calls EXCEPT ![t] = {[c EXCEPT !.panel = "closed"] : c \in @}]
    /\ told' = [told EXCEPT ![t] = 0]
    /\ UNCHANGED <<cr>>

\* The sign-in page is another route, and a success navigates to the dashboard.
SignIn(t) ==
    \/ /\ ~page[t].shown
       /\ \E u \in Users, kind \in {"login", "register"} : SubmitSignIn(t, kind, u)
       /\ UNCHANGED pageVars
    \/ SignInAnswered(t) /\ Left(t)

Account ==
    /\ \E u \in Users, r \in NewRoles, active \in BOOLEAN :
          /\ accounts[u].role # r \/ accounts[u].active # active
          /\ ChangeAccount(u, r, active)
    /\ UNCHANGED pageVars

Network(t) ==
    \/ QueryServed(t) \/ QueryAnswered(t) \/ QueryFailed(t)
    \/ \E c \in calls[t] : ServeCall(t, c) \/ Succeeded(t, c) \/ Failed(t, c) \/ CallLost(t, c)
    \/ (ServeAuth(t) \/ MeAnswered(t) \/ MeFailed(t) \/ SignInFailed(t)) /\ UNCHANGED pageVars

User(t) ==
    \/ Visit(t) \/ Leave(t) \/ Refetch(t) \/ Rerender(t) \/ Load(t) \/ SignIn(t)
    \/ Logout(t) /\ UNCHANGED pageVars
    \/ \E op \in ActionOps : ClickAction(t, op) \/ ToggleForm(t, op)
    \/ \E op \in ExecutionOps : ClickExecution(t, op)
    \/ Confirm(t) \/ Dismiss(t) \/ ToggleFailure(t) \/ ConfirmFailure(t)

Next ==
    \/ \E t \in Tabs : User(t) \/ Network(t)
    \/ \E op \in Ops, role \in DecisionRoles : Colleague(op, role)
    \/ Account

Spec == Init /\ [][Next]_vars
-----------------------------------------------------------------------------
\* Tables, storage, caches and requests hold what the code can put there; at
\* most one request per mounted panel is under way.
TypeOK ==
    /\ SessionTypeOK
    /\ cr \in Snapshots
    /\ \A t \in Tabs :
         /\ page[t].data \in Snapshots \cup {NoData}
         /\ fetch[t].reply \in Snapshots \cup {Nobody}
         /\ told[t] \in 0..MaxVersion
         /\ \A c, d \in calls[t] :
              /\ c.reply \in Snapshots \cup {Nobody, Refused}
              /\ c.panel = d.panel /\ c.panel \in {"actions", "execution"} => c = d

\* While a tab stays on the page it never settles on a state older than one its
\* own requests were answered with: when a late query or a late answer of another
\* request put older data there, a query that will bring newer is under way, or
\* the page shows that it failed.
OlderIsNotFinal ==
    \A t \in Tabs :
        LET p == page[t]
        IN  p.shown /\ p.data # NoData /\ p.data.version < told[t] =>
              \/ p.error
              \/ fetch[t] = Waiting
              \/ fetch[t] # Idle /\ fetch[t].reply.version >= told[t]

BoardBeforeCurator(op, role) ==
    op \in Decisions /\ role = "GOVERNANCE_APPROVER" /\ cr.status = "PENDING_APPROVAL" /\ cr.curator = "none"

\* A page with the current state and the role the server knows offers exactly what
\* the server would accept: the rules written twice, with two spellings of the
\* roles and with an administrator who decides for others, agree.  The one
\* difference is a board member who is offered a decision before the curator's.
OffersWhatIsAccepted ==
    \A t \in Tabs :
        LET p == page[t]
            who == Authenticate(Headers)
        IN  /\ ActionsMounted(p) /\ p.data = cr
            /\ p.acting # Nobody /\ p.acting = identity
            /\ who # Nobody /\ who.role = ActingRole(p)
            => Offers(p) \cup ExecutionOffers(p) =
                 {op \in Ops : Accepts(op, who.role) \/ BoardBeforeCurator(op, who.role)}

\* A request that was sent with a token never moves the change request with a
\* role, or for a user, that an administrator has taken away by then, however old
\* the token and the page are.
RoleChangesTakeEffect ==
    [][\A t \in Tabs : \A c \in calls[t] :
         /\ c.reply = Nobody /\ c.headers.token # Nobody
         /\ \E d \in calls'[t] : d.n = c.n /\ d.reply \notin {Nobody, Refused}
         => LET a == accounts[c.headers.token.id] IN a.active /\ a.role \in RolesFor(c.op)]_vars

\* What the page shows and offers, in its parts.
PageIsRight == TypeOK /\ OlderIsNotFinal /\ OffersWhatIsAccepted
=============================================================================
