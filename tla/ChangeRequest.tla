--------------------------- MODULE ChangeRequest ---------------------------
(***************************************************************************)
(* The governed workflow of a change request: its status machine, the two  *)
(* approval decisions, the capability locks held while it executes, its    *)
(* audit trail and the effects a request leaves behind after its commit.   *)
(* Source: apps/api/src/change-request (service and controller).           *)
(*                                                                         *)
(* Every endpoint runs as: findOne (a plain read), checks on what was      *)
(* read, then one READ COMMITTED transaction whose updates are guarded by  *)
(* the status, then fire-and-forget calls.  Nothing is held between the    *)
(* read and the transaction, so a handler is modelled by one action per    *)
(* database round trip and keeps in request[h] what it read.               *)
(***************************************************************************)
EXTENDS Naturals, Sequences, FiniteSets

CONSTANTS
    ChangeRequests,       \* ids of change requests that can be created
    Capabilities,         \* ids of capabilities
    Handlers,             \* HTTP requests in flight at the same time
    Dtos,                 \* bodies POST /change-requests may carry
    Deciders,             \* user roles whose members post decisions
    MappedCapabilities,   \* capabilities whose mappings change during a run
    EffectKinds,          \* which fire-and-forget effects a run follows
    MaxTrail,             \* bound: audit entries of one change request
    NoDto,                \* the columns of a row that does not exist
    NoLock                \* "no row in capability_lock"

ChangeRequestType ==
    {"CREATE", "UPDATE", "REPARENT", "PROMOTE", "DEMOTE", "MERGE", "RETIRE", "DELETE"}
STRUCTURAL_TYPES == ChangeRequestType \ {"CREATE", "UPDATE"}
DESTRUCTIVE_TYPES == {"RETIRE", "MERGE"}
SINGLE_TARGET_TYPES == {"REPARENT", "PROMOTE", "DEMOTE", "DELETE"}

ChangeRequestStatus ==
    {"DRAFT", "SUBMITTED", "PENDING_APPROVAL", "APPROVED", "EXECUTING",
     "COMPLETED", "REJECTED", "CANCELLED"}
TERMINAL_STATUSES == {"COMPLETED", "REJECTED", "CANCELLED"}
Statuses == ChangeRequestStatus \cup {"NONE"}   \* NONE: the row does not exist

Roles == {"curator", "governance-board"}
Outcomes == {"APPROVED", "REJECTED"}
changeRequestDecisionRoles == {"CURATOR", "GOVERNANCE_APPROVER", "ADMIN"}

ASSUME DtosAssumption ==
    /\ Dtos \subseteq [type : ChangeRequestType,
                       affected : Seq(Capabilities) \ {<<>>},
                       plan : BOOLEAN,                \* a non-blank downstreamPlan
                       summary : {"null", "manual"}]
    /\ NoDto \notin Dtos
ASSUME LockAssumption == NoLock \notin ChangeRequests
ASSUME DecidersAssumption == Deciders \subseteq changeRequestDecisionRoles
ASSUME BoundAssumption == MaxTrail \in Nat
ASSUME MappedAssumption == MappedCapabilities \subseteq Capabilities

VARIABLES
    status,      \* change_request.status
    dto,         \* the columns written once, by create
    summary,     \* change_request.impact_summary; "active" and "idle" are the
                 \* computed texts with and without active mappings
    decisions,   \* approval_decision rows, unique per (change request, role)
    lockedBy,    \* capability_lock rows, unique per capability
    trail,       \* change_request_audit_entry rows of each change request
    revision,    \* structural operations committed on each capability
    active,      \* capabilities with an ACTIVE mapping
    effects,     \* generic audit entries, notifications and domain events
    request      \* the requests being handled

vars == <<status, dto, summary, decisions, lockedBy, trail, revision, active,
          effects, request>>

rows == <<status, dto, summary, decisions, lockedBy, trail, revision, active>>

Idle == [at |-> "idle"]

Steps == {"appendAudit", "analyse", "writeSummary", "applyTransition",
          "readDecision", "submitDecision", "execute", "complete",
          "reportFailure", "guard", "apply", "locked", "afterCommit"}

Entry(from, to) == [from |-> from, to |-> to]

AffectedOf(d) == {d.affected[i] : i \in DOMAIN d.affected}
Affected(c) == IF dto[c] = NoDto THEN {} ELSE AffectedOf(dto[c])

NoRevision == [a \in Capabilities |-> 0]
NoDecision == [role \in Roles |-> "none"]

Request(step, c, to) ==
    [at |-> step, cr |-> c, from |-> status[c], to |-> to, role |-> "none",
     outcome |-> "none", impact |-> summary[c], seen |-> NoRevision, effects |-> {}]

Init ==
    /\ status = [c \in ChangeRequests |-> "NONE"]
    /\ dto = [c \in ChangeRequests |-> NoDto]
    /\ summary = [c \in ChangeRequests |-> "null"]
    /\ decisions = [c \in ChangeRequests |-> NoDecision]
    /\ lockedBy = [a \in Capabilities |-> NoLock]
    /\ trail = [c \in ChangeRequests |-> <<>>]
    /\ revision = NoRevision
    /\ active = {}
    /\ effects = {}
    /\ request = [h \in Handlers |-> Idle]

-----------------------------------------------------------------------------
(* Guards and effects shared by the endpoints *)

\* Mutant: the transition map lets a request be withdrawn while under approval.
CancellableWhilePending ==
    [DRAFT |-> {"SUBMITTED", "CANCELLED"},
     SUBMITTED |-> {"PENDING_APPROVAL", "CANCELLED"},
     PENDING_APPROVAL |-> {"APPROVED", "REJECTED", "CANCELLED"},
     APPROVED |-> {"EXECUTING"},
     EXECUTING |-> {"COMPLETED", "APPROVED"}]

VALID_TRANSITIONS ==
    [DRAFT |-> {"SUBMITTED", "CANCELLED"},
     SUBMITTED |-> {"PENDING_APPROVAL", "CANCELLED"},
     PENDING_APPROVAL |-> {"APPROVED", "REJECTED"},
     APPROVED |-> {"EXECUTING"},
     EXECUTING |-> {"COMPLETED", "APPROVED"}]

AssertValidTransition(from, to) ==
    /\ from \notin TERMINAL_STATUSES
    /\ from \in DOMAIN VALID_TRANSITIONS
    /\ to \in VALID_TRANSITIONS[from]

\* The effects launched, not awaited, once a transition to `to` has committed.
EffectsOf(to) ==
    {"audit"} \cup
    (IF to \in {"SUBMITTED", "APPROVED", "REJECTED"} THEN {"notification"} ELSE {})

\* Commits that launch nothing end the request; the others still have to
\* make their calls.
Committed(h, launched) ==
    request' = [request EXCEPT ![h] =
        IF launched = {} THEN Idle
        ELSE [request[h] EXCEPT !.at = "afterCommit", !.effects = launched]]

\* Mutant: update by id, without the expected status in the WHERE clause.
SetStatusUnguarded(c, from, to) ==
    /\ status' = [status EXCEPT ![c] = to]
    /\ trail' = [trail EXCEPT ![c] = Append(@, Entry(from, to))]

\* updateMany({id, status: from} -> to) and the audit entry of the same transaction
SetStatus(c, from, to) ==
    /\ status[c] = from
    /\ status' = [status EXCEPT ![c] = to]
    /\ trail' = [trail EXCEPT ![c] = Append(@, Entry(from, to))]

ReleaseLocks(c) ==
    lockedBy' = [a \in Capabilities |-> IF lockedBy[a] = c THEN NoLock ELSE lockedBy[a]]

\* findOne followed by assertValidTransition; the handler goes on at `step`
ReadForTransition(h, c, to, step) ==
    /\ request[h] = Idle
    /\ AssertValidTransition(status[c], to)
    /\ request' = [request EXCEPT ![h] = Request(step, c, to)]
    /\ UNCHANGED <<rows, effects>>

At(h, step) == request[h] # Idle /\ request[h].at = step

-----------------------------------------------------------------------------
(* create, submit, cancel *)

Create(h, c, d) ==
    /\ request[h] = Idle
    /\ status[c] = "NONE"
    /\ status' = [status EXCEPT ![c] = "DRAFT"]
    /\ dto' = [dto EXCEPT ![c] = d]
    /\ summary' = [summary EXCEPT ![c] = d.summary]
    /\ request' = [request EXCEPT ![h] = Request("appendAudit", c, "DRAFT")]
    /\ UNCHANGED <<decisions, lockedBy, trail, revision, active, effects>>

\* The CREATED entry is a second statement, outside any transaction.
AppendAudit(h) ==
    /\ At(h, "appendAudit")
    /\ LET c == request[h].cr IN
         /\ Len(trail[c]) < MaxTrail
         /\ trail' = [trail EXCEPT ![c] = Append(@, Entry("NONE", "DRAFT"))]
    /\ Committed(h, {"audit"})
    /\ UNCHANGED <<status, dto, summary, decisions, lockedBy, revision, active, effects>>

Submit(h, c) == ReadForTransition(h, c, "SUBMITTED", "applyTransition")
Cancel(h, c) == ReadForTransition(h, c, "CANCELLED", "applyTransition")

\* Mutant: updated.count is not looked at before the calls after the commit.
ApplyTransitionIgnoringCount(h) ==
    /\ At(h, "applyTransition")
    /\ LET r == request[h] IN
         /\ Len(trail[r.cr]) < MaxTrail
         /\ \/ SetStatus(r.cr, r.from, r.to)
            \/ status[r.cr] # r.from /\ UNCHANGED <<status, trail>>
         /\ Committed(h, EffectsOf(r.to))
    /\ UNCHANGED <<dto, summary, decisions, lockedBy, revision, active, effects>>

ApplyTransition(h) ==
    /\ At(h, "applyTransition")
    /\ LET r == request[h] IN
         /\ Len(trail[r.cr]) < MaxTrail
         /\ SetStatus(r.cr, r.from, r.to)
         /\ Committed(h, EffectsOf(r.to))
    /\ UNCHANGED <<dto, summary, decisions, lockedBy, revision, active, effects>>

-----------------------------------------------------------------------------
(* request-approval: the impact gate, then the transition *)

RequestApproval(h, c) == ReadForTransition(h, c, "PENDING_APPROVAL", "analyse")

ActiveMappings(c) == Affected(c) \cap active # {}

\* Mutant: only RETIRE is thought destructive.
RetireOnlyGate(c) == dto[c].type = "RETIRE" /\ ActiveMappings(c) => dto[c].plan

DownstreamPlanGate(c) ==
    dto[c].type \in DESTRUCTIVE_TYPES /\ ActiveMappings(c) => dto[c].plan

\* impactAnalysisService.analyse, the downstreamPlan gate, and the text to be
\* stored if the earlier findOne had returned no impactSummary.
AnalyseImpact(h) ==
    /\ At(h, "analyse")
    /\ LET c == request[h].cr IN
         /\ DownstreamPlanGate(c)
         /\ request' = [request EXCEPT ![h] =
              IF @.impact = "null"
              THEN [@ EXCEPT !.at = "writeSummary",
                             !.impact = IF ActiveMappings(c) THEN "active" ELSE "idle"]
              ELSE [@ EXCEPT !.at = "applyTransition"]]
    /\ UNCHANGED <<rows, effects>>

\* A plain update by id: neither the status nor the old text is re-checked.
WriteSummary(h) ==
    /\ At(h, "writeSummary")
    /\ summary' = [summary EXCEPT ![request[h].cr] = request[h].impact]
    /\ request' = [request EXCEPT ![h].at = "applyTransition"]
    /\ UNCHANGED <<status, dto, decisions, lockedBy, trail, revision, active, effects>>

-----------------------------------------------------------------------------
(* decisions: curator first, then governance board; either may reject *)

\* An ADMIN acts for whichever role is missing.
ResolveAdminApprovalRole(c) ==
    CASE decisions[c]["curator"] = "none" -> "curator"
      [] decisions[c]["curator"] = "APPROVED"
         /\ decisions[c]["governance-board"] = "none" -> "governance-board"
      [] OTHER -> "none"

ApprovalRole(user, c) ==
    CASE user = "CURATOR" -> "curator"
      [] user = "GOVERNANCE_APPROVER" -> "governance-board"
      [] user = "ADMIN" -> ResolveAdminApprovalRole(c)

\* Mutant: no findOne, so a decision can be posted for an id that has no row.
SubmitDecisionAnyId(h, c, user, outcome) ==
    /\ request[h] = Idle
    /\ ApprovalRole(user, c) # "none"
    /\ request' = [request EXCEPT ![h] =
         [Request("readDecision", c, "PENDING_APPROVAL")
            EXCEPT !.role = ApprovalRole(user, c), !.outcome = outcome]]
    /\ UNCHANGED <<rows, effects>>

\* The controller: a read of its own resolves the role of an ADMIN.
SubmitDecision(h, c, user, outcome) ==
    /\ request[h] = Idle
    /\ status[c] # "NONE"
    /\ ApprovalRole(user, c) # "none"
    /\ request' = [request EXCEPT ![h] =
         [Request("readDecision", c, "PENDING_APPROVAL")
            EXCEPT !.role = ApprovalRole(user, c), !.outcome = outcome]]
    /\ UNCHANGED <<rows, effects>>

MayDecide(c, role) ==
    /\ decisions[c][role] = "none"
    /\ \/ decisions[c]["curator"] = "none" /\ role = "curator"
       \/ decisions[c]["curator"] = "APPROVED" /\ role = "governance-board"

NewStatus(role, outcome) ==
    IF outcome = "REJECTED" THEN "REJECTED"
    ELSE IF role = "governance-board" THEN "APPROVED"
    ELSE "PENDING_APPROVAL"                     \* no status change

\* The service: findOne and the sequencing checks.
CheckDecision(h) ==
    /\ At(h, "readDecision")
    /\ LET r == request[h] IN
         /\ status[r.cr] = "PENDING_APPROVAL"
         /\ MayDecide(r.cr, r.role)
         /\ request' = [request EXCEPT ![h] =
              [@ EXCEPT !.at = "submitDecision", !.from = "PENDING_APPROVAL",
                        !.to = NewStatus(r.role, r.outcome)]]
    /\ UNCHANGED <<rows, effects>>

\* Mutant: the table lacks the unique (change request, role) index.
NoUniqueIndex(c, role) == TRUE

UniqueDecision(c, role) == decisions[c][role] = "none"

\* The transaction.  A curator's approval changes no status, and so is not
\* guarded by it: only the unique (change request, role) index is.
RecordDecision(h) ==
    /\ At(h, "submitDecision")
    /\ LET r == request[h] IN
         /\ Len(trail[r.cr]) < MaxTrail
         /\ UniqueDecision(r.cr, r.role)
         /\ decisions' = [decisions EXCEPT ![r.cr][r.role] = r.outcome]
         /\ \/ /\ r.to # "PENDING_APPROVAL"
               /\ SetStatus(r.cr, "PENDING_APPROVAL", r.to)
               /\ Committed(h, EffectsOf(r.to))
            \/ /\ r.to = "PENDING_APPROVAL"
               /\ trail' = [trail EXCEPT ![r.cr] = Append(@, Entry(r.to, r.to))]
               /\ Committed(h, {})
               /\ UNCHANGED status
    /\ UNCHANGED <<dto, summary, lockedBy, revision, active, effects>>

-----------------------------------------------------------------------------
(* execute, complete, fail *)

Execute(h, c) == ReadForTransition(h, c, "EXECUTING", "execute")

\* Mutant: createMany with skipDuplicates.
SkipDuplicates(c) == TRUE

\* createMany of one row per listed id under the unique index on capability:
\* it fails when any of them is locked, and when the list repeats an id.
LocksInsertable(c) ==
    /\ \A a \in Affected(c) : lockedBy[a] = NoLock
    /\ Cardinality(Affected(c)) = Len(dto[c].affected)

AcquireLocks(h) ==
    /\ At(h, "execute")
    /\ LET c == request[h].cr IN
         /\ Len(trail[c]) < MaxTrail
         /\ SetStatus(c, "APPROVED", "EXECUTING")
         /\ LocksInsertable(c)
         /\ lockedBy' = [a \in Capabilities |-> IF a \in Affected(c) THEN c ELSE lockedBy[a]]
    /\ Committed(h, {})
    /\ UNCHANGED <<dto, summary, decisions, revision, active, effects>>

\* P2002: the transaction is rolled back and CapabilityLockedException thrown.
LockConflict(h) ==
    /\ At(h, "execute")
    /\ LET c == request[h].cr IN status[c] = "APPROVED" /\ ~LocksInsertable(c)
    /\ request' = [request EXCEPT ![h].at = "locked"]
    /\ UNCHANGED <<rows, effects>>

Complete(h, c) ==
    /\ ReadForTransition(h, c, "COMPLETED", "complete")
    /\ dto[c].type \notin STRUCTURAL_TYPES

CommitComplete(h) ==
    /\ At(h, "complete")
    /\ LET c == request[h].cr IN
         /\ Len(trail[c]) < MaxTrail
         /\ SetStatus(c, "EXECUTING", "COMPLETED")
         /\ ReleaseLocks(c)
    /\ Committed(h, {})
    /\ UNCHANGED <<dto, summary, decisions, revision, active, effects>>

ReportFailure(h, c) ==
    /\ status[c] = "EXECUTING"
    /\ ReadForTransition(h, c, "APPROVED", "reportFailure")

CommitFailure(h) ==
    /\ At(h, "reportFailure")
    /\ LET c == request[h].cr IN
         /\ Len(trail[c]) < MaxTrail
         /\ SetStatus(c, "EXECUTING", "APPROVED")
         /\ ReleaseLocks(c)
    /\ Committed(h, {})
    /\ UNCHANGED <<dto, summary, decisions, revision, active, effects>>

-----------------------------------------------------------------------------
(* apply: the structural operation *)

ApplyStructuralOperation(h, c) ==
    /\ status[c] = "EXECUTING"
    /\ ReadForTransition(h, c, "COMPLETED", "guard")
    /\ dto[c].type \in STRUCTURAL_TYPES

DispatchAccepts(c) == dto[c].type \in SINGLE_TARGET_TYPES => Len(dto[c].affected) = 1

\* The transaction's first half: the guard read and the reads the operation
\* validates.  The handler remembers the revision of what it has read.
GuardAndRead(h) ==
    /\ At(h, "guard")
    /\ LET c == request[h].cr IN
         /\ status[c] = "EXECUTING"
         /\ DispatchAccepts(c)
         /\ request' = [request EXCEPT ![h].at = "apply", ![h].seen = revision]
    /\ UNCHANGED <<rows, effects>>

\* Its second half: the writes, the guarded completion and the commit.
CommitOperation(h) ==
    /\ At(h, "apply")
    /\ LET c == request[h].cr IN
         /\ Len(trail[c]) < MaxTrail
         /\ SetStatus(c, "EXECUTING", "COMPLETED")
         /\ ReleaseLocks(c)
         /\ revision' = [a \in Capabilities |->
                           IF a \in Affected(c) THEN revision[a] + 1 ELSE revision[a]]
    /\ Committed(h, {"event"})
    /\ UNCHANGED <<dto, summary, decisions, active, effects>>

-----------------------------------------------------------------------------
(* after the commit; failures; the rest of the system *)

\* The calls made without await: each may succeed or be lost.
AfterCommit(h) ==
    /\ At(h, "afterCommit")
    /\ LET r == request[h] IN
         \E done \in SUBSET (r.effects \cap EffectKinds) :
            effects' = effects \cup {[kind |-> k, cr |-> r.cr, status |-> r.to] : k \in done}
    /\ request' = [request EXCEPT ![h] = Idle]
    /\ UNCHANGED rows

\* auditService.record is neither awaited nor caught: a failed insert is an
\* unhandled rejection, which ends the Node process and every request in it.
AuditWriteFails(h) ==
    /\ At(h, "afterCommit")
    /\ "audit" \in request[h].effects \cap EffectKinds
    /\ request' = [g \in Handlers |-> Idle]
    /\ UNCHANGED <<rows, effects>>

\* A check fails, a guarded update matches no row, the database reports an
\* error, or the client's connection and process are gone: the transaction is
\* rolled back and the request is over.
Abort(h) ==
    /\ request[h] # Idle
    /\ request' = [request EXCEPT ![h] = Idle]
    /\ UNCHANGED <<rows, effects>>

\* The mapping endpoints, from outside this module.
ChangeMappings(a) ==
    /\ active' = IF a \in active THEN active \ {a} ELSE active \cup {a}
    /\ UNCHANGED <<status, dto, summary, decisions, lockedBy, trail, revision, effects, request>>

Arrive(h, c) ==
    \/ \E d \in Dtos : Create(h, c, d)
    \/ Submit(h, c)
    \/ Cancel(h, c)
    \/ RequestApproval(h, c)
    \/ \E user \in Deciders, outcome \in Outcomes : SubmitDecision(h, c, user, outcome)
    \/ Execute(h, c)
    \/ Complete(h, c)
    \/ ReportFailure(h, c)
    \/ ApplyStructuralOperation(h, c)

Continue(h) ==
    \/ AppendAudit(h)
    \/ ApplyTransition(h)
    \/ AnalyseImpact(h)
    \/ WriteSummary(h)
    \/ CheckDecision(h)
    \/ RecordDecision(h)
    \/ AcquireLocks(h)
    \/ LockConflict(h)
    \/ CommitComplete(h)
    \/ CommitFailure(h)
    \/ GuardAndRead(h)
    \/ CommitOperation(h)
    \/ AfterCommit(h)
    \/ AuditWriteFails(h)
    \/ Abort(h)

Next ==
    \/ \E h \in Handlers, c \in ChangeRequests : Arrive(h, c)
    \/ \E h \in Handlers : Continue(h)
    \/ \E a \in MappedCapabilities : ChangeMappings(a)

Spec == Init /\ [][Next]_vars

-----------------------------------------------------------------------------
(* Types *)

RequestRecords ==
    [at : Steps, cr : ChangeRequests, from : Statuses, to : ChangeRequestStatus,
     role : Roles \cup {"none"}, outcome : Outcomes \cup {"none"},
     impact : {"null", "manual", "active", "idle"},
     seen : [Capabilities -> Nat], effects : SUBSET {"audit", "notification", "event"}]

\* The tables hold what their columns and unique indexes allow, and every
\* request in flight is one that some endpoint has started.
TypeOK ==
    /\ status \in [ChangeRequests -> Statuses]
    /\ dto \in [ChangeRequests -> Dtos \cup {NoDto}]
    /\ \A c \in ChangeRequests : dto[c] = NoDto <=> status[c] = "NONE"
    /\ summary \in [ChangeRequests -> {"null", "manual", "active", "idle"}]
    /\ decisions \in [ChangeRequests -> [Roles -> Outcomes \cup {"none"}]]
    /\ lockedBy \in [Capabilities -> ChangeRequests \cup {NoLock}]
    /\ trail \in [ChangeRequests -> Seq([from : Statuses, to : ChangeRequestStatus])]
    /\ revision \in [Capabilities -> Nat]
    /\ active \subseteq Capabilities
    /\ effects \subseteq [kind : {"audit", "notification", "event"},
                          cr : ChangeRequests, status : ChangeRequestStatus]
    /\ request \in [Handlers -> {Idle} \cup RequestRecords]
    /\ \A h \in Handlers : request[h] # Idle => status[request[h].cr] # "NONE"

-----------------------------------------------------------------------------
(* Safety *)

\* The status of a change request is what its recorded decisions justify,
\* however the decisions of a curator, a board member and an administrator
\* interleave: approved, executing or completed only with both approvals,
\* rejected exactly when somebody rejected it, the board never before the
\* curator, and no decision on a request that never reached approval.
\* (submitDecision, its duplicate and sequencing checks and the unique index.)
DecisionsJustifyStatus ==
    \A c \in ChangeRequests :
        /\ status[c] \in {"APPROVED", "EXECUTING", "COMPLETED"}
             => \A role \in Roles : decisions[c][role] = "APPROVED"
        /\ status[c] = "REJECTED" <=> \E role \in Roles : decisions[c][role] = "REJECTED"
        /\ decisions[c]["governance-board"] # "none" => decisions[c]["curator"] = "APPROVED"
        /\ status[c] \in {"NONE", "DRAFT", "SUBMITTED", "CANCELLED"} => decisions[c] = NoDecision

\* A capability is locked by a change request exactly while that request is
\* EXECUTING and affects it: no lock is leaked by a failure, a double
\* completion or a retry, none is missing, and two executing requests never
\* share a capability.  (execute, complete, reportFailure, apply.)
LocksMatchExecution ==
    \A c \in ChangeRequests, a \in Capabilities :
        lockedBy[a] = c <=> status[c] = "EXECUTING" /\ a \in Affected(c)

\* A structural operation is applied exactly once per completed change
\* request: two concurrent apply requests, or an apply racing a reported
\* failure and a retry, never apply it twice nor complete it unapplied.
AppliedOnce ==
    \A a \in Capabilities :
        revision[a] = Cardinality({c \in ChangeRequests :
            /\ status[c] = "COMPLETED"
            /\ dto[c].type \in STRUCTURAL_TYPES
            /\ a \in Affected(c)})

\* Where the trail of a request tells of a transition, not of its creation.
Transitions(c) == {i \in DOMAIN trail[c] : trail[c][i].from # "NONE"}

\* The audit trail, apart from its CREATED entry, is a gapless account of how
\* the request went from DRAFT to its present status, whatever was retried,
\* refused or raced.  (The audit entry in each transaction.)
TrailReplaysStatus ==
    \A c \in ChangeRequests : status[c] # "NONE" =>
        LET t == trail[c]  T == Transitions(c) IN
            /\ T = {} => status[c] = "DRAFT"
            /\ \A i \in T :
                 /\ (\A j \in T : i <= j) => t[i].from = "DRAFT"
                 /\ (\A j \in T : j <= i) => t[i].to = status[c]
                 /\ \A j \in T : i < j /\ (\A k \in T : k <= i \/ j <= k) => t[i].to = t[j].from

\* Approvers always have an impact summary in front of them, and never one
\* that reports active mappings for a RETIRE or MERGE without a downstream
\* plan, even when two approval requests compute it from different states of
\* the mappings.  (The impact gate of requestApproval.)
ApproversBriefed ==
    \A c \in ChangeRequests :
        status[c] \notin {"NONE", "DRAFT", "SUBMITTED", "CANCELLED"} =>
            /\ summary[c] # "null"
            /\ dto[c].type \in DESTRUCTIVE_TYPES /\ ~dto[c].plan => summary[c] # "active"

\* Audit entries, notifications and domain events only report what has been
\* committed, and a domain event only a completed request: consumers never
\* see the effect of a transaction that was rolled back.
EffectsReflectCommits ==
    \A e \in effects :
        /\ \E i \in DOMAIN trail[e.cr] : trail[e.cr][i].to = e.status
        /\ e.kind = "event" => status[e.cr] = "COMPLETED"

\* Each endpoint, though it acts on a read that may be stale, takes effect as
\* one atomic step of the promised workflow or not at all.
Lifecycle == INSTANCE ChangeRequestLifecycle WITH
    scope <- [c \in ChangeRequests |-> Affected(c)],
    curator <- [c \in ChangeRequests |-> decisions[c]["curator"]],
    board <- [c \in ChangeRequests |-> decisions[c]["governance-board"]],
    owner <- lockedBy,
    NoOwner <- NoLock

ImplementsLifecycle == Lifecycle!Spec

-----------------------------------------------------------------------------
(* What the code's comments and documents say, and the code does not ensure *)

\* CapabilityLockedException says that a listed capability is "already locked
\* by another change request": then one is.
LockConflictIsReal ==
    [][\A h \in Handlers :
         At(h, "execute") /\ request'[h] = [request[h] EXCEPT !.at = "locked"] =>
            \E a \in Affected(request[h].cr) :
                lockedBy[a] \notin {NoLock, request[h].cr}]_vars

\* Locking "prevents concurrent modifications": between the reads a structural
\* operation validates and its writes, no other operation changes the
\* capabilities it affects.
AppliedOnReadState ==
    [][\A h \in Handlers :
         At(h, "apply") /\ status'[request[h].cr] # status[request[h].cr]
                        /\ request'[h] # Idle =>
            \A a \in Affected(request[h].cr) : revision[a] = request[h].seen[a]]_vars

\* "Failures are logged by Prisma's exception layer but do not propagate": an
\* audit entry that cannot be written ends no other request.
AuditFailureIsContained ==
    [][\A h \in Handlers : At(h, "afterCommit") /\ request'[h] = Idle =>
         \A g \in Handlers \ {h} : request'[g] = request[g]]_vars
=============================================================================
