------------------------ MODULE ChangeRequestProofs ------------------------
(***************************************************************************)
(* Proofs about ChangeRequest, for any number of change requests,          *)
(* capabilities and concurrent handlers: types, decisions and locks, the   *)
(* workflow that the endpoints implement, and what a change request leaves *)
(* behind: its audit trail, the impact summary its approvers read, the     *)
(* structural operation it applies and the calls made after its commits.   *)
(***************************************************************************)
EXTENDS ChangeRequest, FiniteSetTheorems, TLAPS

(* What a handler between two database calls may still rely on.  A decision
   that has passed its checks concerns a request that did reach approval, and
   a board decision one the curator has approved: both facts are stable,
   although the status itself may have moved on since the read. *)
Past(c) == status[c] \in {"PENDING_APPROVAL", "APPROVED", "EXECUTING", "COMPLETED", "REJECTED"}

RequestOK(r) ==
    /\ r.at = "applyTransition" =>
         \/ r.from = "DRAFT" /\ r.to \in {"SUBMITTED", "CANCELLED"}
         \/ r.from = "SUBMITTED" /\ r.to \in {"PENDING_APPROVAL", "CANCELLED"}
    /\ r.at \in {"analyse", "writeSummary"} =>
         r.from = "SUBMITTED" /\ r.to = "PENDING_APPROVAL"
    /\ r.at \in {"readDecision", "submitDecision"} =>
         r.role \in Roles /\ r.outcome \in Outcomes
    /\ r.at = "submitDecision" =>
         /\ Past(r.cr)
         /\ r.to = NewStatus(r.role, r.outcome)
         /\ r.role = "governance-board" => decisions[r.cr]["curator"] = "APPROVED"

RequestsInFlight == \A h \in Handlers : request[h] # Idle => RequestOK(request[h])

IInv == TypeOK /\ DecisionsJustifyStatus /\ LocksMatchExecution /\ RequestsInFlight

-----------------------------------------------------------------------------
(* Types *)

LEMMA RequestType ==
    ASSUME TypeOK, NEW c \in ChangeRequests, NEW step \in Steps, NEW to \in ChangeRequestStatus
    PROVE  /\ Request(step, c, to) \in RequestRecords
           /\ Request(step, c, to) # Idle
           /\ Request(step, c, to).cr = c
  BY DEF TypeOK, Request, RequestRecords, NoRevision, Idle

LEMMA InFlightType ==
    ASSUME TypeOK, NEW h \in Handlers, request[h] # Idle
    PROVE  request[h] \in RequestRecords /\ request[h].cr \in ChangeRequests
  BY DEF TypeOK, RequestRecords

LEMMA ReadType ==
    ASSUME TypeOK, NEW h \in Handlers, NEW c \in ChangeRequests,
           NEW step \in Steps, NEW to \in ChangeRequestStatus,
           ReadForTransition(h, c, to, step)
    PROVE  TypeOK'
  <1>1. status[c] # "NONE"
    BY DEF ReadForTransition, AssertValidTransition, VALID_TRANSITIONS
  <1>2. request' = [request EXCEPT ![h] = Request(step, c, to)] /\ UNCHANGED <<rows, effects>>
    BY DEF ReadForTransition
  <1>3. /\ Request(step, c, to) \in RequestRecords
        /\ Request(step, c, to).cr = c
    BY RequestType
  <1>4. request' \in [Handlers -> {Idle} \cup RequestRecords]
    BY <1>2, <1>3 DEF TypeOK
  <1>5. \A g \in Handlers : request'[g] # Idle => status[request'[g].cr] # "NONE"
    BY <1>1, <1>2, <1>3 DEF TypeOK
  <1> QED
    BY <1>2, <1>4, <1>5 DEF TypeOK, rows

LEMMA CommittedType ==
    ASSUME TypeOK, NEW h \in Handlers, request[h] # Idle,
           NEW launched \in SUBSET {"audit", "notification", "event"},
           Committed(h, launched)
    PROVE  /\ request' \in [Handlers -> {Idle} \cup RequestRecords]
           /\ \A g \in Handlers : request'[g] # Idle =>
                request[g] # Idle /\ request'[g].cr = request[g].cr
  <1>1. request[h] \in RequestRecords
    BY InFlightType
  <1>2. [request[h] EXCEPT !.at = "afterCommit", !.effects = launched] \in RequestRecords
    BY <1>1 DEF RequestRecords, Steps
  <1> QED
    BY <1>1, <1>2 DEF Committed, TypeOK, RequestRecords

LEMMA SetStatusType ==
    ASSUME TypeOK, NEW c \in ChangeRequests, NEW from \in Statuses,
           NEW to \in ChangeRequestStatus, from # "NONE", SetStatus(c, from, to)
    PROVE  /\ status' \in [ChangeRequests -> Statuses]
           /\ \A d \in ChangeRequests : status'[d] = "NONE" <=> status[d] = "NONE"
           /\ trail' \in [ChangeRequests -> Seq([from : Statuses, to : ChangeRequestStatus])]
  BY DEF TypeOK, SetStatus, Entry, Statuses, ChangeRequestStatus

(* Any transition: a guarded status update, its audit entry, the end or the
   next step of the request. *)
LEMMA TransitionType ==
    ASSUME TypeOK, NEW h \in Handlers, request[h] # Idle,
           NEW launched \in SUBSET {"audit", "notification", "event"}, Committed(h, launched),
           NEW c \in ChangeRequests, NEW from \in Statuses, NEW to \in ChangeRequestStatus,
           from # "NONE", SetStatus(c, from, to), UNCHANGED dto
    PROVE  /\ status' \in [ChangeRequests -> Statuses]
           /\ trail' \in [ChangeRequests -> Seq([from : Statuses, to : ChangeRequestStatus])]
           /\ request' \in [Handlers -> {Idle} \cup RequestRecords]
           /\ \A d \in ChangeRequests : dto'[d] = NoDto <=> status'[d] = "NONE"
           /\ \A g \in Handlers : request'[g] # Idle => status'[request'[g].cr] # "NONE"
  <1>1. \A d \in ChangeRequests : status'[d] = "NONE" <=> status[d] = "NONE"
    BY SetStatusType
  <1>2. \A g \in Handlers : request'[g] # Idle => request[g] # Idle /\ request'[g].cr = request[g].cr
    BY CommittedType
  <1>3. \A g \in Handlers : request[g] # Idle =>
          request[g].cr \in ChangeRequests /\ status[request[g].cr] # "NONE"
    BY InFlightType DEF TypeOK
  <1>4. \A g \in Handlers : request'[g] # Idle => status'[request'[g].cr] # "NONE"
    BY <1>1, <1>2, <1>3
  <1> QED
    BY <1>1, <1>4, SetStatusType, CommittedType DEF TypeOK

LEMMA StatusNames ==
    /\ ChangeRequestStatus \subseteq Statuses
    /\ {"SUBMITTED", "PENDING_APPROVAL", "APPROVED", "EXECUTING", "COMPLETED", "REJECTED",
         "CANCELLED"} \subseteq ChangeRequestStatus
  BY DEF Statuses, ChangeRequestStatus

LEMMA ReleaseType ==
    ASSUME TypeOK, NEW c \in ChangeRequests, ReleaseLocks(c)
    PROVE  lockedBy' \in [Capabilities -> ChangeRequests \cup {NoLock}]
  BY DEF TypeOK, ReleaseLocks

(* One action of a request already in flight. *)
LEMMA ContinueType ==
    ASSUME TypeOK, RequestsInFlight, NEW h \in Handlers, Continue(h)
    PROVE  TypeOK'
  <1> DEFINE r == request[h]
  <1>0. request[h] # Idle
    BY DEF Continue, AppendAudit, ApplyTransition, AnalyseImpact, WriteSummary, CheckDecision,
           RecordDecision, AcquireLocks, LockConflict, CommitComplete, CommitFailure,
           GuardAndRead, CommitOperation, AfterCommit, AuditWriteFails, Abort, At
  <1>r. r \in RequestRecords /\ r.cr \in ChangeRequests /\ status[r.cr] # "NONE"
    BY <1>0, InFlightType DEF TypeOK
  <1>1. CASE AppendAudit(h)
    <2>1. trail' \in [ChangeRequests -> Seq([from : Statuses, to : ChangeRequestStatus])]
      BY <1>1, <1>r DEF AppendAudit, TypeOK, Entry, Statuses, ChangeRequestStatus
    <2> QED
      BY <1>0, <1>1, <2>1, CommittedType DEF AppendAudit, TypeOK
  <1>2. CASE ApplyTransition(h)
    <2>1. r.from \in Statuses /\ r.from # "NONE" /\ r.to \in ChangeRequestStatus
      BY <1>0, <1>2, <1>r DEF ApplyTransition, At, RequestsInFlight, RequestOK,
                              RequestRecords
    <2>2. EffectsOf(r.to) \in SUBSET {"audit", "notification", "event"}
      BY DEF EffectsOf
    <2> QED
      BY <1>0, <1>2, <1>r, <2>1, <2>2, TransitionType DEF ApplyTransition, TypeOK
  <1>3. CASE AnalyseImpact(h)
    <2>1. /\ [r EXCEPT !.at = "applyTransition"] \in RequestRecords
          /\ \A i \in {"active", "idle"} :
               [r EXCEPT !.at = "writeSummary", !.impact = i] \in RequestRecords
      BY <1>r DEF RequestRecords, Steps
    <2>2. /\ request' \in [Handlers -> {Idle} \cup RequestRecords]
          /\ \A g \in Handlers : request'[g] # Idle => request[g] # Idle /\ request'[g].cr = request[g].cr
      BY <1>0, <1>3, <1>r, <2>1 DEF AnalyseImpact, TypeOK, RequestRecords
    <2> QED
      BY <1>3, <2>2 DEF AnalyseImpact, TypeOK, rows
  <1>4. CASE WriteSummary(h)
    <2>1. [r EXCEPT !.at = "applyTransition"] \in RequestRecords
      BY <1>r DEF RequestRecords, Steps
    <2>2. /\ request' \in [Handlers -> {Idle} \cup RequestRecords]
          /\ \A g \in Handlers : request'[g] # Idle => request[g] # Idle /\ request'[g].cr = request[g].cr
      BY <1>0, <1>4, <1>r, <2>1 DEF WriteSummary, TypeOK, RequestRecords
    <2>3. r.impact \in {"null", "manual", "active", "idle"}
      BY <1>r DEF RequestRecords
    <2> QED
      BY <1>4, <1>r, <2>2, <2>3 DEF WriteSummary, TypeOK
  <1>5. CASE CheckDecision(h)
    <2>1. NewStatus(r.role, r.outcome) \in ChangeRequestStatus
      BY DEF NewStatus, ChangeRequestStatus
    <2>2. [r EXCEPT !.at = "submitDecision", !.from = "PENDING_APPROVAL",
                    !.to = NewStatus(r.role, r.outcome)] \in RequestRecords
      BY <1>r, <2>1, StatusNames DEF RequestRecords, Steps
    <2>3. /\ request' \in [Handlers -> {Idle} \cup RequestRecords]
          /\ \A g \in Handlers : request'[g] # Idle => request[g] # Idle /\ request'[g].cr = request[g].cr
      BY <1>0, <1>5, <1>r, <2>2 DEF CheckDecision, TypeOK, RequestRecords
    <2> QED
      BY <1>5, <2>3 DEF CheckDecision, TypeOK, rows
  <1>6. CASE RecordDecision(h)
    <2>1. r.role \in Roles /\ r.outcome \in Outcomes /\ r.to \in ChangeRequestStatus
      BY <1>0, <1>6, <1>r DEF RecordDecision, At, RequestsInFlight, RequestOK, RequestRecords
    <2>2. decisions' \in [ChangeRequests -> [Roles -> Outcomes \cup {"none"}]]
      BY <1>6, <1>r, <2>1 DEF RecordDecision, TypeOK
    <2>3. EffectsOf(r.to) \in SUBSET {"audit", "notification", "event"}
      BY DEF EffectsOf
    <2>4. CASE SetStatus(r.cr, "PENDING_APPROVAL", r.to) /\ Committed(h, EffectsOf(r.to))
      BY <1>0, <1>6, <1>r, <2>1, <2>2, <2>3, <2>4, TransitionType, StatusNames
         DEF RecordDecision, TypeOK
    <2>5. CASE /\ trail' = [trail EXCEPT ![r.cr] = Append(@, Entry(r.to, r.to))]
               /\ Committed(h, {}) /\ UNCHANGED status
      <3>1. trail' \in [ChangeRequests -> Seq([from : Statuses, to : ChangeRequestStatus])]
        <4> DEFINE E == [from : Statuses, to : ChangeRequestStatus]
        <4>1. Entry(r.to, r.to) \in E
          BY <2>1, StatusNames DEF Entry
        <4>2. trail \in [ChangeRequests -> Seq(E)]
          BY DEF TypeOK
        <4>3. trail' = [trail EXCEPT ![r.cr] = Append(trail[r.cr], Entry(r.to, r.to))]
          BY <2>5
        <4> HIDE DEF E
        <4>4. trail' \in [ChangeRequests -> Seq(E)]
          BY <1>r, <4>1, <4>2, <4>3
        <4> QED
          BY <4>4 DEF E
      <3> QED
        BY <1>0, <1>6, <2>2, <2>5, <3>1, CommittedType DEF RecordDecision, TypeOK
    <2> QED
      BY <1>6, <2>4, <2>5 DEF RecordDecision
  <1>7. CASE AcquireLocks(h)
    <2>1. lockedBy' \in [Capabilities -> ChangeRequests \cup {NoLock}]
      BY <1>7, <1>r DEF AcquireLocks, TypeOK
    <2> QED
      BY <1>0, <1>7, <1>r, <2>1, TransitionType, StatusNames DEF AcquireLocks, TypeOK
  <1>8. CASE LockConflict(h)
    <2>1. [r EXCEPT !.at = "locked"] \in RequestRecords
      BY <1>r DEF RequestRecords, Steps
    <2>2. /\ request' \in [Handlers -> {Idle} \cup RequestRecords]
          /\ \A g \in Handlers : request'[g] # Idle => request[g] # Idle /\ request'[g].cr = request[g].cr
      BY <1>0, <1>8, <1>r, <2>1 DEF LockConflict, TypeOK, RequestRecords
    <2> QED
      BY <1>8, <2>2 DEF LockConflict, TypeOK, rows
  <1>9. CASE CommitComplete(h)
    BY <1>0, <1>9, <1>r, ReleaseType, TransitionType, StatusNames DEF CommitComplete, TypeOK
  <1>10. CASE CommitFailure(h)
    BY <1>0, <1>10, <1>r, ReleaseType, TransitionType, StatusNames DEF CommitFailure, TypeOK
  <1>11. CASE GuardAndRead(h)
    <2>1. [r EXCEPT !.at = "apply", !.seen = revision] \in RequestRecords
      BY <1>r DEF RequestRecords, Steps, TypeOK
    <2>2. /\ request' \in [Handlers -> {Idle} \cup RequestRecords]
          /\ \A g \in Handlers : request'[g] # Idle => request[g] # Idle /\ request'[g].cr = request[g].cr
      BY <1>0, <1>11, <1>r, <2>1 DEF GuardAndRead, TypeOK, RequestRecords
    <2> QED
      BY <1>11, <2>2 DEF GuardAndRead, TypeOK, rows
  <1>12. CASE CommitOperation(h)
    <2>1. revision' \in [Capabilities -> Nat]
      BY <1>12 DEF CommitOperation, TypeOK
    <2> QED
      BY <1>0, <1>12, <1>r, <2>1, ReleaseType, TransitionType, StatusNames
         DEF CommitOperation, TypeOK
  <1>13. CASE AfterCommit(h)
    <2>1. r.to \in ChangeRequestStatus /\ r.effects \subseteq {"audit", "notification", "event"}
      BY <1>r DEF RequestRecords
    <2>2. effects' \subseteq [kind : {"audit", "notification", "event"},
                              cr : ChangeRequests, status : ChangeRequestStatus]
      <3>1. PICK done \in SUBSET (r.effects \cap EffectKinds) :
              effects' = effects \cup {[kind |-> k, cr |-> r.cr, status |-> r.to] : k \in done}
        BY <1>13 DEF AfterCommit
      <3>2. \A k \in done : [kind |-> k, cr |-> r.cr, status |-> r.to]
              \in [kind : {"audit", "notification", "event"},
                   cr : ChangeRequests, status : ChangeRequestStatus]
        BY <1>r, <2>1, <3>1
      <3> QED
        BY <3>1, <3>2 DEF TypeOK
    <2> QED
      BY <1>13, <2>2 DEF AfterCommit, TypeOK, rows
  <1>14. CASE AuditWriteFails(h)
    BY <1>14 DEF AuditWriteFails, TypeOK, rows
  <1>15. CASE Abort(h)
    BY <1>15 DEF Abort, TypeOK, rows
  <1> QED
    BY <1>1, <1>2, <1>3, <1>4, <1>5, <1>6, <1>7, <1>8, <1>9, <1>10, <1>11, <1>12, <1>13,
       <1>14, <1>15 DEF Continue

LEMMA ArriveType ==
    ASSUME TypeOK, NEW h \in Handlers, NEW c \in ChangeRequests, Arrive(h, c)
    PROVE  TypeOK'
  <1>1. CASE \E d \in Dtos : Create(h, c, d)
    <2>1. PICK d \in Dtos : Create(h, c, d)
      BY <1>1
    <2>2. Request("appendAudit", c, "DRAFT") \in RequestRecords
          /\ Request("appendAudit", c, "DRAFT").cr = c
      BY RequestType DEF Steps, ChangeRequestStatus
    <2>3. /\ d.summary \in {"null", "manual"}
          /\ d # NoDto
      BY DtosAssumption
    <2>4. /\ status' \in [ChangeRequests -> Statuses]
          /\ dto' \in [ChangeRequests -> Dtos \cup {NoDto}]
          /\ \A e \in ChangeRequests : dto'[e] = NoDto <=> status'[e] = "NONE"
          /\ summary' \in [ChangeRequests -> {"null", "manual", "active", "idle"}]
      BY <2>1, <2>3 DEF Create, TypeOK, Statuses, ChangeRequestStatus
    <2>5. /\ request' \in [Handlers -> {Idle} \cup RequestRecords]
          /\ \A g \in Handlers : request'[g] # Idle => status'[request'[g].cr] # "NONE"
      <3>1. request' = [request EXCEPT ![h] = Request("appendAudit", c, "DRAFT")]
            /\ status' = [status EXCEPT ![c] = "DRAFT"]
        BY <2>1 DEF Create
      <3>2. \A g \in Handlers : request[g] # Idle =>
              request[g].cr \in ChangeRequests /\ status[request[g].cr] # "NONE"
        BY InFlightType DEF TypeOK
      <3> QED
        BY <2>2, <3>1, <3>2 DEF TypeOK
    <2> QED
      BY <2>1, <2>4, <2>5 DEF Create, TypeOK
  <1>2. CASE Submit(h, c) \/ Cancel(h, c) \/ RequestApproval(h, c) \/ Execute(h, c)
    BY <1>2, ReadType DEF Submit, Cancel, RequestApproval, Execute, Steps, ChangeRequestStatus
  <1>3. CASE Complete(h, c) \/ ReportFailure(h, c) \/ ApplyStructuralOperation(h, c)
    BY <1>3, ReadType DEF Complete, ReportFailure, ApplyStructuralOperation, Steps,
                          ChangeRequestStatus
  <1>4. CASE \E user \in Deciders, outcome \in Outcomes : SubmitDecision(h, c, user, outcome)
    <2>1. PICK user \in Deciders, outcome \in Outcomes : SubmitDecision(h, c, user, outcome)
      BY <1>4
    <2> DEFINE q == [Request("readDecision", c, "PENDING_APPROVAL")
                       EXCEPT !.role = ApprovalRole(user, c), !.outcome = outcome]
    <2>2. ApprovalRole(user, c) \in Roles \cup {"none"}
      BY DecidersAssumption DEF ApprovalRole, ResolveAdminApprovalRole, Roles,
                                changeRequestDecisionRoles
    <2>3. Request("readDecision", c, "PENDING_APPROVAL") \in RequestRecords
          /\ Request("readDecision", c, "PENDING_APPROVAL").cr = c
      BY RequestType, StatusNames DEF Steps
    <2>4. q \in RequestRecords /\ q.cr = c
      BY <2>2, <2>3 DEF RequestRecords
    <2>5. /\ request' = [request EXCEPT ![h] = q]
          /\ status[c] # "NONE"
          /\ UNCHANGED <<rows, effects>>
      BY <2>1 DEF SubmitDecision
    <2> HIDE DEF q
    <2>6. /\ request' \in [Handlers -> {Idle} \cup RequestRecords]
          /\ \A g \in Handlers : request'[g] # Idle => status[request'[g].cr] # "NONE"
      BY <2>4, <2>5 DEF TypeOK
    <2> QED
      BY <2>5, <2>6 DEF TypeOK, rows
  <1> QED
    BY <1>1, <1>2, <1>3, <1>4 DEF Arrive

-----------------------------------------------------------------------------
(* The five ways a step changes what is promised about a change request.  All
   of them speak of the current state: whatever a handler had read earlier,
   its commit is one of these or changes nothing. *)

Drafted(c) ==
    /\ status[c] = "NONE"
    /\ status' = [status EXCEPT ![c] = "DRAFT"]
    /\ \E d \in Dtos : dto' = [dto EXCEPT ![c] = d]
    /\ UNCHANGED <<decisions, lockedBy>>

Advanced(c) ==
    /\ \/ status[c] = "DRAFT" /\ status' = [status EXCEPT ![c] = "SUBMITTED"]
       \/ status[c] = "DRAFT" /\ status' = [status EXCEPT ![c] = "CANCELLED"]
       \/ status[c] = "SUBMITTED" /\ status' = [status EXCEPT ![c] = "PENDING_APPROVAL"]
       \/ status[c] = "SUBMITTED" /\ status' = [status EXCEPT ![c] = "CANCELLED"]
    /\ UNCHANGED <<dto, decisions, lockedBy>>

Decided(c, role, outcome) ==
    /\ status[c] = "PENDING_APPROVAL"
    /\ decisions[c][role] = "none"
    /\ role = "governance-board" => decisions[c]["curator"] = "APPROVED"
    /\ decisions' = [decisions EXCEPT ![c][role] = outcome]
    /\ status' = [status EXCEPT ![c] = NewStatus(role, outcome)]
    /\ UNCHANGED <<dto, lockedBy>>

Started(c) ==
    /\ status[c] = "APPROVED"
    /\ status' = [status EXCEPT ![c] = "EXECUTING"]
    /\ \A a \in Affected(c) : lockedBy[a] = NoLock
    /\ lockedBy' = [a \in Capabilities |-> IF a \in Affected(c) THEN c ELSE lockedBy[a]]
    /\ UNCHANGED <<dto, decisions>>

Finished(c) ==
    /\ status[c] = "EXECUTING"
    /\ \/ status' = [status EXCEPT ![c] = "COMPLETED"]
       \/ status' = [status EXCEPT ![c] = "APPROVED"]
    /\ ReleaseLocks(c)
    /\ UNCHANGED <<dto, decisions>>

Silent == UNCHANGED <<status, dto, decisions, lockedBy>>

StepCase ==
    \/ Silent
    \/ \E c \in ChangeRequests :
          \/ Drafted(c) \/ Advanced(c) \/ Started(c) \/ Finished(c)
          \/ \E role \in Roles, outcome \in Outcomes : Decided(c, role, outcome)

(* A curator's approval is recorded without a guard on the status: that it can
   only happen to a request under approval follows from the invariant, since
   every later status already has a curator's decision. *)
LEMMA DecisionCase ==
    ASSUME IInv, NEW h \in Handlers, RecordDecision(h)
    PROVE  StepCase
  <1> DEFINE r == request[h]
             c == r.cr
  <1>1. /\ r \in RequestRecords /\ c \in ChangeRequests
        /\ r.role \in Roles /\ r.outcome \in Outcomes
        /\ Past(c) /\ r.to = NewStatus(r.role, r.outcome)
        /\ r.role = "governance-board" => decisions[c]["curator"] = "APPROVED"
    BY InFlightType DEF RecordDecision, At, IInv, RequestsInFlight, RequestOK
  <1>2. /\ decisions[c][r.role] = "none"
        /\ decisions' = [decisions EXCEPT ![c][r.role] = r.outcome]
        /\ UNCHANGED <<dto, lockedBy>>
    BY DEF RecordDecision, UniqueDecision
  <1>3. CASE r.to # "PENDING_APPROVAL"
    <2>1. status[c] = "PENDING_APPROVAL" /\ status' = [status EXCEPT ![c] = r.to]
      BY <1>3 DEF RecordDecision, SetStatus
    <2> QED
      BY <1>1, <1>2, <2>1 DEF StepCase, Decided
  <1>4. CASE r.to = "PENDING_APPROVAL"
    <2>1. r.role = "curator"
      BY <1>1, <1>4 DEF NewStatus, Roles, Outcomes
    <2>2. status[c] = "PENDING_APPROVAL"
      BY <1>1, <1>2, <2>1 DEF IInv, DecisionsJustifyStatus, Past, Roles, Outcomes
    <2>3. status' = [status EXCEPT ![c] = r.to]
      BY <1>1, <1>4, <2>2 DEF RecordDecision, IInv, TypeOK
    <2> QED
      BY <1>1, <1>2, <2>2, <2>3 DEF StepCase, Decided
  <1> QED
    BY <1>3, <1>4

LEMMA StepCases ==
    ASSUME IInv, [Next]_vars
    PROVE  StepCase
  <1>1. CASE \E h \in Handlers, c \in ChangeRequests : Arrive(h, c)
    <2>1. PICK h \in Handlers, c \in ChangeRequests : Arrive(h, c)
      BY <1>1
    <2>2. CASE \E d \in Dtos : Create(h, c, d)
      BY <2>2 DEF Create, StepCase, Drafted
    <2>3. CASE ~ \E d \in Dtos : Create(h, c, d)
      BY <2>1, <2>3 DEF Arrive, Submit, Cancel, RequestApproval, Execute, Complete, ReportFailure,
                        ApplyStructuralOperation, SubmitDecision, ReadForTransition, rows,
                        StepCase, Silent
    <2> QED
      BY <2>2, <2>3
  <1>2. CASE \E h \in Handlers : Continue(h)
    <2>1. PICK h \in Handlers : Continue(h)
      BY <1>2
    <2>2. CASE AppendAudit(h) \/ AnalyseImpact(h) \/ WriteSummary(h) \/ CheckDecision(h)
               \/ LockConflict(h) \/ GuardAndRead(h) \/ AfterCommit(h) \/ AuditWriteFails(h)
               \/ Abort(h)
      BY <2>2 DEF AppendAudit, AnalyseImpact, WriteSummary, CheckDecision, LockConflict,
                  GuardAndRead, AfterCommit, AuditWriteFails, Abort, rows, StepCase, Silent
    <2>3. request[h] # Idle =>
            request[h] \in RequestRecords /\ request[h].cr \in ChangeRequests
      BY InFlightType DEF IInv
    <2>4. CASE ApplyTransition(h)
      BY <2>3, <2>4 DEF ApplyTransition, At, IInv, RequestsInFlight, RequestOK, SetStatus,
                        StepCase, Advanced
    <2>5. CASE RecordDecision(h)
      BY <2>5, DecisionCase
    <2>6. CASE AcquireLocks(h)
      BY <2>3, <2>6 DEF AcquireLocks, At, SetStatus, LocksInsertable, StepCase, Started
    <2>7. CASE CommitComplete(h) \/ CommitFailure(h) \/ CommitOperation(h)
      BY <2>3, <2>7 DEF CommitComplete, CommitFailure, CommitOperation, At, SetStatus, StepCase,
                        Finished
    <2> QED
      BY <2>1, <2>2, <2>4, <2>5, <2>6, <2>7 DEF Continue
  <1>3. CASE \E a \in MappedCapabilities : ChangeMappings(a)
    BY <1>3 DEF ChangeMappings, StepCase, Silent
  <1>4. CASE UNCHANGED vars
    BY <1>4 DEF vars, StepCase, Silent
  <1> QED
    BY <1>1, <1>2, <1>3, <1>4 DEF Next

-----------------------------------------------------------------------------
(* The invariant is inductive *)

\* Reaching approval and having a curator's approval are never undone.
LEMMA Stable ==
    ASSUME IInv, StepCase, NEW c \in ChangeRequests
    PROVE  /\ Past(c) => Past(c)'
           /\ decisions[c]["curator"] = "APPROVED" => decisions'[c]["curator"] = "APPROVED"
  <1>1. CASE Silent
    BY <1>1 DEF Silent, Past
  <1>2. ASSUME NEW d \in ChangeRequests,
               Drafted(d) \/ Advanced(d) \/ Started(d) \/ Finished(d)
        PROVE  /\ Past(c) => Past(c)'
               /\ decisions' = decisions
    BY <1>2 DEF Drafted, Advanced, Started, Finished, Past, IInv, TypeOK
  <1>3. ASSUME NEW d \in ChangeRequests, NEW role \in Roles, NEW outcome \in Outcomes,
               Decided(d, role, outcome)
        PROVE  /\ Past(c) => Past(c)'
               /\ decisions[c]["curator"] = "APPROVED" => decisions'[c]["curator"] = "APPROVED"
    BY <1>3 DEF Decided, Past, NewStatus, IInv, TypeOK, Roles
  <1> QED
    BY <1>1, <1>2, <1>3 DEF StepCase

LEMMA DecisionsPreserved ==
    ASSUME IInv, StepCase
    PROVE  DecisionsJustifyStatus'
  <1> USE DEF DecisionsJustifyStatus, Roles
  <1>1. CASE Silent
    BY <1>1 DEF Silent, IInv
  <1>2. ASSUME NEW c \in ChangeRequests, Drafted(c) \/ Advanced(c) \/ Started(c) \/ Finished(c)
        PROVE  DecisionsJustifyStatus'
    <2>1. decisions' = decisions /\ \A d \in ChangeRequests \ {c} : status'[d] = status[d]
      BY <1>2 DEF Drafted, Advanced, Started, Finished, IInv, TypeOK
    <2>2. \/ status[c] \in {"NONE", "DRAFT", "SUBMITTED"}
             /\ status'[c] \in {"DRAFT", "SUBMITTED", "CANCELLED", "PENDING_APPROVAL"}
          \/ status[c] \in {"APPROVED", "EXECUTING"}
             /\ status'[c] \in {"APPROVED", "EXECUTING", "COMPLETED"}
      BY <1>2 DEF Drafted, Advanced, Started, Finished, IInv, TypeOK
    <2> QED
      BY <2>1, <2>2 DEF IInv, NoDecision
  <1>3. ASSUME NEW c \in ChangeRequests, NEW role \in Roles, NEW outcome \in Outcomes,
               Decided(c, role, outcome)
        PROVE  DecisionsJustifyStatus'
    <2>1. /\ status[c] = "PENDING_APPROVAL" /\ decisions[c][role] = "none"
          /\ role = "governance-board" => decisions[c]["curator"] = "APPROVED"
          /\ decisions[c]["governance-board"] # "none" => decisions[c]["curator"] = "APPROVED"
          /\ \A x \in Roles : decisions[c][x] # "REJECTED"
      BY <1>3 DEF Decided, IInv
    <2>2. /\ decisions' = [decisions EXCEPT ![c][role] = outcome]
          /\ status' = [status EXCEPT ![c] = NewStatus(role, outcome)]
      BY <1>3 DEF Decided
    <2>3. /\ status \in [ChangeRequests -> Statuses]
          /\ decisions \in [ChangeRequests -> [Roles -> Outcomes \cup {"none"}]]
      BY DEF IInv, TypeOK
    <2>4. ASSUME NEW d \in ChangeRequests, d # c
          PROVE  status'[d] = status[d] /\ decisions'[d] = decisions[d]
      BY <2>2, <2>3, <2>4
    <2>5. /\ status'[c] = NewStatus(role, outcome)
          /\ decisions'[c] = [decisions[c] EXCEPT ![role] = outcome]
      BY <2>2, <2>3
    <2>6. /\ NewStatus(role, outcome) = "APPROVED" =>
               role = "governance-board" /\ outcome = "APPROVED"
          /\ NewStatus(role, outcome) = "REJECTED" <=> outcome = "REJECTED"
          /\ NewStatus(role, outcome) \in {"APPROVED", "REJECTED", "PENDING_APPROVAL"}
      <3>1. CASE outcome = "REJECTED"
        BY <3>1 DEF NewStatus
      <3>2. CASE outcome = "APPROVED" /\ role = "governance-board"
        BY <3>2 DEF NewStatus
      <3>3. CASE outcome = "APPROVED" /\ role = "curator"
        BY <3>3 DEF NewStatus
      <3> QED
        BY <3>1, <3>2, <3>3 DEF Outcomes
    <2>7. /\ status'[c] \in {"APPROVED", "EXECUTING", "COMPLETED"}
               => \A x \in Roles : decisions'[c][x] = "APPROVED"
          /\ status'[c] = "REJECTED" <=> \E x \in Roles : decisions'[c][x] = "REJECTED"
          /\ decisions'[c]["governance-board"] # "none" => decisions'[c]["curator"] = "APPROVED"
          /\ status'[c] \in {"NONE", "DRAFT", "SUBMITTED", "CANCELLED"} => decisions'[c] = NoDecision
      BY <2>1, <2>3, <2>5, <2>6
    <2> QED
      BY <2>4, <2>7 DEF IInv
  <1> QED
    BY <1>1, <1>2, <1>3 DEF StepCase

LEMMA LocksPreserved ==
    ASSUME IInv, StepCase
    PROVE  LocksMatchExecution'
  <1> USE DEF LocksMatchExecution, IInv, TypeOK
  <1>1. CASE Silent
    BY <1>1 DEF Silent, Affected
  <1>2. ASSUME NEW c \in ChangeRequests, Drafted(c)
        PROVE  LocksMatchExecution'
    <2>1. \A d \in ChangeRequests \ {c} : Affected(d)' = Affected(d)
      BY <1>2 DEF Drafted, Affected
    <2> QED
      BY <1>2, <2>1 DEF Drafted
  <1>3. ASSUME NEW c \in ChangeRequests,
               \/ Advanced(c)
               \/ \E role \in Roles, outcome \in Outcomes : Decided(c, role, outcome)
        PROVE  LocksMatchExecution'
    <2>1. \A d \in ChangeRequests : Affected(d)' = Affected(d)
      BY <1>3 DEF Advanced, Decided, Affected
    <2>2. \A d \in ChangeRequests : status'[d] = "EXECUTING" <=> status[d] = "EXECUTING"
      BY <1>3 DEF Advanced, Decided, NewStatus
    <2> QED
      BY <1>3, <2>1, <2>2 DEF Advanced, Decided
  <1>4. ASSUME NEW c \in ChangeRequests, Started(c)
        PROVE  LocksMatchExecution'
    <2>1. \A d \in ChangeRequests : Affected(d)' = Affected(d)
      BY <1>4 DEF Started, Affected
    <2> QED
      BY <1>4, <2>1, LockAssumption DEF Started
  <1>5. ASSUME NEW c \in ChangeRequests, Finished(c)
        PROVE  LocksMatchExecution'
    <2>1. \A d \in ChangeRequests : Affected(d)' = Affected(d)
      BY <1>5 DEF Finished, Affected
    <2> QED
      BY <1>5, <2>1, LockAssumption DEF Finished, ReleaseLocks
  <1> QED
    BY <1>1, <1>2, <1>3, <1>4, <1>5 DEF StepCase

LEMMA RequestKept ==
    ASSUME IInv, StepCase, NEW r \in RequestRecords, RequestOK(r)
    PROVE  RequestOK(r)'
  <1>1. r.cr \in ChangeRequests
    BY DEF RequestRecords
  <1> QED
    BY <1>1, Stable DEF RequestOK

\* A handler changes no other handler's request, except to end it.
LEMMA OthersKept ==
    ASSUME IInv, StepCase, NEW h \in Handlers,
           \A g \in Handlers \ {h} : request'[g] \in {request[g], Idle},
           request'[h] # Idle => RequestOK(request[h])'
    PROVE  RequestsInFlight'
  <1>1. ASSUME NEW g \in Handlers, request'[g] # Idle
        PROVE  RequestOK(request[g])'
    <2>1. CASE g = h
      BY <1>1, <2>1 DEF RequestOK, Past
    <2>2. CASE g # h
      <3> DEFINE r == request[g]
      <3>1. request'[g] = r /\ r # Idle
        BY <1>1, <2>2
      <3>2. r \in RequestRecords /\ RequestOK(r)
        BY <3>1, InFlightType DEF IInv, RequestsInFlight
      <3>3. ASSUME NEW q \in RequestRecords, RequestOK(q)
            PROVE  RequestOK(q)'
        BY <3>3, RequestKept
      <3> QED
        BY <3>1, <3>2, <3>3 DEF RequestOK, Past
    <2> QED
      BY <2>1, <2>2
  <1> QED
    BY <1>1 DEF RequestsInFlight

LEMMA RequestsPreserved ==
    ASSUME IInv, [Next]_vars, TypeOK'
    PROVE  RequestsInFlight'
  <1>0. StepCase
    BY StepCases
  <1>1. ASSUME NEW h \in Handlers, NEW c \in ChangeRequests, Arrive(h, c)
        PROVE  RequestsInFlight'
    <2>1. ASSUME NEW step \in Steps, NEW to \in ChangeRequestStatus,
                 ReadForTransition(h, c, to, step),
                 step \notin {"readDecision", "submitDecision"},
                 step = "applyTransition" => to \in {"SUBMITTED", "CANCELLED"},
                 step \in {"analyse", "writeSummary"} => to = "PENDING_APPROVAL"
          PROVE  RequestsInFlight'
      <3>1. request' = [request EXCEPT ![h] = Request(step, c, to)]
            /\ AssertValidTransition(status[c], to)
        BY <2>1 DEF ReadForTransition
      <3>2. request'[h] = Request(step, c, to)
            /\ \A g \in Handlers \ {h} : request'[g] = request[g]
        BY <3>1 DEF IInv, TypeOK
      <3>3. Request(step, c, to).at = step /\ Request(step, c, to).from = status[c]
            /\ Request(step, c, to).to = to
        BY DEF Request
      <3>4. /\ to \in {"SUBMITTED", "CANCELLED", "PENDING_APPROVAL"} =>
                 status[c] \in {"DRAFT", "SUBMITTED"}
            /\ to = "SUBMITTED" => status[c] = "DRAFT"
            /\ to = "PENDING_APPROVAL" => status[c] = "SUBMITTED"
        BY <3>1 DEF AssertValidTransition, VALID_TRANSITIONS
      <3>5. RequestOK(request[h])'
        BY <2>1, <3>2, <3>3, <3>4 DEF RequestOK
      <3> QED
        BY <1>0, <3>2, <3>5, OthersKept
    <2>2. CASE \E d \in Dtos : Create(h, c, d)
      <3>1. request' = [request EXCEPT ![h] = Request("appendAudit", c, "DRAFT")]
        BY <2>2 DEF Create
      <3>2. Request("appendAudit", c, "DRAFT").at = "appendAudit"
        BY DEF Request
      <3>3. RequestOK(request[h])' /\ \A g \in Handlers \ {h} : request'[g] = request[g]
        BY <3>1, <3>2 DEF RequestOK, IInv, TypeOK
      <3> QED
        BY <1>0, <3>3, OthersKept
    <2>3. CASE Submit(h, c) \/ Cancel(h, c) \/ RequestApproval(h, c)
      BY <2>1, <2>3 DEF Submit, Cancel, RequestApproval, Steps, ChangeRequestStatus
    <2>4. CASE Execute(h, c) \/ Complete(h, c) \/ ReportFailure(h, c)
               \/ ApplyStructuralOperation(h, c)
      BY <2>1, <2>4 DEF Execute, Complete, ReportFailure, ApplyStructuralOperation, Steps,
                        ChangeRequestStatus
    <2>5. ASSUME NEW user \in Deciders, NEW outcome \in Outcomes,
                 SubmitDecision(h, c, user, outcome)
          PROVE  RequestsInFlight'
      <3> DEFINE q == [Request("readDecision", c, "PENDING_APPROVAL")
                         EXCEPT !.role = ApprovalRole(user, c), !.outcome = outcome]
      <3>1. request' = [request EXCEPT ![h] = q] /\ ApprovalRole(user, c) # "none"
        BY <2>5 DEF SubmitDecision
      <3>2. ApprovalRole(user, c) \in Roles \cup {"none"}
        BY DecidersAssumption DEF ApprovalRole, ResolveAdminApprovalRole, Roles,
                                  changeRequestDecisionRoles
      <3>3. q.at = "readDecision" /\ q.role \in Roles /\ q.outcome \in Outcomes
        BY <3>1, <3>2 DEF Request
      <3> HIDE DEF q
      <3>4. RequestOK(request[h])' /\ \A g \in Handlers \ {h} : request'[g] = request[g]
        BY <3>1, <3>3 DEF RequestOK, IInv, TypeOK
      <3> QED
        BY <1>0, <3>4, OthersKept
    <2> QED
      BY <1>1, <2>2, <2>3, <2>4, <2>5 DEF Arrive
  <1>2. ASSUME NEW h \in Handlers, Continue(h)
        PROVE  RequestsInFlight'
    <2> DEFINE r == request[h]
    <2>1. request[h] # Idle
      BY <1>2 DEF Continue, AppendAudit, ApplyTransition, AnalyseImpact, WriteSummary,
             CheckDecision, RecordDecision, AcquireLocks, LockConflict, CommitComplete,
             CommitFailure, GuardAndRead, CommitOperation, AfterCommit, AuditWriteFails, Abort, At
    <2>2. r \in RequestRecords /\ RequestOK(r) /\ r.cr \in ChangeRequests
      BY <2>1, InFlightType DEF IInv, RequestsInFlight
    <2>3. ASSUME NEW launched \in SUBSET {"audit", "notification", "event"},
                 Committed(h, launched)
          PROVE  RequestsInFlight'
      <3>1. \A g \in Handlers \ {h} : request'[g] = request[g]
        BY <2>3 DEF Committed, IInv, TypeOK
      <3>2. request'[h] = Idle \/ request'[h].at = "afterCommit"
        BY <2>2, <2>3 DEF Committed, IInv, TypeOK, RequestRecords
      <3> QED
        BY <1>0, <3>1, <3>2, OthersKept DEF RequestOK
    <2>4. CASE AppendAudit(h) \/ ApplyTransition(h) \/ RecordDecision(h) \/ AcquireLocks(h)
               \/ CommitComplete(h) \/ CommitFailure(h) \/ CommitOperation(h)
      <3>1. \A to : EffectsOf(to) \in SUBSET {"audit", "notification", "event"}
        BY DEF EffectsOf
      <3> QED
        BY <2>3, <2>4, <3>1 DEF AppendAudit, ApplyTransition, RecordDecision, AcquireLocks,
                                CommitComplete, CommitFailure, CommitOperation
    <2>5. CASE AnalyseImpact(h) \/ WriteSummary(h)
      <3>1. /\ \A g \in Handlers \ {h} : request'[g] = request[g]
            /\ request'[h].at \in {"writeSummary", "applyTransition"}
            /\ request'[h].from = r.from /\ request'[h].to = r.to
            /\ r.at \in {"analyse", "writeSummary"}
        <4>1. CASE AnalyseImpact(h) /\ r.impact = "null"
          <5>1. PICK i \in {"active", "idle"} :
                  request' = [request EXCEPT ![h] =
                                [r EXCEPT !.at = "writeSummary", !.impact = i]]
            BY <4>1 DEF AnalyseImpact
          <5> QED
            BY <2>2, <4>1, <5>1 DEF AnalyseImpact, At, IInv, TypeOK, RequestRecords
        <4>2. CASE AnalyseImpact(h) /\ r.impact # "null"
          <5>1. request' = [request EXCEPT ![h] = [r EXCEPT !.at = "applyTransition"]]
            BY <4>2 DEF AnalyseImpact
          <5> QED
            BY <2>2, <4>2, <5>1 DEF AnalyseImpact, At, IInv, TypeOK, RequestRecords
        <4>3. CASE WriteSummary(h)
          BY <2>2, <4>3 DEF WriteSummary, At, IInv, TypeOK, RequestRecords
        <4> QED
          BY <2>5, <4>1, <4>2, <4>3
      <3>2. RequestOK(request[h])'
        BY <2>2, <3>1 DEF RequestOK
      <3> QED
        BY <1>0, <3>1, <3>2, OthersKept
    <2>6. CASE CheckDecision(h)
      <3>1. /\ r.at = "readDecision" /\ status[r.cr] = "PENDING_APPROVAL" /\ MayDecide(r.cr, r.role)
            /\ request' = [request EXCEPT ![h] =
                 [r EXCEPT !.at = "submitDecision", !.from = "PENDING_APPROVAL",
                           !.to = NewStatus(r.role, r.outcome)]]
            /\ UNCHANGED <<status, decisions>>
        BY <2>6 DEF CheckDecision, At, rows
      <3>2. /\ \A g \in Handlers \ {h} : request'[g] = request[g]
            /\ request'[h].at = "submitDecision" /\ request'[h].cr = r.cr
            /\ request'[h].role = r.role /\ request'[h].outcome = r.outcome
            /\ request'[h].to = NewStatus(r.role, r.outcome)
        BY <2>2, <3>1 DEF IInv, TypeOK, RequestRecords
      <3>3. r.role = "governance-board" => decisions[r.cr]["curator"] = "APPROVED"
        BY <3>1 DEF MayDecide
      <3>4. r.role \in Roles /\ r.outcome \in Outcomes
        BY <2>2, <3>1 DEF RequestOK
      <3>5. RequestOK(request[h])'
        BY <3>1, <3>2, <3>3, <3>4 DEF RequestOK, Past
      <3> QED
        BY <1>0, <3>2, <3>5, OthersKept
    <2>7. CASE LockConflict(h) \/ GuardAndRead(h)
      <3>1. /\ \A g \in Handlers \ {h} : request'[g] = request[g]
            /\ request'[h].at \in {"locked", "apply"}
        BY <2>2, <2>7 DEF LockConflict, GuardAndRead, IInv, TypeOK, RequestRecords
      <3>2. RequestOK(request[h])'
        BY <3>1 DEF RequestOK
      <3> QED
        BY <1>0, <3>1, <3>2, OthersKept
    <2>8. CASE AfterCommit(h) \/ AuditWriteFails(h) \/ Abort(h)
      <3>1. request'[h] = Idle /\ \A g \in Handlers : request'[g] \in {request[g], Idle}
        BY <2>8 DEF AfterCommit, AuditWriteFails, Abort, IInv, TypeOK
      <3> QED
        BY <1>0, <3>1, OthersKept
    <2> QED
      BY <1>2, <2>4, <2>5, <2>6, <2>7, <2>8 DEF Continue
  <1>3. ASSUME UNCHANGED request
        PROVE  RequestsInFlight'
    <2>1. ASSUME NEW g \in Handlers, request'[g] # Idle
          PROVE  RequestOK(request[g])'
      <3>1. request[g] \in RequestRecords /\ RequestOK(request[g]) /\ request'[g] = request[g]
        BY <1>3, <2>1, InFlightType DEF IInv, RequestsInFlight
      <3>2. ASSUME NEW q \in RequestRecords, RequestOK(q)
            PROVE  RequestOK(q)'
        BY <1>0, <3>2, RequestKept
      <3> QED
        BY <3>1, <3>2 DEF RequestOK, Past
    <2> QED
      BY <2>1 DEF RequestsInFlight
  <1>4. CASE \E a \in MappedCapabilities : ChangeMappings(a)
    BY <1>3, <1>4 DEF ChangeMappings
  <1>5. CASE UNCHANGED vars
    BY <1>3, <1>5 DEF vars
  <1> QED
    BY <1>1, <1>2, <1>4, <1>5 DEF Next

LEMMA InitInv ==
    ASSUME Init
    PROVE  IInv
  <1> USE DEF Init
  <1>1. TypeOK
    BY DtosAssumption DEF TypeOK, Statuses, NoDecision, NoRevision, Outcomes, Idle
  <1>2. DecisionsJustifyStatus
    BY DEF DecisionsJustifyStatus, NoDecision, Roles
  <1>3. LocksMatchExecution
    BY LockAssumption DEF LocksMatchExecution
  <1>4. RequestsInFlight
    BY DEF RequestsInFlight
  <1> QED
    BY <1>1, <1>2, <1>3, <1>4 DEF IInv

LEMMA TypePreserved ==
    ASSUME IInv, [Next]_vars
    PROVE  TypeOK'
  <1> USE DEF IInv
  <1>1. CASE \E h \in Handlers, c \in ChangeRequests : Arrive(h, c)
    BY <1>1, ArriveType
  <1>2. CASE \E h \in Handlers : Continue(h)
    BY <1>2, ContinueType
  <1>3. CASE \E a \in MappedCapabilities : ChangeMappings(a)
    BY <1>3, MappedAssumption DEF ChangeMappings, TypeOK
  <1>4. CASE UNCHANGED vars
    BY <1>4 DEF vars, TypeOK
  <1> QED
    BY <1>1, <1>2, <1>3, <1>4 DEF Next

LEMMA Inductive ==
    ASSUME IInv, [Next]_vars
    PROVE  IInv'
  BY TypePreserved, StepCases, DecisionsPreserved, LocksPreserved, RequestsPreserved DEF IInv

LEMMA Invariance == Spec => []IInv
  <1>1. Init => IInv
    BY InitInv
  <1>2. IInv /\ [Next]_vars => IInv'
    BY Inductive
  <1> QED
    BY <1>1, <1>2, PTL DEF Spec

\* The tables always hold what their columns allow, and every request in
\* flight concerns a change request that exists.
THEOREM TypeCorrect == Spec => []TypeOK
  <1>1. IInv => TypeOK
    BY DEF IInv
  <1> QED
    BY <1>1, Invariance, PTL

\* Whatever decisions race, the status of a change request is the one that its
\* recorded decisions justify (submitDecision).
THEOREM DecisionsCorrect == Spec => []DecisionsJustifyStatus
  <1>1. IInv => DecisionsJustifyStatus
    BY DEF IInv
  <1> QED
    BY <1>1, Invariance, PTL

\* The lock rows are exactly those of the executing change requests (execute,
\* complete, reportFailure, apply).
THEOREM LocksCorrect == Spec => []LocksMatchExecution
  <1>1. IInv => LocksMatchExecution
    BY DEF IInv
  <1> QED
    BY <1>1, Invariance, PTL

-----------------------------------------------------------------------------
(* Refinement *)

LEMMA InitRefined ==
    ASSUME Init
    PROVE  Lifecycle!Init
  BY DEF Init, Lifecycle!Init, Affected, NoDecision, Roles

\* Each case of a step is a step of the lifecycle, on the current state.
LEMMA StepRefined ==
    ASSUME IInv, StepCase
    PROVE  [Lifecycle!Next]_(Lifecycle!vars)
  <1> DEFINE scope == [d \in ChangeRequests |-> Affected(d)]
             curator == [d \in ChangeRequests |-> decisions[d]["curator"]]
             board == [d \in ChangeRequests |-> decisions[d]["governance-board"]]
  <1>1. CASE Silent
    BY <1>1 DEF Silent, Lifecycle!vars, Affected
  <1>2. ASSUME NEW c \in ChangeRequests, Drafted(c)
        PROVE  Lifecycle!Draft(c)
    <2>1. PICK d \in Dtos : dto' = [dto EXCEPT ![c] = d]
      BY <1>2 DEF Drafted
    <2>2. AffectedOf(d) \in (SUBSET Capabilities) \ {{}}
      <3>1. d.affected \in Seq(Capabilities) /\ d.affected # <<>>
        BY DtosAssumption
      <3>2. d.affected[1] \in AffectedOf(d)
        BY <3>1 DEF AffectedOf
      <3>3. \A i \in DOMAIN d.affected : d.affected[i] \in Capabilities
        BY <3>1
      <3>4. AffectedOf(d) \subseteq Capabilities
        BY <3>3 DEF AffectedOf
      <3> QED
        BY <3>2, <3>4
    <2>3. d # NoDto
      BY DtosAssumption
    <2>4. scope' = [scope EXCEPT ![c] = AffectedOf(d)]
      BY <2>1, <2>3 DEF Affected, IInv, TypeOK
    <2> QED
      BY <1>2, <2>2, <2>4 DEF Drafted, Lifecycle!Draft, Lifecycle!Move
  <1>3. ASSUME NEW c \in ChangeRequests, Advanced(c)
        PROVE  Lifecycle!Advance(c)
    BY <1>3 DEF Advanced, Lifecycle!Advance, Lifecycle!Move, Affected
  <1>4. ASSUME NEW c \in ChangeRequests, Started(c)
        PROVE  Lifecycle!Start(c)
    BY <1>4 DEF Started, Lifecycle!Start, Lifecycle!Move, Affected
  <1>5. ASSUME NEW c \in ChangeRequests, Finished(c)
        PROVE  Lifecycle!Finish(c)
    <2>1. \A a \in Capabilities : lockedBy[a] = c <=> a \in Affected(c)
      BY <1>5 DEF Finished, IInv, LocksMatchExecution
    <2>2. lockedBy' = [a \in Capabilities |-> IF a \in Affected(c) THEN NoLock ELSE lockedBy[a]]
      BY <1>5, <2>1 DEF Finished, ReleaseLocks
    <2> QED
      BY <1>5, <2>2 DEF Finished, Lifecycle!Finish, Lifecycle!Move, Affected
  <1>6. ASSUME NEW c \in ChangeRequests, NEW role \in Roles, NEW outcome \in Outcomes,
               Decided(c, role, outcome)
        PROVE  Lifecycle!CuratorDecides(c, outcome) \/ Lifecycle!BoardDecides(c, outcome)
    <2> USE DEF Decided, IInv, TypeOK
    <2>1. UNCHANGED <<scope, lockedBy>>
      BY <1>6 DEF Affected
    <2>2. CASE role = "curator"
      <3>1. curator' = [curator EXCEPT ![c] = outcome] /\ UNCHANGED board
        BY <1>6, <2>2 DEF Roles
      <3>2. status' = IF outcome = "REJECTED" THEN [status EXCEPT ![c] = "REJECTED"] ELSE status
        BY <1>6, <2>2 DEF NewStatus
      <3> QED
        BY <1>6, <2>1, <2>2, <3>1, <3>2 DEF Lifecycle!CuratorDecides
    <2>3. CASE role = "governance-board"
      <3>1. board' = [board EXCEPT ![c] = outcome] /\ UNCHANGED curator
        BY <1>6, <2>3 DEF Roles
      <3>2. status' = [status EXCEPT ![c] = outcome]
        BY <1>6, <2>3 DEF NewStatus, Outcomes
      <3> QED
        BY <1>6, <2>1, <2>3, <3>1, <3>2 DEF Lifecycle!BoardDecides, Lifecycle!Move
    <2> QED
      BY <2>2, <2>3 DEF Roles
  <1> QED
    BY <1>1, <1>2, <1>3, <1>4, <1>5, <1>6 DEF StepCase, Lifecycle!Next, Outcomes

\* Every endpoint, though it works from a read that may be stale, takes effect
\* as one atomic step of the promised workflow, or not at all.
THEOREM Refinement == Spec => ImplementsLifecycle
  <1>1. Init => Lifecycle!Init
    BY InitRefined
  <1>2. IInv /\ [Next]_vars => [Lifecycle!Next]_(Lifecycle!vars)
    BY StepCases, StepRefined
  <1> QED
    BY <1>1, <1>2, Invariance, PTL DEF Spec, ImplementsLifecycle, Lifecycle!Spec

-----------------------------------------------------------------------------
(* What a step does to the status and the trail *)

Drafts(c) ==
    /\ status[c] = "NONE"
    /\ status' = [status EXCEPT ![c] = "DRAFT"]
    /\ UNCHANGED trail

NotesCreation(c) ==
    /\ status[c] # "NONE"
    /\ UNCHANGED status
    /\ trail' = [trail EXCEPT ![c] = Append(trail[c], Entry("NONE", "DRAFT"))]

Moves(c, to) ==
    /\ status[c] \notin {"NONE"} \cup TERMINAL_STATUSES
    /\ status' = [status EXCEPT ![c] = to]
    /\ trail' = [trail EXCEPT ![c] = Append(trail[c], Entry(status[c], to))]

TrailCase ==
    \/ UNCHANGED <<status, trail>>
    \/ \E c \in ChangeRequests :
          \/ Drafts(c)
          \/ NotesCreation(c)
          \/ \E to \in ChangeRequestStatus : Moves(c, to)

LEMMA RequestInHand ==
    ASSUME IInv, NEW h \in Handlers, request[h] # Idle
    PROVE  /\ request[h] \in RequestRecords /\ request[h].cr \in ChangeRequests
           /\ request[h].to \in ChangeRequestStatus
           /\ status[request[h].cr] # "NONE" /\ RequestOK(request[h])
  BY InFlightType DEF IInv, TypeOK, RequestsInFlight, RequestRecords

\* A decision is recorded of a request under approval, and in the trail with
\* the status it had.
LEMMA DecisionMoves ==
    ASSUME IInv, NEW h \in Handlers, RecordDecision(h)
    PROVE  Moves(request[h].cr, request[h].to)
  <1> DEFINE r == request[h]
             c == r.cr
  <1>1. /\ r \in RequestRecords /\ c \in ChangeRequests
        /\ r.role \in Roles /\ r.outcome \in Outcomes
        /\ Past(c) /\ r.to = NewStatus(r.role, r.outcome)
        /\ r.role = "governance-board" => decisions[c]["curator"] = "APPROVED"
    BY InFlightType DEF RecordDecision, At, IInv, RequestsInFlight, RequestOK
  <1>2. CASE r.to # "PENDING_APPROVAL"
    BY <1>2 DEF RecordDecision, SetStatus, Moves, TERMINAL_STATUSES
  <1>3. CASE r.to = "PENDING_APPROVAL"
    <2>1. r.role = "curator" /\ decisions[c][r.role] = "none"
      BY <1>1, <1>3 DEF NewStatus, Roles, Outcomes, RecordDecision, UniqueDecision
    <2>2. status[c] = "PENDING_APPROVAL"
      BY <1>1, <2>1 DEF IInv, DecisionsJustifyStatus, Past, Roles, Outcomes
    <2>3. /\ UNCHANGED status
          /\ trail' = [trail EXCEPT ![c] = Append(trail[c], Entry(r.to, r.to))]
      BY <1>3 DEF RecordDecision
    <2>4. status' = [status EXCEPT ![c] = r.to]
      BY <1>1, <1>3, <2>2, <2>3 DEF IInv, TypeOK
    <2> QED
      BY <1>3, <2>2, <2>3, <2>4 DEF Moves, TERMINAL_STATUSES
  <1> QED
    BY <1>2, <1>3

LEMMA TrailCases ==
    ASSUME IInv, [Next]_vars
    PROVE  TrailCase
  <1>1. ASSUME NEW h \in Handlers, NEW c \in ChangeRequests, Arrive(h, c)
        PROVE  TrailCase
    <2>1. CASE \E d \in Dtos : Create(h, c, d)
      BY <2>1 DEF Create, TrailCase, Drafts
    <2>2. CASE ~ \E d \in Dtos : Create(h, c, d)
      BY <1>1, <2>2 DEF Arrive, Submit, Cancel, RequestApproval, Execute, Complete, ReportFailure,
                        ApplyStructuralOperation, SubmitDecision, ReadForTransition, rows, TrailCase
    <2> QED
      BY <2>1, <2>2
  <1>2. ASSUME NEW h \in Handlers, Continue(h)
        PROVE  TrailCase
    <2>1. CASE AnalyseImpact(h) \/ WriteSummary(h) \/ CheckDecision(h) \/ LockConflict(h)
               \/ GuardAndRead(h) \/ AfterCommit(h) \/ AuditWriteFails(h) \/ Abort(h)
      BY <2>1 DEF AnalyseImpact, WriteSummary, CheckDecision, LockConflict, GuardAndRead,
                  AfterCommit, AuditWriteFails, Abort, rows, TrailCase
    <2>2. CASE AppendAudit(h)
      <3>1. NotesCreation(request[h].cr) /\ request[h].cr \in ChangeRequests
        BY <2>2, RequestInHand DEF AppendAudit, At, NotesCreation
      <3> QED
        BY <3>1 DEF TrailCase
    <2>3. CASE ApplyTransition(h)
      <3>1. Moves(request[h].cr, request[h].to) /\ request[h].cr \in ChangeRequests
            /\ request[h].to \in ChangeRequestStatus
        BY <2>3, RequestInHand DEF ApplyTransition, At, SetStatus, RequestOK, Moves, TERMINAL_STATUSES
      <3> QED
        BY <3>1 DEF TrailCase
    <2>4. CASE RecordDecision(h)
      <3>1. request[h].cr \in ChangeRequests /\ request[h].to \in ChangeRequestStatus
        BY <2>4, RequestInHand DEF RecordDecision, At
      <3> QED
        BY <2>4, <3>1, DecisionMoves DEF TrailCase
    <2>5. CASE AcquireLocks(h) \/ CommitComplete(h) \/ CommitFailure(h) \/ CommitOperation(h)
      <3>1. request[h].cr \in ChangeRequests
        BY <2>5, RequestInHand DEF AcquireLocks, CommitComplete, CommitFailure, CommitOperation, At
      <3>2. \E to \in {"EXECUTING", "COMPLETED", "APPROVED"} : Moves(request[h].cr, to)
        BY <2>5 DEF AcquireLocks, CommitComplete, CommitFailure, CommitOperation, SetStatus, Moves,
                    TERMINAL_STATUSES
      <3> QED
        BY <3>1, <3>2 DEF TrailCase, ChangeRequestStatus
    <2> QED
      BY <1>2, <2>1, <2>2, <2>3, <2>4, <2>5 DEF Continue
  <1>3. CASE \E a \in MappedCapabilities : ChangeMappings(a)
    BY <1>3 DEF ChangeMappings, TrailCase
  <1>4. CASE UNCHANGED vars
    BY <1>4 DEF vars, TrailCase
  <1> QED
    BY <1>1, <1>2, <1>3, <1>4 DEF Next

\* What is written stays: a trail only grows, and a terminal status is final.
LEMMA RecordsStay ==
    ASSUME IInv, TrailCase, NEW c \in ChangeRequests
    PROVE  /\ \A i \in DOMAIN trail[c] : i \in DOMAIN trail'[c] /\ trail'[c][i] = trail[c][i]
           /\ status[c] \in TERMINAL_STATUSES => status'[c] = status[c]
  <1> DEFINE E == [from : Statuses, to : ChangeRequestStatus]
  <1>0. trail[c] \in Seq(E) /\ trail \in [ChangeRequests -> Seq(E)] /\ status \in [ChangeRequests -> Statuses]
    BY DEF IInv, TypeOK
  <1>1. CASE UNCHANGED <<status, trail>>
    BY <1>1
  <1>2. ASSUME NEW d \in ChangeRequests, Drafts(d) \/ NotesCreation(d) \/ \E to \in ChangeRequestStatus : Moves(d, to)
        PROVE  status[c] \in TERMINAL_STATUSES => status'[c] = status[c]
    BY <1>0, <1>2 DEF Drafts, NotesCreation, Moves, TERMINAL_STATUSES
  <1>3. ASSUME NEW d \in ChangeRequests, NEW e \in E, trail' = [trail EXCEPT ![d] = Append(trail[d], e)]
        PROVE  \A i \in DOMAIN trail[c] : i \in DOMAIN trail'[c] /\ trail'[c][i] = trail[c][i]
    <2>1. CASE c = d
      <3>1. trail'[c] = Append(trail[c], e)
        BY <1>0, <1>3, <2>1
      <3> HIDE DEF E
      <3> QED
        BY <1>0, <3>1
    <2>2. CASE c # d
      BY <1>0, <1>3, <2>2
    <2> QED
      BY <2>1, <2>2
  <1>4. ASSUME NEW d \in ChangeRequests, Drafts(d) \/ NotesCreation(d) \/ \E to \in ChangeRequestStatus : Moves(d, to)
        PROVE  \A i \in DOMAIN trail[c] : i \in DOMAIN trail'[c] /\ trail'[c][i] = trail[c][i]
    <2>1. CASE Drafts(d)
      BY <2>1 DEF Drafts
    <2>2. CASE NotesCreation(d)
      <3>1. Entry("NONE", "DRAFT") \in E
        BY DEF Entry, Statuses, ChangeRequestStatus
      <3> QED
        BY <1>3, <2>2, <3>1 DEF NotesCreation
    <2>3. ASSUME NEW to \in ChangeRequestStatus, Moves(d, to)
          PROVE  \A i \in DOMAIN trail[c] : i \in DOMAIN trail'[c] /\ trail'[c][i] = trail[c][i]
      <3>1. Entry(status[d], to) \in E
        BY <1>0 DEF Entry
      <3> QED
        BY <1>3, <2>3, <3>1 DEF Moves
    <2> QED
      BY <1>4, <2>1, <2>2, <2>3
  <1> QED
    BY <1>1, <1>2, <1>4 DEF TrailCase

-----------------------------------------------------------------------------
(* The trail accounts for the status *)

\* TrailReplaysStatus, said of one trail and one status.
Replays(t, s) ==
    LET T == {i \in DOMAIN t : t[i].from # "NONE"} IN
        /\ T = {} => s = "DRAFT"
        /\ \A i \in T :
             /\ (\A j \in T : i <= j) => t[i].from = "DRAFT"
             /\ (\A j \in T : j <= i) => t[i].to = s
             /\ \A j \in T : i < j /\ (\A k \in T : k <= i \/ j <= k) => t[i].to = t[j].from

TrailInv ==
    \A c \in ChangeRequests :
        IF status[c] = "NONE" THEN trail[c] = <<>> ELSE Replays(trail[c], status[c])

LEMMA NoteReplays ==
    ASSUME NEW t \in Seq([from : Statuses, to : ChangeRequestStatus]), NEW s, Replays(t, s)
    PROVE  Replays(Append(t, Entry("NONE", "DRAFT")), s)
  <1> DEFINE u == Append(t, Entry("NONE", "DRAFT"))
  <1>1. /\ DOMAIN t = 1..Len(t) /\ Len(t) \in Nat
        /\ DOMAIN u = 1..(Len(t) + 1)
        /\ \A i \in DOMAIN t : u[i] = t[i]
        /\ u[Len(t) + 1].from = "NONE"
    BY DEF Entry
  <1> HIDE DEF u
  <1>2. {i \in DOMAIN u : u[i].from # "NONE"} = {i \in DOMAIN t : t[i].from # "NONE"}
    BY <1>1
  <1>3. \A i \in {j \in DOMAIN t : t[j].from # "NONE"} : u[i] = t[i]
    BY <1>1
  <1>4. Replays(u, s)
    BY <1>2, <1>3 DEF Replays
  <1> QED
    BY <1>4 DEF u

\* The new entry is the last transition, and the one before it, if any, went
\* to the status the new one comes from.
LEMMA MoveReplays ==
    ASSUME NEW t \in Seq([from : Statuses, to : ChangeRequestStatus]), NEW s, NEW to,
           s # "NONE", Replays(t, s)
    PROVE  Replays(Append(t, Entry(s, to)), to)
  <1> DEFINE u == Append(t, Entry(s, to))
             n == Len(t) + 1
             T == {i \in DOMAIN t : t[i].from # "NONE"}
             U == {i \in DOMAIN u : u[i].from # "NONE"}
  <1>1. /\ DOMAIN t = 1..Len(t) /\ Len(t) \in Nat
        /\ DOMAIN u = 1..n /\ n \in Nat
        /\ \A i \in DOMAIN t : u[i] = t[i]
        /\ u[n].from = s /\ u[n].to = to
    BY DEF Entry
  <1> HIDE DEF u
  <1>2. /\ U = T \cup {n}
        /\ T \subseteq Nat
        /\ \A i \in T : i < n /\ i # n /\ u[i] = t[i]
    BY <1>1
  <1>3. /\ T = {} => s = "DRAFT"
        /\ \A i \in T :
             /\ (\A j \in T : i <= j) => t[i].from = "DRAFT"
             /\ (\A j \in T : j <= i) => t[i].to = s
             /\ \A j \in T : i < j /\ (\A k \in T : k <= i \/ j <= k) => t[i].to = t[j].from
    BY DEF Replays
  <1> HIDE DEF T, U, n
  <1>4. ASSUME NEW i \in U, \A j \in U : i <= j
        PROVE  u[i].from = "DRAFT"
    <2>1. CASE i = n
      <3>1. T = {}
        BY <1>1, <1>2, <1>4, <2>1
      <3> QED
        BY <1>1, <1>3, <2>1, <3>1
    <2>2. CASE i # n
      BY <1>2, <1>3, <1>4, <2>2
    <2> QED
      BY <2>1, <2>2
  <1>5. ASSUME NEW i \in U, \A j \in U : j <= i
        PROVE  u[i].to = to
    BY <1>1, <1>2, <1>5
  <1>6. ASSUME NEW i \in U, NEW j \in U, i < j, \A k \in U : k <= i \/ j <= k
        PROVE  u[i].to = u[j].from
    <2>1. i \in T
      BY <1>1, <1>2, <1>6
    <2>2. CASE j = n
      <3>1. \A k \in T : k <= i
        BY <1>1, <1>2, <1>6, <2>2
      <3> QED
        BY <1>1, <1>2, <1>3, <2>1, <2>2, <3>1
    <2>3. CASE j # n
      BY <1>2, <1>3, <1>6, <2>1, <2>3
    <2> QED
      BY <2>2, <2>3
  <1>7. U # {}
    BY <1>2
  <1>8. Replays(u, to)
    BY <1>4, <1>5, <1>6, <1>7 DEF Replays, U
  <1> QED
    BY <1>8 DEF u

LEMMA TrailPreserved ==
    ASSUME IInv, TrailInv, TrailCase
    PROVE  TrailInv'
  <1> DEFINE E == [from : Statuses, to : ChangeRequestStatus]
  <1>0. trail \in [ChangeRequests -> Seq(E)] /\ status \in [ChangeRequests -> Statuses]
    BY DEF IInv, TypeOK
  <1> SUFFICES ASSUME NEW c \in ChangeRequests
               PROVE  IF status'[c] = "NONE" THEN trail'[c] = <<>> ELSE Replays(trail'[c], status'[c])
    BY DEF TrailInv
  <1>1. IF status[c] = "NONE" THEN trail[c] = <<>> ELSE Replays(trail[c], status[c])
    BY DEF TrailInv
  <1>2. CASE trail'[c] = trail[c] /\ status'[c] = status[c]
    BY <1>1, <1>2
  <1>3. CASE Drafts(c)
    <2>1. status'[c] = "DRAFT" /\ trail'[c] = <<>>
      BY <1>0, <1>1, <1>3 DEF Drafts
    <2>2. DOMAIN <<>> = {}
      OBVIOUS
    <2>3. Replays(<<>>, "DRAFT")
      BY <2>2 DEF Replays
    <2> QED
      BY <2>1, <2>3
  <1>4. CASE NotesCreation(c)
    BY <1>0, <1>1, <1>4, NoteReplays DEF NotesCreation
  <1>5. ASSUME NEW to \in ChangeRequestStatus, Moves(c, to)
        PROVE  Replays(trail'[c], status'[c]) /\ status'[c] # "NONE"
    <2>1. status'[c] = to /\ trail'[c] = Append(trail[c], Entry(status[c], to)) /\ status[c] # "NONE"
      BY <1>0, <1>5 DEF Moves
    <2> QED
      BY <1>0, <1>1, <2>1, MoveReplays DEF ChangeRequestStatus
  <1>6. ASSUME NEW d \in ChangeRequests, d # c,
               Drafts(d) \/ NotesCreation(d) \/ \E to \in ChangeRequestStatus : Moves(d, to)
        PROVE  trail'[c] = trail[c] /\ status'[c] = status[c]
    BY <1>0, <1>6 DEF Drafts, NotesCreation, Moves
  <1> QED
    BY <1>2, <1>3, <1>4, <1>5, <1>6 DEF TrailCase

\* The trail, apart from its CREATED entry, is a gapless account of how a
\* request went from DRAFT to its present status: every status update writes
\* its entry in the same transaction, with the status it was guarded by.
THEOREM TrailCorrect == Spec => []TrailReplaysStatus
  <1>1. Init => TrailInv
    BY DEF Init, TrailInv
  <1>2. IInv /\ TrailInv /\ [Next]_vars => TrailInv'
    BY TrailCases, TrailPreserved
  <1>3. TrailInv => TrailReplaysStatus
    BY DEF TrailInv, TrailReplaysStatus, Transitions, Replays
  <1> QED
    BY <1>1, <1>2, <1>3, Invariance, PTL DEF Spec

-----------------------------------------------------------------------------
(* What a step does to a request in flight *)

Starts(q) ==
    /\ q \in RequestRecords
    /\ q.impact = summary[q.cr]
    /\ \/ q.at = "appendAudit" /\ q.to = "DRAFT"
       \/ /\ status[q.cr] # "NONE"
          /\ \/ q.at = "applyTransition" /\ q.to \in {"SUBMITTED", "CANCELLED"}
             \/ q.at \in {"analyse", "readDecision", "execute", "reportFailure"}
             \/ q.at = "complete" /\ dto[q.cr].type \notin STRUCTURAL_TYPES
             \/ q.at = "guard" /\ q.to = "COMPLETED" /\ dto[q.cr].type \in STRUCTURAL_TYPES

Logs(c, from, to) == trail' = [trail EXCEPT ![c] = Append(trail[c], Entry(from, to))]

GoesOn(r, q) ==
    /\ q \in RequestRecords
    /\ q.cr = r.cr /\ q.to = r.to
    /\ \/ /\ r.at = "analyse" /\ q.at = "applyTransition"
          /\ r.impact # "null" /\ UNCHANGED summary
       \/ /\ r.at = "analyse" /\ q.at = "writeSummary"
          /\ q.impact \in {"active", "idle"}
          /\ q.impact = "active" /\ dto[r.cr].type \in DESTRUCTIVE_TYPES => dto[r.cr].plan
       \/ r.at = "writeSummary" /\ q.at = "applyTransition" /\ summary'[r.cr] = r.impact
       \/ r.at = "execute" /\ q.at = "locked"
       \/ r.at = "guard" /\ q.at = "apply"
       \/ /\ q.at = "afterCommit"
          /\ \E from \in Statuses :
               \/ r.at = "appendAudit" /\ Logs(r.cr, from, "DRAFT") /\ "event" \notin q.effects
               \/ /\ r.at \in {"applyTransition", "submitDecision"}
                  /\ Logs(r.cr, from, r.to) /\ "event" \notin q.effects
               \/ r.at = "apply" /\ Logs(r.cr, from, "COMPLETED") /\ status'[r.cr] = "COMPLETED"

Checked(r, q) == q \in RequestRecords /\ r.at = "readDecision" /\ q.at = "submitDecision"

HandCase(g) ==
    \/ request'[g] \in {request[g], Idle}
    \/ request[g] = Idle /\ request'[g] # Idle /\ Starts(request'[g])
    \/ request[g] # Idle /\ request'[g] # Idle /\ GoesOn(request[g], request'[g])
    \/ request[g] # Idle /\ request'[g] # Idle /\ Checked(request[g], request'[g])

LEMMA ArrivingHand ==
    ASSUME IInv, NEW h \in Handlers, NEW c \in ChangeRequests, Arrive(h, c)
    PROVE  request[h] = Idle /\ request'[h] # Idle /\ Starts(request'[h])
           /\ \A g \in Handlers \ {h} : request'[g] = request[g]
  <1>0. request \in [Handlers -> {Idle} \cup RequestRecords] /\ TypeOK
    BY DEF IInv, TypeOK
  <1>1. ASSUME NEW step \in Steps, NEW to \in ChangeRequestStatus
        PROVE  /\ Request(step, c, to) \in RequestRecords
               /\ Request(step, c, to) # Idle
               /\ Request(step, c, to).cr = c /\ Request(step, c, to).at = step
               /\ Request(step, c, to).to = to /\ Request(step, c, to).impact = summary[c]
    BY <1>0, RequestType DEF Request
  <1>2. ASSUME NEW step \in {"applyTransition", "analyse", "execute", "complete", "reportFailure", "guard"},
               NEW to \in ChangeRequestStatus, ReadForTransition(h, c, to, step),
               step = "applyTransition" => to \in {"SUBMITTED", "CANCELLED"},
               step = "complete" => dto[c].type \notin STRUCTURAL_TYPES,
               step = "guard" => dto[c].type \in STRUCTURAL_TYPES /\ to = "COMPLETED"
        PROVE  request[h] = Idle /\ request'[h] # Idle /\ Starts(request'[h])
               /\ \A g \in Handlers \ {h} : request'[g] = request[g]
    <2>1. /\ request[h] = Idle /\ status[c] # "NONE"
          /\ request'[h] = Request(step, c, to)
          /\ \A g \in Handlers \ {h} : request'[g] = request[g]
      BY <1>0, <1>2 DEF ReadForTransition, AssertValidTransition, VALID_TRANSITIONS
    <2>2. step \in Steps
      BY DEF Steps
    <2> QED
      BY <1>1, <1>2, <2>1, <2>2 DEF Starts
  <1>3. CASE \E d \in Dtos : Create(h, c, d)
    <2>1. /\ request[h] = Idle
          /\ request'[h] = Request("appendAudit", c, "DRAFT")
          /\ \A g \in Handlers \ {h} : request'[g] = request[g]
      BY <1>0, <1>3 DEF Create
    <2> QED
      BY <1>1, <2>1 DEF Starts, Steps, ChangeRequestStatus
  <1>4. CASE Submit(h, c) \/ Cancel(h, c) \/ RequestApproval(h, c) \/ Execute(h, c)
    BY <1>2, <1>4 DEF Submit, Cancel, RequestApproval, Execute, ChangeRequestStatus
  <1>5. CASE Complete(h, c) \/ ReportFailure(h, c) \/ ApplyStructuralOperation(h, c)
    BY <1>2, <1>5 DEF Complete, ReportFailure, ApplyStructuralOperation, ChangeRequestStatus
  <1>6. CASE \E user \in Deciders, outcome \in Outcomes : SubmitDecision(h, c, user, outcome)
    <2>1. PICK user \in Deciders, outcome \in Outcomes : SubmitDecision(h, c, user, outcome)
      BY <1>6
    <2> DEFINE r == Request("readDecision", c, "PENDING_APPROVAL")
               q == [r EXCEPT !.role = ApprovalRole(user, c), !.outcome = outcome]
    <2>2. ApprovalRole(user, c) \in Roles \cup {"none"}
      BY DecidersAssumption DEF ApprovalRole, ResolveAdminApprovalRole, Roles,
                                changeRequestDecisionRoles
    <2>3. r \in RequestRecords /\ r.cr = c /\ r.at = "readDecision" /\ r.impact = summary[c]
      BY <1>1 DEF Steps, ChangeRequestStatus
    <2> HIDE DEF r
    <2>4. q \in RequestRecords /\ q.cr = c /\ q.at = "readDecision" /\ q.impact = summary[c]
      BY <2>2, <2>3 DEF RequestRecords
    <2>5. request[h] = Idle /\ request' = [request EXCEPT ![h] = q] /\ status[c] # "NONE"
      BY <2>1 DEF SubmitDecision, r
    <2>6. q # Idle
      BY <2>4 DEF RequestRecords, Idle
    <2> HIDE DEF q
    <2> QED
      BY <1>0, <2>4, <2>5, <2>6 DEF Starts
  <1> QED
    BY <1>3, <1>4, <1>5, <1>6 DEF Arrive

LEMMA LogsOne ==
    ASSUME NEW c, NEW from, NEW to, SetStatus(c, from, to)
    PROVE  Logs(c, from, to)
  BY DEF SetStatus, Logs

LEMMA CommittingHand ==
    ASSUME IInv, NEW h \in Handlers, request[h] # Idle,
           NEW launched \in SUBSET {"audit", "notification", "event"}, Committed(h, launched),
           \E from \in Statuses :
               \/ /\ request[h].at = "appendAudit" /\ Logs(request[h].cr, from, "DRAFT")
                  /\ "event" \notin launched
               \/ /\ request[h].at \in {"applyTransition", "submitDecision"}
                  /\ Logs(request[h].cr, from, request[h].to) /\ "event" \notin launched
               \/ /\ request[h].at = "apply" /\ Logs(request[h].cr, from, "COMPLETED")
                  /\ status'[request[h].cr] = "COMPLETED"
    PROVE  \A g \in Handlers : HandCase(g)
  <1> DEFINE r == request[h]
             q == [r EXCEPT !.at = "afterCommit", !.effects = launched]
  <1>1. r \in RequestRecords
    BY RequestInHand
  <1>2. /\ q \in RequestRecords /\ q # Idle /\ q.at = "afterCommit" /\ q.effects = launched
        /\ q.cr = r.cr /\ q.to = r.to
    BY <1>1 DEF RequestRecords, Steps, Idle
  <1>3. request' = [request EXCEPT ![h] = IF launched = {} THEN Idle ELSE q]
    BY DEF Committed
  <1> HIDE DEF q
  <1>4. /\ request'[h] = Idle \/ request'[h] = q
        /\ \A g \in Handlers \ {h} : request'[g] = request[g]
    BY <1>3 DEF IInv, TypeOK
  <1>5. GoesOn(r, q)
    BY <1>2 DEF GoesOn
  <1> QED
    BY <1>2, <1>4, <1>5 DEF HandCase

LEMMA ContinuingHand ==
    ASSUME IInv, NEW h \in Handlers, Continue(h)
    PROVE  \A g \in Handlers : HandCase(g)
  <1> DEFINE r == request[h]
  <1>0. request[h] # Idle
    BY DEF Continue, AppendAudit, ApplyTransition, AnalyseImpact, WriteSummary, CheckDecision,
           RecordDecision, AcquireLocks, LockConflict, CommitComplete, CommitFailure,
           GuardAndRead, CommitOperation, AfterCommit, AuditWriteFails, Abort, At
  <1>r. /\ r \in RequestRecords /\ r.cr \in ChangeRequests /\ RequestOK(r)
        /\ r.at \in Steps /\ r.to \in ChangeRequestStatus
        /\ request \in [Handlers -> {Idle} \cup RequestRecords]
    BY <1>0, RequestInHand DEF IInv, TypeOK, RequestRecords
  <1>g. ASSUME NEW q, q # Idle, request' = [request EXCEPT ![h] = q], GoesOn(r, q) \/ Checked(r, q)
        PROVE  \A g \in Handlers : HandCase(g)
    BY <1>0, <1>r, <1>g DEF HandCase
  <1>i. "idle" \notin Steps /\ Idle.at = "idle"
    BY DEF Steps, Idle
  <1>1. CASE AppendAudit(h)
    <2>1. Logs(r.cr, "NONE", "DRAFT") /\ r.at = "appendAudit" /\ Committed(h, {"audit"})
      BY <1>1 DEF AppendAudit, Logs, At
    <2> QED
      BY <1>0, <2>1, CommittingHand DEF Statuses
  <1>2. CASE ApplyTransition(h) \/ RecordDecision(h)
    <2>1. Committed(h, EffectsOf(r.to)) \/ Committed(h, {})
      BY <1>2 DEF ApplyTransition, RecordDecision
    <2>2. EffectsOf(r.to) \in SUBSET {"audit", "notification", "event"} /\ "event" \notin EffectsOf(r.to)
      BY DEF EffectsOf
    <2>3. r.at \in {"applyTransition", "submitDecision"}
      BY <1>2 DEF ApplyTransition, RecordDecision, At
    <2>4. \E from \in Statuses : Logs(r.cr, from, r.to)
      <3>1. CASE ApplyTransition(h)
        BY <1>r, <3>1, LogsOne DEF ApplyTransition, RequestRecords
      <3>2. CASE RecordDecision(h)
        <4>1. SetStatus(r.cr, "PENDING_APPROVAL", r.to) \/ Logs(r.cr, r.to, r.to)
          BY <3>2 DEF RecordDecision, Logs
        <4> QED
          BY <1>r, <4>1, LogsOne, StatusNames
      <3> QED
        BY <1>2, <3>1, <3>2
    <2> QED
      BY <1>0, <2>1, <2>2, <2>3, <2>4, CommittingHand
  <1>3. CASE AnalyseImpact(h)
    <2>1. CASE r.impact # "null"
      <3> DEFINE q == [r EXCEPT !.at = "applyTransition"]
      <3>1. q \in RequestRecords /\ q.at = "applyTransition" /\ q.cr = r.cr /\ q.to = r.to /\ q # Idle
        BY <1>r, <1>i DEF RequestRecords, Steps
      <3>2. request' = [request EXCEPT ![h] = q] /\ r.at = "analyse" /\ UNCHANGED summary
        BY <1>3, <2>1 DEF AnalyseImpact, At, rows
      <3> HIDE DEF q
      <3> QED
        BY <1>g, <2>1, <3>1, <3>2 DEF GoesOn
    <2>2. CASE r.impact = "null"
      <3> DEFINE q == [r EXCEPT !.at = "writeSummary",
                                !.impact = IF ActiveMappings(r.cr) THEN "active" ELSE "idle"]
      <3>1. /\ q \in RequestRecords /\ q.at = "writeSummary" /\ q.cr = r.cr /\ q.to = r.to /\ q # Idle
            /\ q.impact = IF ActiveMappings(r.cr) THEN "active" ELSE "idle"
        BY <1>r, <1>i DEF RequestRecords, Steps
      <3>2. request' = [request EXCEPT ![h] = q] /\ r.at = "analyse" /\ DownstreamPlanGate(r.cr)
        BY <1>3, <2>2 DEF AnalyseImpact, At
      <3> HIDE DEF q
      <3> QED
        BY <1>g, <3>1, <3>2 DEF GoesOn, DownstreamPlanGate
    <2> QED
      BY <2>1, <2>2
  <1>4. CASE WriteSummary(h)
    <2> DEFINE q == [r EXCEPT !.at = "applyTransition"]
    <2>1. q \in RequestRecords /\ q.at = "applyTransition" /\ q.cr = r.cr /\ q.to = r.to /\ q # Idle
      BY <1>r, <1>i DEF RequestRecords, Steps
    <2>2. request' = [request EXCEPT ![h] = q] /\ r.at = "writeSummary" /\ summary'[r.cr] = r.impact
      BY <1>4, <1>r DEF WriteSummary, At, IInv, TypeOK
    <2> HIDE DEF q
    <2> QED
      BY <1>g, <2>1, <2>2 DEF GoesOn
  <1>5. CASE CheckDecision(h)
    <2> DEFINE q == [r EXCEPT !.at = "submitDecision", !.from = "PENDING_APPROVAL",
                              !.to = NewStatus(r.role, r.outcome)]
    <2>1. NewStatus(r.role, r.outcome) \in ChangeRequestStatus /\ "PENDING_APPROVAL" \in Statuses
      BY StatusNames DEF NewStatus
    <2>2. q \in RequestRecords /\ q.at = "submitDecision" /\ q # Idle
      BY <1>r, <1>i, <2>1 DEF RequestRecords, Steps
    <2>3. request' = [request EXCEPT ![h] = q] /\ r.at = "readDecision"
      BY <1>5 DEF CheckDecision, At
    <2> HIDE DEF q
    <2> QED
      BY <1>g, <2>2, <2>3 DEF Checked
  <1>6. CASE AcquireLocks(h) \/ CommitComplete(h) \/ CommitFailure(h)
    <2>1. request' = [request EXCEPT ![h] = Idle]
      BY <1>6 DEF AcquireLocks, CommitComplete, CommitFailure, Committed
    <2> QED
      BY <1>r, <2>1 DEF HandCase
  <1>7. CASE LockConflict(h)
    <2> DEFINE q == [r EXCEPT !.at = "locked"]
    <2>1. q \in RequestRecords /\ q.at = "locked" /\ q.cr = r.cr /\ q.to = r.to /\ q # Idle
      BY <1>r, <1>i DEF RequestRecords, Steps
    <2>2. request' = [request EXCEPT ![h] = q] /\ r.at = "execute"
      BY <1>7 DEF LockConflict, At
    <2> HIDE DEF q
    <2> QED
      BY <1>g, <2>1, <2>2 DEF GoesOn
  <1>8. CASE GuardAndRead(h)
    <2> DEFINE q == [r EXCEPT !.at = "apply", !.seen = revision]
    <2>1. q \in RequestRecords /\ q.at = "apply" /\ q.cr = r.cr /\ q.to = r.to /\ q # Idle
      BY <1>r, <1>i DEF RequestRecords, Steps, IInv, TypeOK
    <2>2. request' = [request EXCEPT ![h] = q] /\ r.at = "guard"
      BY <1>8 DEF GuardAndRead, At
    <2> HIDE DEF q
    <2> QED
      BY <1>g, <2>1, <2>2 DEF GoesOn
  <1>9. CASE CommitOperation(h)
    <2>1. /\ SetStatus(r.cr, "EXECUTING", "COMPLETED") /\ Committed(h, {"event"})
          /\ r.at = "apply"
      BY <1>9 DEF CommitOperation, At
    <2>2. Logs(r.cr, "EXECUTING", "COMPLETED") /\ status'[r.cr] = "COMPLETED"
      BY <1>r, <2>1, LogsOne DEF SetStatus, IInv, TypeOK
    <2> QED
      BY <1>0, <2>1, <2>2, CommittingHand, StatusNames
  <1>10. CASE AfterCommit(h) \/ AuditWriteFails(h) \/ Abort(h)
    BY <1>10, <1>r DEF AfterCommit, AuditWriteFails, Abort, HandCase
  <1> QED
    BY <1>1, <1>2, <1>3, <1>4, <1>5, <1>6, <1>7, <1>8, <1>9, <1>10 DEF Continue

LEMMA HandCases ==
    ASSUME IInv, [Next]_vars, NEW g \in Handlers
    PROVE  HandCase(g)
  <1>1. ASSUME NEW h \in Handlers, NEW c \in ChangeRequests, Arrive(h, c)
        PROVE  HandCase(g)
    BY <1>1, ArrivingHand DEF HandCase
  <1>2. CASE \E h \in Handlers : Continue(h)
    BY <1>2, ContinuingHand
  <1>3. CASE \E a \in MappedCapabilities : ChangeMappings(a)
    BY <1>3 DEF ChangeMappings, HandCase
  <1>4. CASE UNCHANGED vars
    BY <1>4 DEF vars, HandCase
  <1> QED
    BY <1>1, <1>2, <1>3, <1>4 DEF Next

-----------------------------------------------------------------------------
(* What is reported has been committed *)

Recorded(c, to) == \E i \in DOMAIN trail[c] : trail[c][i].to = to

ReportOK(r) ==
    /\ r.at = "appendAudit" => r.to = "DRAFT"
    /\ r.at \in {"guard", "apply"} => r.to = "COMPLETED"
    /\ r.at = "afterCommit" =>
         /\ Recorded(r.cr, r.to)
         /\ "event" \in r.effects => status[r.cr] = "COMPLETED"

EffectsInv ==
    /\ EffectsReflectCommits
    /\ \A h \in Handlers : request[h] # Idle => ReportOK(request[h])

LEMMA LogsRecord ==
    ASSUME IInv, NEW c \in ChangeRequests, NEW from \in Statuses, NEW to \in ChangeRequestStatus,
           Logs(c, from, to)
    PROVE  Recorded(c, to)'
  <1> DEFINE E == [from : Statuses, to : ChangeRequestStatus]
             n == Len(trail[c]) + 1
  <1>1. Entry(from, to) \in E /\ Entry(from, to).to = to
    BY DEF Entry
  <1>2. trail \in [ChangeRequests -> Seq(E)]
    BY DEF IInv, TypeOK
  <1>3. trail'[c] = Append(trail[c], Entry(from, to))
    BY <1>2 DEF Logs
  <1> HIDE DEF E
  <1>4. n \in DOMAIN trail'[c] /\ trail'[c][n] = Entry(from, to)
    BY <1>1, <1>2, <1>3
  <1> QED
    BY <1>1, <1>4 DEF Recorded

\* A record of a commit and the completion of a request are both final.
LEMMA ReportStays ==
    ASSUME IInv, TrailCase, NEW r \in RequestRecords, ReportOK(r)
    PROVE  ReportOK(r)'
  <1>1. r.cr \in ChangeRequests
    BY DEF RequestRecords
  <1>2. Recorded(r.cr, r.to) => Recorded(r.cr, r.to)'
    BY <1>1, RecordsStay DEF Recorded
  <1>3. status[r.cr] = "COMPLETED" => status'[r.cr] = "COMPLETED"
    BY <1>1, RecordsStay DEF TERMINAL_STATUSES
  <1> QED
    BY <1>2, <1>3 DEF ReportOK

LEMMA EffectsPreserved ==
    ASSUME IInv, EffectsInv, [Next]_vars
    PROVE  EffectsInv'
  <1>0. TrailCase
    BY TrailCases
  <1>1. ASSUME NEW g \in Handlers, request'[g] # Idle
        PROVE  ReportOK(request[g])'
    <2>0. HandCase(g)
      BY HandCases
    <2>1. CASE request'[g] = request[g]
      <3>1. PICK r \in RequestRecords : r = request[g]
        BY <1>1, <2>1, RequestInHand
      <3>2. ReportOK(r)'
        BY <1>0, <1>1, <2>1, <3>1, ReportStays DEF EffectsInv
      <3> QED
        BY <2>1, <3>1, <3>2 DEF ReportOK, Recorded
    <2>2. CASE request[g] = Idle /\ Starts(request'[g])
      BY <2>2 DEF Starts, ReportOK
    <2>3. CASE request[g] # Idle /\ GoesOn(request[g], request'[g])
      <3>1. request[g].cr \in ChangeRequests /\ ReportOK(request[g]) /\ request[g].to \in ChangeRequestStatus
        BY <2>3, RequestInHand DEF EffectsInv
      <3>2. request'[g].cr = request[g].cr /\ request'[g].to = request[g].to
        BY <2>3 DEF GoesOn
      <3>3. CASE request'[g].at # "afterCommit"
        BY <2>3, <3>1, <3>2, <3>3 DEF GoesOn, ReportOK
      <3>4. CASE request'[g].at = "afterCommit"
        <4>1. PICK from \in Statuses :
                \/ Logs(request[g].cr, from, request[g].to) /\ "event" \notin request'[g].effects
                \/ Logs(request[g].cr, from, request[g].to) /\ status'[request[g].cr] = "COMPLETED"
          BY <2>3, <3>1, <3>4 DEF GoesOn, ReportOK
        <4>2. PICK c \in ChangeRequests, to \in ChangeRequestStatus : c = request[g].cr /\ to = request[g].to
          BY <3>1
        <4>3. Recorded(c, to)'
          BY <4>1, <4>2, LogsRecord
        <4>4. "event" \in request'[g].effects => status'[request[g].cr] = "COMPLETED"
          BY <4>1
        <4> QED
          BY <3>2, <3>4, <4>2, <4>3, <4>4 DEF ReportOK, Recorded
      <3> QED
        BY <3>3, <3>4
    <2>4. CASE Checked(request[g], request'[g])
      BY <2>4 DEF Checked, ReportOK
    <2> QED
      BY <1>1, <2>0, <2>1, <2>2, <2>3, <2>4 DEF HandCase
  <1>2. ASSUME NEW e \in effects'
        PROVE  Recorded(e.cr, e.status)' /\ (e.kind = "event" => status'[e.cr] = "COMPLETED")
    <2>1. CASE e \in effects
      <3>1. e.cr \in ChangeRequests
        BY <2>1 DEF IInv, TypeOK
      <3>2. Recorded(e.cr, e.status) /\ (e.kind = "event" => status[e.cr] = "COMPLETED")
        BY <2>1 DEF EffectsInv, EffectsReflectCommits, Recorded
      <3>3. PICK c \in ChangeRequests, s \in {e.status} : c = e.cr /\ s = e.status
        BY <3>1
      <3>4. Recorded(c, s)'
        BY <1>0, <3>2, <3>3, RecordsStay DEF Recorded
      <3> QED
        BY <1>0, <3>1, <3>2, <3>3, <3>4, RecordsStay DEF TERMINAL_STATUSES, Recorded
    <2>2. CASE e \notin effects
      <3>1. PICK h \in Handlers : AfterCommit(h)
        <4>1. effects' # effects
          BY <2>2
        <4>2. \A h \in Handlers, c \in ChangeRequests : ~Arrive(h, c)
          BY <4>1 DEF Arrive, Create, Submit, Cancel, RequestApproval, Execute, Complete, ReportFailure,
                      ApplyStructuralOperation, SubmitDecision, ReadForTransition
        <4>3. \A h \in Handlers : Continue(h) => AfterCommit(h)
          BY <4>1 DEF Continue, AppendAudit, ApplyTransition, AnalyseImpact, WriteSummary, CheckDecision,
                      RecordDecision, AcquireLocks, LockConflict, CommitComplete, CommitFailure,
                      GuardAndRead, CommitOperation, AuditWriteFails, Abort
        <4>4. \A a \in MappedCapabilities : ~ChangeMappings(a)
          BY <4>1 DEF ChangeMappings
        <4> QED
          BY <4>1, <4>2, <4>3, <4>4 DEF Next, vars
      <3>2. /\ request[h] # Idle /\ request[h].at = "afterCommit"
            /\ UNCHANGED <<status, trail>>
            /\ \E k \in request[h].effects : e = [kind |-> k, cr |-> request[h].cr, status |-> request[h].to]
        BY <2>2, <3>1 DEF AfterCommit, At, rows
      <3>3. ReportOK(request[h])
        BY <3>1, <3>2 DEF EffectsInv
      <3> QED
        BY <3>2, <3>3 DEF ReportOK, Recorded
    <2> QED
      BY <2>1, <2>2
  <1>3. EffectsReflectCommits'
    BY <1>2 DEF EffectsReflectCommits, Recorded
  <1> QED
    BY <1>1, <1>3 DEF EffectsInv

\* Audit entries, notifications and domain events only tell of what has been
\* committed, and an event only of a completed request: the calls come after
\* the commit, and neither a trail nor a completion is ever undone.
THEOREM EffectsCorrect == Spec => []EffectsReflectCommits
  <1>1. Init => EffectsInv
    BY DEF Init, EffectsInv, EffectsReflectCommits
  <1>2. IInv /\ EffectsInv /\ [Next]_vars => EffectsInv'
    BY EffectsPreserved
  <1>3. EffectsInv => EffectsReflectCommits
    BY DEF EffectsInv
  <1> QED
    BY <1>1, <1>2, <1>3, Invariance, PTL DEF Spec

-----------------------------------------------------------------------------
(* What the approvers read *)

\* A RETIRE or MERGE without a plan for the downstream systems.
Unplanned(c) == dto[c].type \in DESTRUCTIVE_TYPES /\ ~dto[c].plan

Early == {"NONE", "DRAFT", "SUBMITTED", "CANCELLED"}

\* A request that passed the gate holds a text the gate allows; one that is
\* about to ask for approval has a text in the table, its own or an earlier one.
BriefOK(r) ==
    /\ r.at = "writeSummary" => r.impact \in {"active", "idle"}
                               /\ (Unplanned(r.cr) => r.impact # "active")
    /\ r.at = "analyse" /\ r.impact # "null" => summary[r.cr] # "null"
    /\ r.at = "applyTransition" /\ r.to = "PENDING_APPROVAL" => summary[r.cr] # "null"

BriefInv ==
    /\ \A c \in ChangeRequests : status[c] # "NONE" /\ Unplanned(c) => summary[c] # "active"
    /\ \A c \in ChangeRequests : status[c] \notin Early => summary[c] # "null"
    /\ \A h \in Handlers : request[h] # Idle => BriefOK(request[h])

\* The columns that create writes are written once.
LEMMA DtoStays ==
    ASSUME IInv, [Next]_vars, NEW c \in ChangeRequests, status[c] # "NONE"
    PROVE  dto'[c] = dto[c]
  BY StepCases DEF StepCase, Silent, Drafted, Advanced, Started, Finished, Decided, IInv, TypeOK

\* A change request appears only by create.
LEMMA AppearsByCreate ==
    ASSUME IInv, [Next]_vars, NEW c \in ChangeRequests, status[c] = "NONE", status'[c] # "NONE"
    PROVE  \E h \in Handlers, d \in Dtos : Create(h, c, d)
  <1>1. ~UNCHANGED status
    OBVIOUS
  <1>2. ASSUME NEW h \in Handlers, NEW d \in ChangeRequests, Arrive(h, d)
        PROVE  \E b \in Dtos : Create(h, c, b)
    <2>1. PICK b \in Dtos : Create(h, d, b)
      BY <1>1, <1>2 DEF Arrive, Submit, Cancel, RequestApproval, Execute, Complete, ReportFailure,
                        ApplyStructuralOperation, SubmitDecision, ReadForTransition, rows
    <2>2. d = c
      BY <2>1 DEF Create, IInv, TypeOK
    <2> QED
      BY <2>1, <2>2
  <1>3. ASSUME NEW h \in Handlers, Continue(h)
        PROVE  UNCHANGED dto
    BY <1>3 DEF Continue, AppendAudit, ApplyTransition, AnalyseImpact, WriteSummary, CheckDecision,
           RecordDecision, AcquireLocks, LockConflict, CommitComplete, CommitFailure,
           GuardAndRead, CommitOperation, AfterCommit, AuditWriteFails, Abort, rows
  <1>4. ~UNCHANGED dto
    <2>1. TypeOK'
      BY TypePreserved
    <2>2. dto[c] = NoDto /\ dto'[c] # NoDto
      BY <2>1 DEF IInv, TypeOK
    <2> QED
      BY <2>2
  <1> QED
    BY <1>1, <1>2, <1>3, <1>4 DEF Next, ChangeMappings, vars

\* Once there is a summary there always is one.
LEMMA SummaryStays ==
    ASSUME IInv, BriefInv, [Next]_vars, NEW c \in ChangeRequests, status[c] # "NONE"
    PROVE  \/ summary'[c] = summary[c]
           \/ /\ summary'[c] \in {"active", "idle"}
              /\ Unplanned(c) => summary'[c] # "active"
  <1>1. ASSUME NEW h \in Handlers, WriteSummary(h)
        PROVE  \/ summary'[c] = summary[c]
               \/ /\ summary'[c] \in {"active", "idle"}
                  /\ Unplanned(c) => summary'[c] # "active"
    <2>1. request[h] # Idle /\ request[h].at = "writeSummary" /\ BriefOK(request[h])
      BY <1>1 DEF WriteSummary, At, BriefInv
    <2> QED
      BY <1>1, <2>1 DEF WriteSummary, BriefOK, IInv, TypeOK
  <1>2. CASE ~ \E h \in Handlers : WriteSummary(h)
    <2>1. ASSUME NEW h \in Handlers, NEW d \in ChangeRequests, Arrive(h, d)
          PROVE  summary'[c] = summary[c]
      BY <2>1 DEF Arrive, Create, Submit, Cancel, RequestApproval, Execute, Complete, ReportFailure,
                  ApplyStructuralOperation, SubmitDecision, ReadForTransition, rows, IInv, TypeOK
    <2>2. ASSUME NEW h \in Handlers, Continue(h)
          PROVE  summary'[c] = summary[c]
      BY <1>2, <2>2 DEF Continue, AppendAudit, ApplyTransition, AnalyseImpact, CheckDecision,
                  RecordDecision, AcquireLocks, LockConflict, CommitComplete, CommitFailure,
                  GuardAndRead, CommitOperation, AfterCommit, AuditWriteFails, Abort, rows
    <2> QED
      BY <2>1, <2>2 DEF Next, ChangeMappings, vars
  <1> QED
    BY <1>1, <1>2

\* A request passes into approval only by ApplyTransition.
LEMMA PassesByTransition ==
    ASSUME IInv, [Next]_vars, NEW c \in ChangeRequests,
           status'[c] \notin Early, status[c] \in Early
    PROVE  \E h \in Handlers :
              /\ request[h] # Idle /\ request[h].cr = c
              /\ request[h].at = "applyTransition" /\ request[h].to = "PENDING_APPROVAL"
  <1>1. ASSUME NEW h \in Handlers, NEW d \in ChangeRequests, Arrive(h, d)
        PROVE  FALSE
    <2>1. CASE \E b \in Dtos : Create(h, d, b)
      BY <2>1 DEF Create, Early, IInv, TypeOK
    <2>2. CASE ~ \E b \in Dtos : Create(h, d, b)
      BY <1>1, <2>2 DEF Arrive, Submit, Cancel, RequestApproval, Execute, Complete, ReportFailure,
                        ApplyStructuralOperation, SubmitDecision, ReadForTransition, rows
    <2> QED
      BY <2>1, <2>2
  <1>2. ASSUME NEW h \in Handlers, Continue(h)
        PROVE  ApplyTransition(h) /\ request[h].cr = c /\ request[h].to = "PENDING_APPROVAL"
    <2>1. CASE ApplyTransition(h)
      BY <2>1, RequestInHand DEF ApplyTransition, At, SetStatus, RequestOK, Early, IInv, TypeOK
    <2>2. CASE RecordDecision(h)
      <3>1. /\ request[h].cr \in ChangeRequests /\ Past(request[h].cr)
        BY <2>2, RequestInHand DEF RecordDecision, At, RequestOK
      <3>2. \A d \in ChangeRequests \ {request[h].cr} : status'[d] = status[d]
        BY <2>2 DEF RecordDecision, SetStatus, IInv, TypeOK
      <3> QED
        BY <3>1, <3>2 DEF Past, Early
    <2>3. CASE AcquireLocks(h) \/ CommitComplete(h) \/ CommitFailure(h) \/ CommitOperation(h)
      <3>1. /\ \A d \in ChangeRequests \ {request[h].cr} : status'[d] = status[d]
            /\ status[request[h].cr] \notin Early
        BY <2>3 DEF AcquireLocks, CommitComplete, CommitFailure, CommitOperation, SetStatus, Early,
                    IInv, TypeOK
      <3> QED
        BY <3>1
    <2>4. CASE UNCHANGED status
      BY <2>4
    <2> QED
      BY <1>2, <2>1, <2>2, <2>3, <2>4
         DEF Continue, AppendAudit, AnalyseImpact, WriteSummary, CheckDecision, LockConflict,
             GuardAndRead, AfterCommit, AuditWriteFails, Abort, rows
  <1> QED
    BY <1>1, <1>2 DEF Next, ChangeMappings, vars, ApplyTransition, At

LEMMA BriefStays ==
    ASSUME IInv, BriefInv, [Next]_vars, NEW r \in RequestRecords, status[r.cr] # "NONE", BriefOK(r)
    PROVE  BriefOK(r)'
  <1>1. r.cr \in ChangeRequests
    BY DEF RequestRecords
  <1>2. dto'[r.cr] = dto[r.cr]
    BY <1>1, DtoStays
  <1>3. summary[r.cr] # "null" => summary'[r.cr] # "null"
    BY <1>1, SummaryStays
  <1> QED
    BY <1>2, <1>3 DEF BriefOK, Unplanned

LEMMA BriefPreserved ==
    ASSUME IInv, BriefInv, [Next]_vars
    PROVE  BriefInv'
  <1>1. ASSUME NEW c \in ChangeRequests, status'[c] # "NONE", Unplanned(c)'
        PROVE  summary'[c] # "active"
    <2>1. CASE status[c] = "NONE"
      <3>1. PICK h \in Handlers, d \in Dtos : Create(h, c, d)
        BY <1>1, <2>1, AppearsByCreate
      <3>2. d.summary \in {"null", "manual"}
        BY DtosAssumption
      <3> QED
        BY <3>1, <3>2 DEF Create, IInv, TypeOK
    <2>2. CASE status[c] # "NONE"
      <3>1. Unplanned(c) <=> Unplanned(c)'
        BY <2>2, DtoStays DEF Unplanned
      <3> QED
        BY <1>1, <2>2, <3>1, SummaryStays DEF BriefInv
    <2> QED
      BY <2>1, <2>2
  <1>2. ASSUME NEW c \in ChangeRequests, status'[c] \notin Early
        PROVE  summary'[c] # "null"
    <2>1. summary[c] # "null" /\ status[c] # "NONE"
      <3>1. CASE status[c] \in Early
        <4>1. PICK h \in Handlers : /\ request[h] # Idle /\ request[h].cr = c
                                    /\ request[h].at = "applyTransition"
                                    /\ request[h].to = "PENDING_APPROVAL"
          BY <1>2, <3>1, PassesByTransition
        <4> QED
          BY <4>1, RequestInHand DEF BriefInv, BriefOK
      <3>2. CASE status[c] \notin Early
        BY <3>2 DEF BriefInv, Early
      <3> QED
        BY <3>1, <3>2
    <2> QED
      BY <2>1, SummaryStays
  <1>3. ASSUME NEW g \in Handlers, request'[g] # Idle
        PROVE  BriefOK(request[g])'
    <2>0. HandCase(g)
      BY HandCases
    <2>1. CASE request'[g] = request[g]
      <3>1. PICK r \in RequestRecords : r = request[g] /\ status[r.cr] # "NONE"
        BY <1>3, <2>1, RequestInHand
      <3>2. BriefOK(r)'
        BY <1>3, <2>1, <3>1, BriefStays DEF BriefInv
      <3> QED
        BY <2>1, <3>1, <3>2 DEF BriefOK, Unplanned
    <2>2. CASE request[g] = Idle /\ Starts(request'[g])
      <3>1. PICK c \in ChangeRequests : c = request'[g].cr
        BY <2>2 DEF Starts, RequestRecords
      <3>2. CASE request'[g].at = "analyse" /\ summary[c] # "null"
        <4>1. status[c] # "NONE"
          BY <2>2, <3>1, <3>2 DEF Starts
        <4>2. summary'[c] # "null"
          BY <3>2, <4>1, SummaryStays
        <4> QED
          BY <3>1, <3>2, <4>2 DEF BriefOK
      <3>3. CASE ~(request'[g].at = "analyse" /\ summary[c] # "null")
        BY <2>2, <3>1, <3>3 DEF Starts, BriefOK
      <3> QED
        BY <3>2, <3>3
    <2>3. CASE request[g] # Idle /\ GoesOn(request[g], request'[g])
      <3>1. PICK c \in ChangeRequests : c = request[g].cr /\ c = request'[g].cr
        BY <2>3, RequestInHand DEF GoesOn
      <3>2. BriefOK(request[g]) /\ status[c] # "NONE" /\ request[g].cr = c
        BY <2>3, <3>1, RequestInHand DEF BriefInv
      <3>3. dto'[c] = dto[c]
        BY <3>2, DtoStays
      <3> QED
        BY <2>3, <3>1, <3>2, <3>3 DEF GoesOn, BriefOK, Unplanned
    <2>4. CASE Checked(request[g], request'[g])
      BY <2>4 DEF Checked, BriefOK
    <2> QED
      BY <1>3, <2>0, <2>1, <2>2, <2>3, <2>4 DEF HandCase
  <1> QED
    BY <1>1, <1>2, <1>3 DEF BriefInv

\* Whoever approves has an impact summary to read, and for a RETIRE or MERGE
\* without a downstream plan never one that reports active mappings: a text
\* gets into the table only from a request that passed the gate with it.
THEOREM BriefingCorrect == Spec => []ApproversBriefed
  <1>1. Init => BriefInv
    BY DEF Init, BriefInv, Early
  <1>2. IInv /\ BriefInv /\ [Next]_vars => BriefInv'
    BY BriefPreserved
  <1>3. BriefInv => ApproversBriefed
    BY DEF BriefInv, ApproversBriefed, Unplanned, Early
  <1> QED
    BY <1>1, <1>2, <1>3, Invariance, PTL DEF Spec

-----------------------------------------------------------------------------
(* Structural operations *)

Structural(c) == dto[c].type \in STRUCTURAL_TYPES

Applied(a) == {c \in ChangeRequests : status[c] = "COMPLETED" /\ Structural(c) /\ a \in Affected(c)}

\* complete is for requests without an operation, apply for those with one.
OperationOK(r) ==
    /\ r.at = "complete" => ~Structural(r.cr)
    /\ r.at \in {"guard", "apply"} => Structural(r.cr)

\* Only finitely many requests have been created, so those applied to a
\* capability can be counted, however many ids there are.
AppliedInv ==
    /\ IsFiniteSet({c \in ChangeRequests : status[c] # "NONE"})
    /\ AppliedOnce
    /\ \A h \in Handlers : request[h] # Idle => OperationOK(request[h])

\* A request is completed by complete, or by apply, which counts the operation.
LEMMA CompletedBy ==
    ASSUME IInv, [Next]_vars
    PROVE  \/ /\ UNCHANGED revision
              /\ \A c \in ChangeRequests : status'[c] = "COMPLETED" <=> status[c] = "COMPLETED"
           \/ \E h \in Handlers :
                 /\ request[h] # Idle
                 /\ SetStatus(request[h].cr, "EXECUTING", "COMPLETED")
                 /\ \/ request[h].at = "complete" /\ UNCHANGED revision
                    \/ /\ request[h].at = "apply"
                       /\ revision' = [a \in Capabilities |->
                             IF a \in Affected(request[h].cr) THEN revision[a] + 1 ELSE revision[a]]
  <1>1. ASSUME NEW h \in Handlers, NEW d \in ChangeRequests, Arrive(h, d)
        PROVE  /\ UNCHANGED revision
               /\ \A c \in ChangeRequests : status'[c] = "COMPLETED" <=> status[c] = "COMPLETED"
    <2>1. CASE \E b \in Dtos : Create(h, d, b)
      BY <2>1 DEF Create, IInv, TypeOK
    <2>2. CASE ~ \E b \in Dtos : Create(h, d, b)
      BY <1>1, <2>2 DEF Arrive, Submit, Cancel, RequestApproval, Execute, Complete, ReportFailure,
                        ApplyStructuralOperation, SubmitDecision, ReadForTransition, rows
    <2> QED
      BY <2>1, <2>2
  <1>2. ASSUME NEW h \in Handlers, Continue(h), ~CommitComplete(h), ~CommitOperation(h)
        PROVE  /\ UNCHANGED revision
               /\ \A c \in ChangeRequests : status'[c] = "COMPLETED" <=> status[c] = "COMPLETED"
    <2>1. CASE ApplyTransition(h)
      BY <2>1, RequestInHand DEF ApplyTransition, At, SetStatus, RequestOK, IInv, TypeOK
    <2>2. CASE RecordDecision(h)
      <3>1. Moves(request[h].cr, request[h].to) /\ UNCHANGED revision
        BY <2>2, DecisionMoves DEF RecordDecision
      <3>2. request[h].to = NewStatus(request[h].role, request[h].outcome)
        BY <2>2, RequestInHand DEF RecordDecision, At, RequestOK
      <3>3. request[h].to # "COMPLETED"
        BY <3>2 DEF NewStatus
      <3> QED
        BY <3>1, <3>3 DEF Moves, TERMINAL_STATUSES, IInv, TypeOK
    <2>3. CASE AcquireLocks(h) \/ CommitFailure(h)
      BY <2>3 DEF AcquireLocks, CommitFailure, SetStatus, IInv, TypeOK
    <2>4. CASE UNCHANGED <<status, revision>>
      BY <2>4
    <2> QED
      BY <1>2, <2>1, <2>2, <2>3, <2>4
         DEF Continue, AppendAudit, AnalyseImpact, WriteSummary, CheckDecision, LockConflict,
             GuardAndRead, AfterCommit, AuditWriteFails, Abort, rows
  <1>3. ASSUME NEW h \in Handlers, CommitComplete(h)
        PROVE  /\ request[h] # Idle /\ SetStatus(request[h].cr, "EXECUTING", "COMPLETED")
               /\ request[h].at = "complete" /\ UNCHANGED revision
    BY <1>3 DEF CommitComplete, At
  <1>4. ASSUME NEW h \in Handlers, CommitOperation(h)
        PROVE  /\ request[h] # Idle /\ SetStatus(request[h].cr, "EXECUTING", "COMPLETED")
               /\ request[h].at = "apply"
               /\ revision' = [a \in Capabilities |->
                             IF a \in Affected(request[h].cr) THEN revision[a] + 1 ELSE revision[a]]
    BY <1>4 DEF CommitOperation, At
  <1> QED
    BY <1>1, <1>2, <1>3, <1>4 DEF Next, ChangeMappings, vars

LEMMA FewCreated ==
    ASSUME IInv, [Next]_vars, IsFiniteSet({c \in ChangeRequests : status[c] # "NONE"})
    PROVE  IsFiniteSet({c \in ChangeRequests : status'[c] # "NONE"})
  <1> DEFINE S == {c \in ChangeRequests : status[c] # "NONE"}
  <1>1. \/ {c \in ChangeRequests : status'[c] # "NONE"} \subseteq S
        \/ \E d : {c \in ChangeRequests : status'[c] # "NONE"} \subseteq S \cup {d}
    <2>1. TrailCase
      BY TrailCases
    <2>2. CASE UNCHANGED <<status, trail>>
      BY <2>2
    <2>3. ASSUME NEW d \in ChangeRequests, Drafts(d) \/ NotesCreation(d) \/ \E to \in ChangeRequestStatus : Moves(d, to)
          PROVE  {c \in ChangeRequests : status'[c] # "NONE"} \subseteq S \cup {d}
      BY <2>3 DEF Drafts, NotesCreation, Moves, IInv, TypeOK
    <2> QED
      BY <2>1, <2>2, <2>3 DEF TrailCase
  <1>2. \A d : IsFiniteSet(S \cup {d})
    BY FS_AddElement
  <1> QED
    BY <1>1, <1>2, FS_Subset

LEMMA AppliedPreserved ==
    ASSUME IInv, AppliedInv, [Next]_vars
    PROVE  AppliedInv'
  <1>1. IsFiniteSet({c \in ChangeRequests : status'[c] # "NONE"})
    BY FewCreated DEF AppliedInv
  <1>2. ASSUME NEW c \in ChangeRequests, status[c] # "NONE"
        PROVE  /\ Structural(c)' <=> Structural(c)
               /\ Affected(c)' = Affected(c)
    BY <1>2, DtoStays DEF Structural, Affected
  <1>3. ASSUME NEW a \in Capabilities
        PROVE  revision'[a] = Cardinality(Applied(a)')
    <2>0. revision[a] = Cardinality(Applied(a)) /\ revision[a] \in Nat
      BY DEF AppliedInv, AppliedOnce, Applied, Structural, IInv, TypeOK
    <2>1. CASE /\ UNCHANGED revision
               /\ \A c \in ChangeRequests : status'[c] = "COMPLETED" <=> status[c] = "COMPLETED"
      <3>1. Applied(a)' = Applied(a)
        BY <1>2, <2>1 DEF Applied
      <3> QED
        BY <2>0, <2>1, <3>1
    <2>2. ASSUME NEW h \in Handlers, request[h] # Idle,
                 SetStatus(request[h].cr, "EXECUTING", "COMPLETED")
          PROVE  /\ Structural(request[h].cr) /\ a \in Affected(request[h].cr) =>
                       Cardinality(Applied(a)') = Cardinality(Applied(a)) + 1
                 /\ ~(Structural(request[h].cr) /\ a \in Affected(request[h].cr)) =>
                       Applied(a)' = Applied(a)
      <3>1. PICK c \in ChangeRequests : c = request[h].cr
        BY <2>2, RequestInHand
      <3>2. /\ status[c] = "EXECUTING" /\ status'[c] = "COMPLETED"
            /\ \A d \in ChangeRequests \ {c} : status'[d] = status[d]
        BY <2>2, <3>1 DEF SetStatus, IInv, TypeOK
      <3>3. CASE Structural(c) /\ a \in Affected(c)
        <4>1. Applied(a)' = Applied(a) \cup {c} /\ c \notin Applied(a)
          BY <1>2, <3>2, <3>3 DEF Applied
        <4>2. IsFiniteSet(Applied(a))
          <5>1. Applied(a) \subseteq {d \in ChangeRequests : status[d] # "NONE"}
            BY DEF Applied
          <5> QED
            BY <5>1, FS_Subset DEF AppliedInv
        <4> QED
          BY <3>1, <3>3, <4>1, <4>2, FS_AddElement
      <3>4. CASE ~(Structural(c) /\ a \in Affected(c))
        <4>1. Applied(a)' = Applied(a)
          BY <1>2, <3>2, <3>4 DEF Applied
        <4> QED
          BY <3>1, <3>4, <4>1
      <3> QED
        BY <3>3, <3>4
    <2>3. ASSUME NEW h \in Handlers, request[h] # Idle,
                 SetStatus(request[h].cr, "EXECUTING", "COMPLETED"),
                 request[h].at = "complete", UNCHANGED revision
          PROVE  revision'[a] = Cardinality(Applied(a)')
      <3>1. ~Structural(request[h].cr)
        BY <2>3 DEF AppliedInv, OperationOK
      <3> QED
        BY <2>0, <2>2, <2>3, <3>1
    <2>4. ASSUME NEW h \in Handlers, request[h] # Idle,
                 SetStatus(request[h].cr, "EXECUTING", "COMPLETED"), request[h].at = "apply",
                 revision' = [b \in Capabilities |->
                       IF b \in Affected(request[h].cr) THEN revision[b] + 1 ELSE revision[b]]
          PROVE  revision'[a] = Cardinality(Applied(a)')
      <3>1. Structural(request[h].cr)
        BY <2>4 DEF AppliedInv, OperationOK
      <3>2. revision'[a] = IF a \in Affected(request[h].cr) THEN revision[a] + 1 ELSE revision[a]
        BY <2>4
      <3> QED
        BY <2>0, <2>2, <2>4, <3>1, <3>2
    <2> QED
      BY <2>1, <2>3, <2>4, CompletedBy
  <1>4. AppliedOnce'
    BY <1>3 DEF AppliedOnce, Applied, Structural
  <1>5. ASSUME NEW g \in Handlers, request'[g] # Idle
        PROVE  OperationOK(request[g])'
    <2>0. HandCase(g)
      BY HandCases
    <2>1. CASE request[g] # Idle /\ (request'[g] = request[g] \/ GoesOn(request[g], request'[g]))
      <3>1. PICK c \in ChangeRequests : c = request[g].cr /\ c = request'[g].cr /\ status[c] # "NONE"
        BY <2>1, RequestInHand DEF GoesOn
      <3>2. OperationOK(request[g]) /\ (Structural(c)' <=> Structural(c))
        BY <1>2, <2>1, <3>1 DEF AppliedInv
      <3> QED
        BY <2>1, <3>1, <3>2 DEF GoesOn, OperationOK, Structural
    <2>2. CASE request[g] = Idle /\ Starts(request'[g])
      <3>1. PICK c \in ChangeRequests : c = request'[g].cr
        BY <2>2 DEF Starts, RequestRecords
      <3>2. status[c] # "NONE" => (Structural(c)' <=> Structural(c))
        BY <1>2
      <3> QED
        BY <2>2, <3>1, <3>2 DEF Starts, OperationOK, Structural
    <2>3. CASE Checked(request[g], request'[g])
      BY <2>3 DEF Checked, OperationOK
    <2> QED
      BY <1>5, <2>0, <2>1, <2>2, <2>3 DEF HandCase
  <1> QED
    BY <1>1, <1>4, <1>5 DEF AppliedInv

\* A structural operation is applied exactly once for each request completed
\* by it: the writes commit only with the guarded move to COMPLETED, which is
\* final, and no other commit either writes or completes such a request.
THEOREM AppliedCorrect == Spec => []AppliedOnce
  <1>1. Init => AppliedInv
    <2> SUFFICES ASSUME Init PROVE AppliedInv
      OBVIOUS
    <2>1. {c \in ChangeRequests : status[c] # "NONE"} = {}
      BY DEF Init
    <2>2. \A a \in Capabilities : {c \in ChangeRequests : /\ status[c] = "COMPLETED"
                                                        /\ dto[c].type \in STRUCTURAL_TYPES
                                                        /\ a \in Affected(c)} = {}
      BY DEF Init
    <2>3. AppliedOnce
      BY <2>2, FS_EmptySet DEF AppliedOnce, Init, NoRevision
    <2> QED
      BY <2>1, <2>3, FS_EmptySet DEF AppliedInv, Init
  <1>2. IInv /\ AppliedInv /\ [Next]_vars => AppliedInv'
    BY AppliedPreserved
  <1>3. AppliedInv => AppliedOnce
    BY DEF AppliedInv
  <1> QED
    BY <1>1, <1>2, <1>3, Invariance, PTL DEF Spec
=============================================================================
