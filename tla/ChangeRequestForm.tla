-------------------------- MODULE ChangeRequestForm --------------------------
(***************************************************************************)
(* The page on which a change request is written, with its preview of the  *)
(* impact, and what becomes of the request: the plan gate and the          *)
(* execution on the hierarchy.  Source: apps/web/src/pages/                *)
(* ChangeRequestFormPage, api/impact-analysis, components/mapping/         *)
(* ImpactAnalysisSummary, and of the server what uses the request's fields.*)
(*                                                                         *)
(* Texts are left out, the downstream plan but for whether there is one.   *)
(* Approval and locks are in ChangeRequest; here an approved request is    *)
(* executed at some time after the gate.                                   *)
(***************************************************************************)
EXTENDS Hierarchy, Integers

CONSTANTS
    OtherBodies,  \* what others ask for while the page is open
    Requests,     \* change requests the page may create
    NoRequest,    \* one it has not created
    NoPreview     \* no impact analysis

ASSUME OtherBodiesAssumption == OtherBodies \subseteq WellFormed

FormTypes == {"CREATE", "UPDATE", "DELETE", "REPARENT", "MERGE", "RETIRE"}
HIGH_IMPACT_CR_TYPES == {"RETIRE", "MERGE"}

FormFields ==
    [type : FormTypes, selected : SUBSET Capabilities, newParent : Parents, isRoot : BOOLEAN,
     survivor : Parents, plan : BOOLEAN]

\* isRoot: what the user asked for; target: new parent or survivor.
CreatedRequest ==
    [type : FormTypes, affected : (SUBSET Capabilities) \ {{}}, target : Parents, isRoot : BOOLEAN,
     plan : BOOLEAN, stage : {"CREATED", "APPROVED", "EXECUTING", "COMPLETED"}]

\* answers: it is the analysis of what is selected, not of what was selected before.
\* fresh is of the specification: no mapping was written since it was read.
Preview == [active : BOOLEAN, answers : BOOLEAN, fresh : BOOLEAN]

VARIABLES
    form,        \* the state of ChangeRequestFormPage
    preview,     \* the analysis shown: placeholderData keeps the previous one
    analysing,   \* the analysis on its way
    request      \* the created requests

formVars == <<form, preview, analysing, request>>
requestFormVars == <<exists, capability, mapping, open, mergedTags, form, preview, analysing, request>>

EmptyForm ==
    [type |-> "UPDATE", selected |-> {}, newParent |-> NoParent, isRoot |-> FALSE,
     survivor |-> NoParent, plan |-> FALSE]

FormInit ==
    /\ form = EmptyForm /\ preview = NoPreview /\ analysing = NoPreview
    /\ request = [r \in Requests |-> NoRequest]

-----------------------------------------------------------------------------
(* Filling in *)

PreviewEnabled(f) == f.type \in HIGH_IMPACT_CR_TYPES /\ f.selected # {}

\* Mutant: the query key has the type of the operation only.
KeyByType(f, g) == PreviewEnabled(g) /\ f.type = g.type

\* The query key has the sorted ids and the type.
SameKey(f, g) == PreviewEnabled(g) /\ f.type = g.type /\ f.selected = g.selected

\* The answer for a key that is left goes to the cache, and is shown as it was
\* until the one for the new key is there.
Fill(f) ==
    /\ f # form
    /\ form' = f
    /\ IF SameKey(form, f) THEN UNCHANGED <<preview, analysing>>
       ELSE /\ analysing' = NoPreview
            /\ preview' = IF preview = NoPreview THEN preview
                          ELSE [preview EXCEPT !.answers = FALSE, !.fresh = FALSE]
    /\ UNCHANGED <<vars, request>>

SetType == \E t \in FormTypes : Fill([form EXCEPT !.type = t])

\* The results of the search, less what is selected.
AddCapability == \E c \in exists \ form.selected : Fill([form EXCEPT !.selected = @ \cup {c}])

\* The effect on the selection: a survivor that is not selected is cleared.
WithoutCapability(c) ==
    LET left == form.selected \ {c} IN
      [form EXCEPT !.selected = left, !.survivor = IF @ \in left THEN @ ELSE NoParent]

DeselectCapability == \E c \in form.selected : Fill(WithoutCapability(c))

\* The picker is there unless the box is ticked.
SetNewParent ==
    /\ form.type = "REPARENT" /\ ~form.isRoot
    /\ \E p \in exists \cup {NoParent} : Fill([form EXCEPT !.newParent = p])

ToggleRoot ==
    /\ form.type = "REPARENT"
    /\ Fill([form EXCEPT !.isRoot = ~@, !.newParent = IF form.isRoot THEN @ ELSE NoParent])

SetSurvivor ==
    /\ form.type = "MERGE" /\ Cardinality(form.selected) >= 2
    /\ \E c \in form.selected : Fill([form EXCEPT !.survivor = c])

WritePlan == \E p \in BOOLEAN : Fill([form EXCEPT !.plan = p])

FillIn ==
    SetType \/ AddCapability \/ DeselectCapability \/ SetNewParent \/ ToggleRoot \/ SetSurvivor
    \/ WritePlan

-----------------------------------------------------------------------------
(* The preview *)

HasActiveMappings(S) ==
    \E m \in Mappings : mapping[m] # NoMapping /\ mapping[m].capability \in S /\ mapping[m].state = "ACTIVE"

\* useImpactAnalysis asks, or asks again, and the server reads the mappings.
AskPreview ==
    /\ PreviewEnabled(form) /\ analysing = NoPreview
    /\ analysing' = [active |-> HasActiveMappings(form.selected), answers |-> TRUE, fresh |-> TRUE]
    /\ UNCHANGED <<vars, form, preview, request>>

AnalysisArrives ==
    /\ analysing # NoPreview
    /\ preview' = analysing
    /\ analysing' = NoPreview
    /\ UNCHANGED <<vars, form, request>>

\* Within five minutes an earlier answer for the selection is taken from the cache.
CachedAnalysis ==
    /\ PreviewEnabled(form)
    /\ preview # NoPreview /\ ~preview.answers
    /\ \E active \in BOOLEAN : preview' = [active |-> active, answers |-> TRUE, fresh |-> FALSE]
    /\ UNCHANGED <<vars, form, analysing, request>>

\* "n active mappings will be affected": under whatever numbers are shown.
Notice == PreviewEnabled(form) /\ preview # NoPreview /\ preview.active

-----------------------------------------------------------------------------
(* Creating the request *)

ReparentReady == Cardinality(form.selected) = 1 /\ (form.isRoot \/ form.newParent # NoParent)

Ready ==
    /\ form.selected # {}
    /\ form.type = "REPARENT" => ReparentReady
    /\ form.type = "MERGE" => Cardinality(form.selected) >= 2 /\ form.survivor \in form.selected

\* operationPayload is built from the fields of the chosen type.
Payload ==
    CASE form.type = "REPARENT" -> IF form.isRoot THEN NoParent ELSE form.newParent
      [] form.type = "MERGE" -> form.survivor
      [] OTHER -> NoParent

\* Mutant: the survivor of a merge is not among the affected capabilities.
AffectedLessSurvivor(f) == IF f.type = "MERGE" THEN f.selected \ {f.survivor} ELSE f.selected

AffectedCapabilityIds(f) == f.selected

\* The answer may be lost: then the form stays as it is, next to an error.
CreateRequest ==
    /\ Ready
    /\ \E r \in Requests :
         /\ request[r] = NoRequest
         /\ request' = [request EXCEPT ![r] =
              [type |-> form.type, affected |-> AffectedCapabilityIds(form), target |-> Payload,
               isRoot |-> form.isRoot, plan |-> form.plan, stage |-> "CREATED"]]
    /\ form' \in {form, EmptyForm}
    /\ UNCHANGED <<vars, preview, analysing>>

-----------------------------------------------------------------------------
(* What becomes of it *)

\* The impact-analysis gate of requestApproval.
GateRefuses(type, S, plan) == type \in HIGH_IMPACT_CR_TYPES /\ HasActiveMappings(S) /\ ~plan

Approve(r) ==
    /\ request[r] # NoRequest /\ request[r].stage = "CREATED"
    /\ ~GateRefuses(request[r].type, request[r].affected, request[r].plan)
    /\ request' = [request EXCEPT ![r].stage = "APPROVED"]
    /\ UNCHANGED <<vars, form, preview, analysing>>

BodyOf(q) ==
    [op |-> q.type, affected |-> q.affected, target |-> q.target, fields |-> {}, row |-> NewRow]

\* dispatchOp, applyMerge and applyDelete on the shape of the request.
ShapeAccepted(q) ==
    /\ q.type \in {"REPARENT", "DELETE"} => Cardinality(q.affected) = 1
    /\ q.type = "MERGE" => q.target # NoParent /\ q.affected \ {q.target} # {}

\* A request of the types CREATE and UPDATE is completed without an operation.
Execute(r, h) ==
    /\ request[r] # NoRequest /\ request[r].stage = "APPROVED" /\ request[r].type \in StructuralOps
    /\ ShapeAccepted(request[r])
    /\ Begin(h, BodyOf(request[r]))
    /\ request' = [request EXCEPT ![r].stage = "EXECUTING"]
    /\ UNCHANGED <<form, preview, analysing>>

Outcome(r, h, stage) ==
    /\ request[r] # NoRequest /\ request[r].stage = "EXECUTING" /\ open[h] = BodyOf(request[r])
    /\ request' = [request EXCEPT ![r].stage = stage]
    /\ UNCHANGED form

\* A write of mappings makes the numbers that were read before outdated.
Outdated(p) == IF p # NoPreview /\ mapping' # mapping THEN [p EXCEPT !.fresh = FALSE] ELSE p

OutdatedReads == preview' = Outdated(preview) /\ analysing' = Outdated(analysing)

ExecutionEnds(r, h) ==
    \/ Structural(h) /\ Outcome(r, h, "COMPLETED") /\ OutdatedReads
    \/ Abort(h) /\ Outcome(r, h, "APPROVED") /\ UNCHANGED <<preview, analysing>>

Executing(h) == \E r \in Requests : request[r] # NoRequest /\ open[h] = BodyOf(request[r])

\* Everybody else.
OthersWrite ==
    /\ \A h \in Handlers : ~Executing(h)
    /\ Writers(OtherBodies)
    /\ OutdatedReads
    /\ UNCHANGED <<form, request>>

FormNext ==
    \/ FillIn
    \/ AskPreview \/ AnalysisArrives \/ CachedAnalysis
    \/ CreateRequest
    \/ \E r \in Requests : Approve(r) \/ \E h \in Handlers : Execute(r, h) \/ ExecutionEnds(r, h)
    \/ OthersWrite

FormSpec == Init /\ FormInit /\ [][FormNext]_requestFormVars

-----------------------------------------------------------------------------
(* Properties *)

FormTypeOK ==
    /\ form \in FormFields
    /\ preview \in Preview \cup {NoPreview} /\ analysing \in Preview \cup {NoPreview}
    /\ request \in [Requests -> CreatedRequest \cup {NoRequest}]

\* However the form came to its state, what it creates has the shape its type
\* needs, but for a deletion of several capabilities, which the form, the gate and
\* the approval let pass and no execution accepts; and nothing is moved to the
\* root level that the user did not send there.  (handleSubmit against dispatchOp,
\* applyReparent, applyMerge and applyDelete.)
CreatedIsExecutable ==
    \A r \in Requests : request[r] # NoRequest =>
      LET q == request[r] IN
        /\ ShapeAccepted(q) \/ q.type = "DELETE"
        /\ q.type = "REPARENT" /\ q.target = NoParent => q.isRoot

\* A survivor is not checked by the server against the affected capabilities,
\* which are all that is locked: because the form takes it from among them, an
\* execution writes of other capabilities nothing but the parent of children.
\* (handleSubmit, the effect on mergeSurvivorId, acquireLocks, applyMerge.)
WritesOnlyLocked ==
    [][\A h \in Handlers : Structural(h) /\ Executing(h) =>
         \A c \in exists \ open[h].affected :
           c \in exists' /\ capability'[c] = [capability[c] EXCEPT !.parentId = capability'[c].parentId]]_requestFormVars

\* Once the analysis of the present selection has arrived, and until a mapping is
\* written, the form shows its notice exactly when a request without a plan would
\* be refused at the gate.  (useImpactAnalysis, the notice under
\* ImpactAnalysisSummary, requestApproval.)
NoticeForeseesGate ==
    PreviewEnabled(form) /\ preview # NoPreview /\ preview.answers /\ preview.fresh =>
      (Notice <=> GateRefuses(form.type, AffectedCapabilityIds(form), FALSE))

\* What the form shows and what it creates, in its parts.
RequestFormIsRight == FormTypeOK /\ CreatedIsExecutable /\ NoticeForeseesGate
=============================================================================
