------------------------------- MODULE MCForms --------------------------------
(* Small instances of Hierarchy and Forms for TLC: a behaviour builds a tree, or   *)
(* opens one of the two forms over a small one.                                    *)
EXTENDS MCHierarchy, Forms

CONSTANTS r1, u1, MaxWrites

VARIABLES
    visit,
    writes    \* commits to capabilities while a capability is edited

visitVars == <<visit, writes, requestFormVars, editor, detail, reading>>

\* A tag whose text ends in a comma.
CommaAfter == [t \in Tags |-> IF t = t1 THEN {u1} ELSE {t}]

\* One or two capabilities, one below the other or not.
SmallForest ==
    /\ exists \in {S \in SUBSET Capabilities : Cardinality(S) = 2}
    /\ \E c \in exists, p \in exists \cup {NoParent} :
         /\ p # c
         /\ capability = [x \in Capabilities |-> IF x = c THEN RowOf(p, {t1}) ELSE NewRow]
    /\ mapping = [m \in Mappings |-> NoMapping]
    /\ open = [h \in Handlers |-> NoBody]
    /\ mergedTags = [h \in Handlers |-> {}]

VisitInit ==
    /\ visit \in {"tree", "request", "edit"}
    /\ IF visit = "tree" THEN Init ELSE SmallForest
    /\ writes = 0 /\ FormInit /\ EditorInit

\* While a form is open others map capabilities, or change them.
RequestBodies == {On("MAP", x) : x \in Capabilities}

EditBodies == {Update(x, {"lifecycleStatus"}, [NewRow EXCEPT !.lifecycleStatus = "RETIRED"]) : x \in Capabilities}

RequestedBodies == {BodyOf(request[r]) : r \in {q \in Requests : request[q] # NoRequest}}

VisitNext ==
    \/ /\ visit = "tree" /\ Next
       /\ UNCHANGED <<visit, writes, formVars, editor, detail, reading>>
    \/ /\ visit = "request" /\ FormNext
       /\ RequestedBodies # {} => [form' EXCEPT !.plan = FALSE] \in {[form EXCEPT !.plan = FALSE], EmptyForm}
       /\ UNCHANGED <<visit, writes, editor, detail, reading>>
    \/ /\ visit = "edit" /\ EditorNext
       /\ IF editor' = NoEditor THEN TRUE ELSE Cardinality(editor'.edited) <= 1
       /\ writes' = IF <<exists', capability'>> = <<exists, capability>> THEN writes ELSE writes + 1
       /\ writes' <= MaxWrites
       /\ UNCHANGED <<visit, formVars>>

VisitSpec == VisitInit /\ [][VisitNext]_visitVars
=============================================================================
