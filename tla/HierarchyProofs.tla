--------------------------- MODULE HierarchyProofs --------------------------
(***************************************************************************)
(* Theorems about Hierarchy, the pages over it, ChangeRequestForm and      *)
(* CapabilityForm, the reads that walk it, CapabilityReads, and Reports,   *)
(* for any sets of capabilities, mappings, tags, writers and requests.     *)
(*                                                                         *)
(* Types and references hold however writers interleave, and whatever the  *)
(* writers are asked to do (TypesOf).  The forest does not: it is proved   *)
(* for one writer at a time, where what a writer has validated still holds *)
(* when it writes (Fresh), and so is what a walk returns under which       *)
(* nothing was committed.                                                  *)
(***************************************************************************)
EXTENDS Forms, CapabilityReads, FiniteSetTheorems, WellFoundedInduction, TLAPS

Single == \A g, h \in Handlers : g = h

-----------------------------------------------------------------------------
(* Helpers *)

\* A body with a single target names it.
LEMMA TargetOf ==
    ASSUME NEW b \in WellFormed, b.op \notin {"MERGE", "RETIRE"}
    PROVE  Target(b) \in Capabilities /\ b.affected = {Target(b)}
<1>1. PICK c \in Capabilities : b.affected = {c}
  BY DEF WellFormed
<1>2. QED
  BY <1>1 DEF Target

\* The fields of a body have their types.
LEMMA BodyFields ==
    ASSUME NEW b \in WellFormed
    PROVE  /\ b \in Body /\ b # NoBody
           /\ b.row \in Row /\ b.target \in Parents
           /\ b.affected \subseteq Capabilities
           /\ b.op = "MERGE" => b.target \in Capabilities
<1>1. b \in Body /\ (b.op = "MERGE" => b.target \in Capabilities)
  BY DEF WellFormed
<1>2. QED
  BY <1>1, NullsAssumption DEF Body

-----------------------------------------------------------------------------
(* Types and references *)

\* TypeOK for whatever the writers are asked to do.
TypesOf ==
    /\ exists \subseteq Capabilities
    /\ capability \in [Capabilities -> Row]
    /\ \A c \in exists : Parent(c) \in exists \cup {NoParent}
    /\ mapping \in [Mappings -> [capability : Capabilities, state : {"ACTIVE", "INACTIVE"}]
                                \cup {NoMapping}]
    /\ \A m \in Mappings : mapping[m] # NoMapping => mapping[m].capability \in exists
    /\ open \in [Handlers -> WellFormed \cup {NoBody}]
    /\ mergedTags \in [Handlers -> SUBSET Tags]

\* Init gives every variable its type.
LEMMA InitTypes == Init => TypesOf /\ TypeOK
  BY NullsAssumption DEF Init, TypesOf, TypeOK, NewRow, Row, Parents, CapabilityType, LifecycleStatus

\* A handler that finishes or starts keeps the types of its own variables.
LEMMA CloseTypes ==
    ASSUME TypesOf, NEW h \in Handlers, Close(h)
    PROVE  open' \in [Handlers -> WellFormed \cup {NoBody}] /\ mergedTags' \in [Handlers -> SUBSET Tags]
  BY DEF TypesOf, Close

\* A hard delete leaves rows, and their parents among what exists.
LEMMA DeleteTypes ==
    ASSUME TypesOf, NEW c, Delete(c)
    PROVE  /\ exists' \subseteq Capabilities
           /\ capability' \in [Capabilities -> Row]
           /\ \A x \in exists' : Parent(x)' \in exists' \cup {NoParent}
<1>1. NewRow \in Row
  BY DEF NewRow, Row, Parents, CapabilityType, LifecycleStatus
<1>2. QED
  BY <1>1 DEF TypesOf, Delete, SetNull, Parent, Row, Parents

\* A merge leaves rows, and hangs the children of its sources under the survivor.
MergedParent(c, b) ==
    IF c \in exists /\ Parent(c) \in Sources(b) THEN b.target ELSE Parent(c)

LEMMA MergedRow ==
    ASSUME TypesOf, NEW h \in Handlers, ApplyMerge(h), open[h].target \in Capabilities,
           NEW c \in Capabilities
    PROVE  capability'[c] \in Row /\ Parent(c)' = MergedParent(c, open[h])
<1> DEFINE b == open[h]
<1> DEFINE p == MergedParent(c, b)
<1> DEFINE s == IF c \in Sources(b) THEN "RETIRED" ELSE capability[c].lifecycleStatus
<1> DEFINE T == IF c = b.target THEN mergedTags[h] ELSE capability[c].tags
<1>1. capability[c] \in Row
  BY DEF TypesOf
<1>2. capability'[c] = [capability[c] EXCEPT !.parentId = p, !.lifecycleStatus = s, !.tags = T]
  BY DEF ApplyMerge, MergedParent, Parent
<1>3. p \in Parents
  BY <1>1 DEF MergedParent, Parent, Parents, Row
<1>4. s \in LifecycleStatus
  BY <1>1 DEF Row, LifecycleStatus
<1>5. T \in SUBSET Tags
  BY <1>1 DEF Row, TypesOf
<1> HIDE DEF p, s, T
<1>6. /\ [capability[c] EXCEPT !.parentId = p, !.lifecycleStatus = s, !.tags = T] \in Row
      /\ [capability[c] EXCEPT !.parentId = p, !.lifecycleStatus = s, !.tags = T].parentId = p
  BY <1>1, <1>3, <1>4, <1>5 DEF Row
<1>7. QED
  BY <1>2, <1>6 DEF Parent, p

\* Every step keeps types and references.
LEMMA WritersTypes == TypesOf /\ [Writers(WellFormed)]_vars => TypesOf'
<1> SUFFICES ASSUME TypesOf, [Writers(WellFormed)]_vars PROVE TypesOf'
  OBVIOUS
<1> USE DEF TypesOf
<1>0. CASE UNCHANGED vars
  BY <1>0 DEF vars, Parent
<1>1. ASSUME NEW h \in Handlers, NEW b \in WellFormed, Begin(h, b) PROVE TypesOf'
  <2>1. mergedTags' \in [Handlers -> SUBSET Tags]
    <3>1. CASE b.op = "MERGE"
      <4>1. Sources(b) \cup {b.target} \subseteq Capabilities
        BY <3>1, BodyFields DEF Sources
      <4>2. CollectedTags(b) \subseteq Tags
        BY <4>1 DEF CollectedTags, Row
      <4>3. QED
        BY <1>1, <3>1, <4>2 DEF Begin
    <3>2. CASE b.op # "MERGE"
      BY <1>1, <3>2 DEF Begin
    <3>3. QED
      BY <3>1, <3>2
  <2>2. QED
    BY <1>1, <2>1 DEF Begin, Parent
<1>2. ASSUME NEW h \in Handlers, ApplyReparent(h) PROVE TypesOf'
  <2> DEFINE b == open[h]
  <2>1. b \in WellFormed /\ b.op = "REPARENT"
    BY <1>2 DEF ApplyReparent, Applying
  <2>2. Target(b) \in Capabilities /\ b.target \in Parents
    BY <2>1, TargetOf, BodyFields
  <2>3. capability' \in [Capabilities -> Row]
    BY <1>2, <2>2 DEF ApplyReparent, Row
  <2>4. \A c \in exists' : Parent(c)' \in exists' \cup {NoParent}
    BY <1>2, <2>2 DEF ApplyReparent, Parent, Row
  <2>5. QED
    BY <1>2, <2>3, <2>4, CloseTypes DEF ApplyReparent
<1>3. ASSUME NEW h \in Handlers, NEW op \in {"PROMOTE", "DEMOTE"}, NEW type \in CapabilityType,
             ApplyType(h, op, type)
      PROVE  TypesOf'
  <2> DEFINE b == open[h]
  <2>1. b \in WellFormed /\ b.op = op
    BY <1>3 DEF ApplyType, Applying
  <2>2. Target(b) \in Capabilities
    BY <2>1, TargetOf
  <2>3. capability' \in [Capabilities -> Row]
    BY <1>3, <2>2 DEF ApplyType, Row
  <2>4. \A c \in exists' : Parent(c)' \in exists' \cup {NoParent}
    BY <1>3, <2>2 DEF ApplyType, Parent, Row
  <2>5. QED
    BY <1>3, <2>3, <2>4, CloseTypes DEF ApplyType
<1>4. ASSUME NEW h \in Handlers, ApplyMerge(h) PROVE TypesOf'
  <2> DEFINE b == open[h]
  <2>1. b \in WellFormed /\ b.op = "MERGE"
    BY <1>4 DEF ApplyMerge, Applying
  <2>2. b.target \in Capabilities /\ b.target \in exists
    BY <2>1, <1>4, BodyFields DEF ApplyMerge
  <2>3. ASSUME NEW c \in Capabilities
        PROVE  capability'[c] \in Row /\ Parent(c)' = MergedParent(c, b)
    BY <1>4, <2>2, MergedRow
  <2>4. capability' \in [Capabilities -> Row] /\ \A c \in exists' : Parent(c)' \in exists' \cup {NoParent}
    <3>1. capability' = [c \in Capabilities |-> capability'[c]] /\ exists' = exists
      BY <1>4 DEF ApplyMerge
    <3>2. capability' \in [Capabilities -> Row]
      BY <2>3, <3>1
    <3>3. QED
      BY <2>2, <2>3, <3>1, <3>2 DEF MergedParent
  <2>5. /\ mapping' \in [Mappings -> [capability : Capabilities, state : {"ACTIVE", "INACTIVE"}]
                                     \cup {NoMapping}]
        /\ \A m \in Mappings : mapping'[m] # NoMapping => mapping'[m].capability \in exists'
    BY <1>4, <2>2 DEF ApplyMerge, MappingMoved
  <2>6. QED
    BY <1>4, <2>4, <2>5, CloseTypes DEF ApplyMerge
<1>5. ASSUME NEW h \in Handlers, ApplyRetire(h) PROVE TypesOf'
  <2>1. capability' \in [Capabilities -> Row]
    <3>1. ASSUME NEW c \in Capabilities PROVE capability'[c] \in Row
      <4>1. PICK s \in LifecycleStatus : s = IF c \in open[h].affected THEN "RETIRED" ELSE Status(c)
        BY DEF Status, Row, LifecycleStatus
      <4>2. capability'[c] = [capability[c] EXCEPT !.lifecycleStatus = s]
        BY <1>5, <4>1 DEF ApplyRetire, Status
      <4>3. QED
        BY <4>1, <4>2 DEF Row
    <3>2. QED
      BY <1>5, <3>1 DEF ApplyRetire
  <2>2. \A c \in exists' : Parent(c)' \in exists' \cup {NoParent}
    BY <1>5 DEF ApplyRetire, Parent, Row
  <2>3. /\ mapping' \in [Mappings -> [capability : Capabilities, state : {"ACTIVE", "INACTIVE"}]
                                     \cup {NoMapping}]
        /\ \A m \in Mappings : mapping'[m] # NoMapping => mapping'[m].capability \in exists'
    BY <1>5 DEF ApplyRetire
  <2>4. QED
    BY <1>5, <2>1, <2>2, <2>3, CloseTypes DEF ApplyRetire
<1>6. ASSUME NEW h \in Handlers, ApplyDelete(h) PROVE TypesOf'
  <2>1. Delete(Target(open[h]))
    BY <1>6 DEF ApplyDelete
  <2>2. /\ mapping' \in [Mappings -> [capability : Capabilities, state : {"ACTIVE", "INACTIVE"}]
                                     \cup {NoMapping}]
        /\ \A m \in Mappings : mapping'[m] # NoMapping => mapping'[m].capability \in exists'
    BY <1>6, <2>1 DEF ApplyDelete, Delete, Mapped
  <2>3. QED
    BY <1>6, <2>1, <2>2, DeleteTypes, CloseTypes DEF ApplyDelete
<1>7. ASSUME NEW h \in Handlers, CreateCapability(h) PROVE TypesOf'
  <2> DEFINE b == open[h]
  <2>1. b \in WellFormed /\ b.op = "CREATE"
    BY <1>7 DEF CreateCapability, Applying
  <2>2. Target(b) \in Capabilities /\ b.affected = {Target(b)} /\ b.row \in Row
    BY <2>1, TargetOf, BodyFields
  <2>3. capability' \in [Capabilities -> Row]
    BY <1>7, <2>2 DEF CreateCapability
  <2>4. \A c \in exists' : Parent(c)' \in exists' \cup {NoParent}
    BY <1>7, <2>2 DEF CreateCapability, Parent
  <2>5. QED
    BY <1>7, <2>2, <2>3, <2>4, CloseTypes DEF CreateCapability
<1>8. ASSUME NEW h \in Handlers, UpdateCapability(h) PROVE TypesOf'
  <2> DEFINE b == open[h]
  <2>1. b \in WellFormed /\ b.op = "UPDATE"
    BY <1>8 DEF UpdateCapability, Applying
  <2>2. Target(b) \in Capabilities /\ b.row \in Row
    BY <2>1, TargetOf, BodyFields
  <2>3. capability' \in [Capabilities -> Row]
    BY <1>8, <2>2 DEF UpdateCapability, Row
  <2>4. \A c \in exists' : Parent(c)' \in exists' \cup {NoParent}
    BY <1>8, <2>2 DEF UpdateCapability, Parent, Row
  <2>5. QED
    BY <1>8, <2>3, <2>4, CloseTypes DEF UpdateCapability
<1>9. ASSUME NEW h \in Handlers, RemoveCapability(h) PROVE TypesOf'
  <2>1. Delete(Target(open[h])) /\ mapping' = mapping /\ Mapped(Target(open[h])) = {}
    BY <1>9 DEF RemoveCapability
  <2>2. \A m \in Mappings : mapping'[m] # NoMapping => mapping'[m].capability \in exists'
    BY <2>1 DEF Delete, Mapped
  <2>3. QED
    BY <1>9, <2>1, <2>2, DeleteTypes, CloseTypes DEF RemoveCapability
<1>10. ASSUME NEW h \in Handlers, NEW m \in Mappings, CreateMapping(h, m) PROVE TypesOf'
  BY <1>10, CloseTypes DEF CreateMapping, Parent
<1>11. ASSUME NEW m \in Mappings, UpdateMapping(m) PROVE TypesOf'
  BY <1>11 DEF UpdateMapping, Parent
<1>12. ASSUME NEW m \in Mappings, DeleteMapping(m) PROVE TypesOf'
  BY <1>12 DEF DeleteMapping, Parent
<1>13. ASSUME NEW h \in Handlers, Abort(h) PROVE TypesOf'
  BY <1>13, CloseTypes DEF Abort, Parent
<1>14. ASSUME NEW h \in Handlers, Structural(h) PROVE TypesOf'
  BY <1>14, <1>2, <1>3, <1>4, <1>5, <1>6
     DEF Structural, ApplyPromote, ApplyDemote, CapabilityType
<1>15. QED
  BY <1>0, <1>1, <1>7, <1>8, <1>9, <1>10, <1>11, <1>12, <1>13, <1>14 DEF Writers

\* What fewer are asked to do they may do.
LEMMA FewerBodies ==
    ASSUME NEW B \in SUBSET WellFormed, Writers(B)
    PROVE  Writers(WellFormed)
  BY DEF Writers

LEMMA TypeOKTypes == TypeOK => TypesOf
  BY BodiesAssumption DEF TypeOK, TypesOf

\* A handler has what it was asked to do, or nothing.
LEMMA OpenStep ==
    ASSUME NEW B, open \in [Handlers -> B \cup {NoBody}], Writers(B)
    PROVE  open' \in [Handlers -> B \cup {NoBody}]
  BY DEF Writers, Begin, Close, Structural, ApplyReparent, ApplyPromote, ApplyDemote, ApplyType, ApplyMerge,
     ApplyRetire, ApplyDelete, CreateCapability, UpdateCapability, RemoveCapability,
     CreateMapping, UpdateMapping, DeleteMapping, Abort

LEMMA TypeStep == TypeOK /\ [Next]_vars => TypeOK'
<1> SUFFICES ASSUME TypeOK, [Next]_vars PROVE TypeOK'
  OBVIOUS
<1>1. TypesOf'
  BY TypeOKTypes, FewerBodies, BodiesAssumption, WritersTypes DEF Next
<1>2. open' \in [Handlers -> Bodies \cup {NoBody}]
  BY OpenStep DEF TypeOK, Next, vars
<1>3. QED
  BY <1>1, <1>2 DEF TypeOK, TypesOf

\* Whatever writers interleave, every row has its type, every parent exists and
\* every mapping is of a capability that exists: what the foreign keys promise
\* and SET NULL repairs.
THEOREM TypeCorrect == Spec => []TypeOK
<1>1. QED
  BY InitTypes, TypeStep, PTL DEF Spec

-----------------------------------------------------------------------------
(* One writer at a time *)

\* What a writer has validated still holds when it writes.
Fresh == \A h \in Handlers : open[h] # NoBody => Allowed(open[h])

\* Validation reads nothing but the capabilities.
LEMMA SameAllowed ==
    ASSUME exists' = exists, capability' = capability, NEW b
    PROVE  Allowed(b)' <=> Allowed(b)
  BY Zenon DEF Allowed, ReparentAllowed, PromoteAllowed, DemoteAllowed, MergeAllowed,
     RetireAllowed, DeleteAllowed, CreateAllowed, UpdateAllowed, RemoveAllowed, MapAllowed,
     NotDescendant, Visited, Upward, Parent, Status, Children

\* With one writer nothing is written between its reads and its writes.
LEMMA FreshStep ==
    ASSUME Single, TypeOK, Fresh, [Next]_vars
    PROVE  Fresh'
<1>1. CASE UNCHANGED <<exists, capability, open>>
  <2> SUFFICES ASSUME NEW h \in Handlers, open[h] # NoBody PROVE Allowed(open[h])'
    BY <1>1 DEF Fresh
  <2>1. Allowed(open[h])
    BY DEF Fresh
  <2> DEFINE b == open[h]
  \* a rigid name for the body, which the step does not change
  <2>2. PICK x : x = b
    OBVIOUS
  <2>3. Allowed(x)'
    BY <1>1, <2>1, <2>2, SameAllowed
  <2>4. QED
    BY <1>1, <2>2, <2>3
<1>2. ASSUME NEW h \in Handlers, NEW b \in Bodies, Begin(h, b) PROVE Fresh'
  <2>1. Allowed(b)'
    BY <1>2, SameAllowed DEF Begin
  <2>2. open'[h] = b /\ \A g \in Handlers : g = h
    BY <1>2 DEF Begin, Single, TypeOK
  <2>3. QED
    BY <2>1, <2>2 DEF Fresh
<1>3. ASSUME NEW h \in Handlers, Close(h) PROVE Fresh'
  BY <1>3 DEF Close, Fresh, Single, TypeOK
<1>4. QED
  BY <1>1, <1>2, <1>3
     DEF Next, Writers, vars, Structural, ApplyReparent, ApplyPromote, ApplyDemote, ApplyType, ApplyMerge,
         ApplyRetire, ApplyDelete, CreateCapability, UpdateCapability, RemoveCapability,
         CreateMapping, UpdateMapping, DeleteMapping, Abort

-----------------------------------------------------------------------------
(* The forest *)

\* What the loop visits is closed under parents and holds where it starts.
LEMMA VisitedUpward ==
    ASSUME TypeOK, NEW p \in exists
    PROVE  /\ p \in Visited(p) /\ Visited(p) \subseteq exists
           /\ \A x \in Visited(p) : Parent(x) \in Visited(p) \cup {NoParent}
  BY DEF Visited, Upward, TypeOK

\* Cutting links and removing capabilities leaves a forest.
LEMMA Cut ==
    ASSUME TypeOK, Forest, exists' \subseteq exists,
           \A x \in exists' : Parent(x)' \in {Parent(x), NoParent}
    PROVE  Forest'
<1> SUFFICES ASSUME NEW U \in (SUBSET exists') \ {{}} PROVE \E c \in U : Parent(c)' \notin U
  BY DEF Forest
<1>1. PICK c \in U : Parent(c) \notin U
  BY DEF Forest
<1>2. NoParent \notin U
  BY NullsAssumption DEF TypeOK
<1>3. QED
  BY <1>1, <1>2

\* Hanging capabilities under p leaves a forest if none is p or above it: a
\* set that holds all its new parents holds p, and what it shares with the
\* way up from p holds all its old parents.
LEMMA Hang ==
    ASSUME TypeOK, Forest, NEW p \in exists, exists' = exists,
           \A x \in exists : Parent(x)' \in {Parent(x), p},
           \A x \in Visited(p) : Parent(x)' = Parent(x)
    PROVE  Forest'
<1> SUFFICES ASSUME NEW U \in (SUBSET exists) \ {{}}, \A c \in U : Parent(c)' \in U PROVE FALSE
  BY DEF Forest
<1> DEFINE V == U \cap Visited(p)
<1>1. NoParent \notin U
  BY NullsAssumption DEF TypeOK
<1>2. p \in U
  <2>1. PICK c \in U : Parent(c) \notin U
    BY DEF Forest
  <2>2. QED
    BY <2>1
<1>3. V \in (SUBSET exists) \ {{}}
  BY <1>2, VisitedUpward
<1>4. PICK c \in V : Parent(c) \notin V
  BY <1>3 DEF Forest
<1>5. Parent(c) \in U
  BY <1>4
<1>6. Parent(c) \in Visited(p)
  BY <1>1, <1>4, <1>5, VisitedUpward
<1>7. QED
  BY <1>4, <1>5, <1>6

\* A new capability has no children.
LEMMA Grow ==
    ASSUME TypeOK, Forest, NEW c, c \notin exists, exists' = exists \cup {c},
           Parent(c)' \in exists \cup {NoParent}, c # NoParent,
           \A x \in exists : Parent(x)' = Parent(x)
    PROVE  Forest'
<1> SUFFICES ASSUME NEW U \in (SUBSET exists') \ {{}} PROVE \E x \in U : Parent(x)' \notin U
  BY DEF Forest
<1>1. CASE U \subseteq {c}
  <2>1. U = {c} /\ Parent(c)' # c
    BY <1>1
  <2>2. QED
    BY <2>1
<1>2. CASE ~(U \subseteq {c})
  <2>1. PICK x \in U \ {c} : Parent(x) \notin U \ {c}
    BY <1>2 DEF Forest
  <2>2. Parent(x)' = Parent(x) /\ Parent(x) # c
    BY <2>1 DEF TypeOK
  <2>3. QED
    BY <2>1, <2>2
<1>3. QED
  BY <1>1, <1>2

\* One writer's step leaves a forest.
LEMMA ForestStep ==
    ASSUME TypeOK, Forest, Fresh, [Next]_vars
    PROVE  Forest'
<1>0. CASE UNCHANGED <<exists, capability>>
  BY <1>0 DEF Forest, Parent
<1>1. ASSUME NEW h \in Handlers, ApplyReparent(h) PROVE Forest'
  <2> DEFINE b == open[h]
  <2>1. b \in Bodies /\ b.op = "REPARENT" /\ exists' = exists /\ Target(b) \in exists
    BY <1>1 DEF ApplyReparent, Applying, TypeOK
  <2>2. \A x \in exists : Parent(x)' = IF x = Target(b) THEN b.target ELSE Parent(x)
    BY <1>1 DEF ApplyReparent, Parent, TypeOK, Row
  <2>3. CASE b.target = NoParent
    BY <2>1, <2>2, <2>3, Cut
  <2>4. CASE b.target # NoParent
    <3>1. ReparentAllowed(b)
      BY <1>1, <2>1 DEF Fresh, Allowed, ApplyReparent, Applying
    <3>2. b.target \in exists /\ Target(b) \notin Visited(b.target)
      BY <2>4, <3>1 DEF ReparentAllowed, NotDescendant
    <3>3. \A x \in Visited(b.target) : Parent(x)' = Parent(x)
      BY <2>2, <3>2, VisitedUpward
    <3>4. QED
      BY <2>1, <2>2, <3>2, <3>3, Hang
  <2>5. QED
    BY <2>3, <2>4
<1>2. ASSUME NEW h \in Handlers, ApplyMerge(h) PROVE Forest'
  <2> DEFINE b == open[h]
  <2>1. b \in Bodies /\ b.op = "MERGE" /\ exists' = exists
    BY <1>2 DEF ApplyMerge, Applying, TypeOK
  <2>2. b.target \in Capabilities
    BY <2>1, BodyFields, BodiesAssumption
  <2>3. \A x \in exists : Parent(x)' = MergedParent(x, b)
    BY <1>2, <2>2, MergedRow, TypeOKTypes DEF TypeOK
  <2>4. MergeAllowed(b)
    BY <1>2, <2>1 DEF Fresh, Allowed, ApplyMerge, Applying
  <2>5. b.target \in exists /\ \A s \in Sources(b) : s \notin Visited(b.target)
    BY <2>4 DEF MergeAllowed, NotDescendant
  <2>6. \A x \in Visited(b.target) : Parent(x)' = Parent(x)
    <3>1. NoParent \notin Sources(b)
      BY <2>1, BodyFields, BodiesAssumption, NullsAssumption DEF Sources
    <3>2. QED
      BY <2>3, <2>5, <3>1, VisitedUpward DEF MergedParent
  <2>7. QED
    BY <2>1, <2>3, <2>5, <2>6, Hang DEF MergedParent
<1>3. ASSUME NEW h \in Handlers, ApplyRetire(h) PROVE Forest'
  <2>1. exists' = exists /\ \A x \in exists : Parent(x)' = Parent(x)
    BY <1>3 DEF ApplyRetire, Parent, TypeOK, Row
  <2>2. QED
    BY <2>1, Cut
<1>4. ASSUME NEW h \in Handlers, NEW op, NEW type, ApplyType(h, op, type) PROVE Forest'
  <2>1. exists' = exists /\ \A x \in exists : Parent(x)' = Parent(x)
    BY <1>4 DEF ApplyType, Parent, TypeOK, Row
  <2>2. QED
    BY <2>1, Cut
<1>5. ASSUME NEW c, Delete(c) PROVE Forest'
  <2>1. exists' \subseteq exists /\ \A x \in exists' : Parent(x)' \in {Parent(x), NoParent}
    BY <1>5 DEF Delete, SetNull, Parent, TypeOK, Row
  <2>2. QED
    BY <2>1, Cut
<1>6. ASSUME NEW h \in Handlers, CreateCapability(h) PROVE Forest'
  <2> DEFINE b == open[h]
  <2>1. b \in Bodies /\ b.op = "CREATE"
    BY <1>6 DEF CreateCapability, Applying, TypeOK
  <2>2. PICK c \in Capabilities : c = Target(b) /\ b.affected = {c}
    BY <2>1, TargetOf, BodiesAssumption
  <2>3. c \notin exists /\ exists' = exists \cup {c} /\ b.row.parentId \in exists \cup {NoParent}
    BY <1>6, <2>2 DEF CreateCapability
  <2>4. capability'[c].parentId = b.row.parentId /\ \A x \in exists : Parent(x)' = Parent(x)
    BY <1>6, <2>2, <2>3 DEF CreateCapability, Parent, TypeOK
  <2>5. QED
    BY <2>2, <2>3, <2>4, Grow, NullsAssumption DEF Parent
<1>7. ASSUME NEW h \in Handlers, UpdateCapability(h) PROVE Forest'
  <2> DEFINE b == open[h]
  <2>1. PICK c \in exists : b \in Bodies /\ b.op = "UPDATE" /\ exists' = exists /\ c = Target(b)
    BY <1>7 DEF UpdateCapability, Applying, TypeOK
  <2>2. \A x \in exists : Parent(x)' =
          IF x = c /\ "parentId" \in b.fields THEN b.row.parentId ELSE Parent(x)
    BY <1>7, <2>1 DEF UpdateCapability, Parent, TypeOK
  <2>3. CASE "parentId" \in b.fields /\ b.row.parentId # NoParent
    <3>1. UpdateAllowed(b)
      BY <1>7, <2>1 DEF Fresh, Allowed, UpdateCapability, Applying
    <3>2. b.row.parentId \in exists /\ c \notin Visited(b.row.parentId)
      BY <2>1, <2>3, <3>1 DEF UpdateAllowed, NotDescendant
    <3>3. \A x \in Visited(b.row.parentId) : Parent(x)' = Parent(x)
      BY <2>2, <3>2, VisitedUpward
    <3>4. QED
      BY <2>1, <2>2, <3>2, <3>3, Hang
  <2>4. CASE ~("parentId" \in b.fields /\ b.row.parentId # NoParent)
    BY <2>1, <2>2, <2>4, Cut
  <2>5. QED
    BY <2>3, <2>4
<1>8. QED
  BY <1>0, <1>1, <1>2, <1>3, <1>4, <1>5, <1>6, <1>7
     DEF Next, Writers, vars, Begin, Structural, ApplyPromote, ApplyDemote, ApplyDelete, RemoveCapability,
         CreateMapping, UpdateMapping, DeleteMapping, Abort

\* While one writer runs at a time no change of parents closes a cycle, so that
\* every loop that follows parentId ends: assertNotDescendant and the loops of
\* applyMerge and validateParent look far enough.
THEOREM ForestKept ==
    ASSUME Single
    PROVE  Spec => []Forest
<1>1. Init => TypeOK /\ Fresh /\ Forest
  BY InitTypes DEF Init, Fresh, Forest
<1>2. TypeOK /\ Fresh /\ Forest /\ [Next]_vars => TypeOK' /\ Fresh' /\ Forest'
  BY TypeStep, FreshStep, ForestStep
<1>3. QED
  BY <1>1, <1>2, PTL DEF Spec

\* Nothing but the two hard deletes removes a capability.
LEMMA OnlyDeletions ==
    ASSUME [Next]_vars, NEW c \in exists \ exists'
    PROVE  \E h \in Handlers : ApplyDelete(h) \/ RemoveCapability(h)
<1>1. CASE exists' = exists
  BY <1>1
<1>2. ASSUME NEW h \in Handlers, CreateCapability(h) PROVE FALSE
  BY <1>2 DEF CreateCapability
<1>3. ASSUME NEW h \in Handlers, Structural(h) PROVE exists' = exists \/ ApplyDelete(h)
  BY <1>3 DEF Structural, ApplyReparent, ApplyPromote, ApplyDemote, ApplyType, ApplyMerge, ApplyRetire
<1>4. QED
  BY <1>1, <1>2, <1>3
     DEF Next, Writers, vars, Begin, UpdateCapability, CreateMapping, UpdateMapping, DeleteMapping, Abort

\* While one writer runs at a time, what is hard-deleted is a draft or marked
\* erroneous, and no child of it is turned into a root.
THEOREM DeletionControlled ==
    ASSUME Single
    PROVE  Spec => ControlledDeletion
<1>1. Init => TypeOK /\ Fresh
  BY InitTypes DEF Init, Fresh
<1>2. TypeOK /\ Fresh /\ [Next]_vars => TypeOK' /\ Fresh'
  BY TypeStep, FreshStep
<1>3. ASSUME TypeOK, Fresh, [Next]_vars,
             NEW c \in exists \ exists'
      PROVE  (Status(c) = "DRAFT" \/ capability[c].isErroneous) /\ \A x \in exists : Parent(x) # c
  <2>1. ASSUME NEW h \in Handlers, ApplyDelete(h) \/ RemoveCapability(h)
        PROVE  (Status(c) = "DRAFT" \/ capability[c].isErroneous) /\ \A x \in exists : Parent(x) # c
    <3>1. open[h] \in Bodies /\ open[h].op \in {"DELETE", "REMOVE"} /\ Allowed(open[h])
      <4>1. Applying(h, "DELETE") \/ Applying(h, "REMOVE")
        BY <2>1 DEF ApplyDelete, RemoveCapability
      <4>2. QED
        BY <1>3, <4>1 DEF Applying, TypeOK, Fresh
    <3>2. c = Target(open[h]) /\ open[h].affected = {c}
      BY <2>1, <3>1, TargetOf, BodiesAssumption DEF ApplyDelete, RemoveCapability, Delete
    <3>3. /\ Status(c) = "DRAFT" \/ capability[c].isErroneous
          /\ Children({c}) = {}
      BY <3>1, <3>2 DEF Allowed, DeleteAllowed, RemoveAllowed
    <3>4. QED
      BY <3>3 DEF Children
  <2>2. QED
    BY <1>3, <2>1, OnlyDeletions
<1>4. TypeOK /\ Fresh /\ [Next]_vars =>
        [\A c \in exists \ exists' :
           (Status(c) = "DRAFT" \/ capability[c].isErroneous) /\ \A x \in exists : Parent(x) # c]_vars
  BY <1>3
<1>5. QED
  BY <1>1, <1>2, <1>4, PTL DEF Spec, ControlledDeletion

-----------------------------------------------------------------------------
(* Nothing dropped *)

\* What keeps other writers off the capabilities of a merge: it locks its
\* survivor with the rest, and nobody edits tags or retires by an update.
Guarded ==
    \A b \in Bodies :
        /\ b.op = "MERGE" => b.target \in b.affected
        /\ b.op = "UPDATE" =>
             /\ "tags" \notin b.fields
             /\ "lifecycleStatus" \in b.fields => b.row.lifecycleStatus # "RETIRED"

IsStructural(h) == open[h] # NoBody /\ open[h].op \in StructuralOps

Disjoint ==
    \A g, h \in Handlers : g # h /\ IsStructural(g) /\ IsStructural(h) =>
        open[g].affected \cap open[h].affected = {}

Merged(b) == Sources(b) \cup {b.target}

\* What a merge has read is still so: its capabilities exist, the survivor is not
\* retired, and the tags it has collected are all theirs.
MergesOK ==
    \A h \in Handlers : Applying(h, "MERGE") =>
        /\ Merged(open[h]) \subseteq exists
        /\ Status(open[h].target) # "RETIRED"
        /\ \A c \in Merged(open[h]) : capability[c].tags \subseteq mergedTags[h]

\* A capability that a step leaves where it is, with its tags.
Left(c) ==
    /\ c \in exists'
    /\ capability'[c].tags = capability[c].tags
    /\ Status(c) # "RETIRED" => Status(c)' # "RETIRED"

\* What the commit of one writer does to the capabilities of another's merge.
LEMMA MergeLeftAlone ==
    ASSUME TypeOK, Disjoint, Guarded, NEW h \in Handlers, Applying(h, "MERGE"),
           NEW g \in Handlers, g # h,
           Structural(g) \/ CreateCapability(g) \/ UpdateCapability(g) \/ RemoveCapability(g),
           NEW c \in exists, c \in Merged(open[h])
    PROVE  Left(c)
<1>0. open[g] \in Bodies /\ open[h] \in Bodies /\ open[g] # NoBody /\ open[h] # NoBody
  BY DEF TypeOK, Structural, ApplyReparent, ApplyPromote, ApplyDemote, ApplyType, ApplyMerge,
         ApplyRetire, ApplyDelete, CreateCapability, UpdateCapability, RemoveCapability, Applying
<1>1. c \in open[h].affected /\ IsStructural(h)
  BY <1>0 DEF Guarded, Merged, Sources, IsStructural, StructuralOps, Applying
<1>2. IsStructural(g) => c \notin open[g].affected
  BY <1>1 DEF Disjoint
<1>3. capability[c] \in Row /\ c \in Capabilities
  BY DEF TypeOK
<1>4. CASE ApplyReparent(g)
  BY <1>3, <1>4 DEF ApplyReparent, Left, Status, Row, TypeOK
<1>5. CASE ApplyPromote(g) \/ ApplyDemote(g)
  BY <1>3, <1>5 DEF ApplyPromote, ApplyDemote, ApplyType, Left, Status, Row, TypeOK
<1>6. CASE ApplyMerge(g)
  <2>1. open[g].op = "MERGE" /\ open[g].target \in open[g].affected /\ IsStructural(g)
    BY <1>0, <1>6 DEF ApplyMerge, Applying, Guarded, IsStructural, StructuralOps
  <2>2. c # open[g].target /\ c \notin Sources(open[g])
    BY <1>2, <2>1 DEF Sources
  <2>3. capability'[c].tags = capability[c].tags
    BY <1>3, <1>6, <2>2 DEF ApplyMerge, Row
  <2>4. Status(c)' = Status(c)
    BY <1>3, <1>6, <2>2 DEF ApplyMerge, Row, Status
  <2>5. c \in exists'
    BY <1>6 DEF ApplyMerge
  <2>6. QED
    BY <2>3, <2>4, <2>5 DEF Left
<1>7. CASE ApplyRetire(g)
  <2>1. c \notin open[g].affected
    BY <1>2, <1>7 DEF ApplyRetire, Applying, IsStructural, StructuralOps
  <2>2. QED
    BY <1>3, <1>7, <2>1 DEF ApplyRetire, Left, Status, Row
<1>8. CASE ApplyDelete(g) \/ RemoveCapability(g)
  <2>1. open[g].op \in {"DELETE", "REMOVE"} /\ Delete(Target(open[g]))
    BY <1>8 DEF ApplyDelete, RemoveCapability, Applying
  <2>2. Target(open[g]) \in open[g].affected
    BY <1>0, <2>1, TargetOf, BodiesAssumption
  <2>3. c # Target(open[g])
    <3>1. CASE ApplyDelete(g)
      BY <1>2, <2>2, <3>1 DEF ApplyDelete, Applying, IsStructural, StructuralOps
    <3>2. CASE RemoveCapability(g)
      BY <1>1, <3>2 DEF RemoveCapability, HeldLocks, IsStructural
    <3>3. QED
      BY <1>8, <3>1, <3>2
  <2>4. QED
    BY <1>3, <2>1, <2>3 DEF Delete, Left, Status, Row
<1>9. CASE CreateCapability(g)
  BY <1>9 DEF CreateCapability, Left, Status, TypeOK
<1>10. CASE UpdateCapability(g)
  <2>1. open[g].op = "UPDATE" /\ "tags" \notin open[g].fields
        /\ ("lifecycleStatus" \in open[g].fields => open[g].row.lifecycleStatus # "RETIRED")
    BY <1>0, <1>10 DEF UpdateCapability, Applying, Guarded
  <2>2. QED
    BY <1>3, <1>10, <2>1 DEF UpdateCapability, Left, Status, TypeOK
<1>11. QED
  BY <1>4, <1>5, <1>6, <1>7, <1>8, <1>9, <1>10 DEF Structural

\* The handlers a step leaves alone, and what becomes of the one that acts.
LEMMA HandlerCases ==
    ASSUME TypeOK, [Next]_vars
    PROVE  \/ UNCHANGED <<exists, capability, open, mergedTags>>
           \/ \E g \in Handlers :
                /\ \A h \in Handlers : h # g => open'[h] = open[h] /\ mergedTags'[h] = mergedTags[h]
                /\ \/ /\ open'[g] = NoBody
                      /\ \/ UNCHANGED <<exists, capability>>
                         \/ Structural(g) \/ CreateCapability(g) \/ UpdateCapability(g) \/ RemoveCapability(g)
                   \/ /\ UNCHANGED <<exists, capability>> /\ open'[g] \in Bodies
                      /\ ~Locked(open'[g]) /\ Allowed(open'[g])
                      /\ open'[g].op = "MERGE" => mergedTags'[g] = CollectedTags(open'[g])
<1>1. ASSUME NEW g \in Handlers, Close(g)
      PROVE  /\ \A h \in Handlers : h # g => open'[h] = open[h] /\ mergedTags'[h] = mergedTags[h]
             /\ open'[g] = NoBody
  BY <1>1 DEF Close, TypeOK
<1>2. ASSUME NEW g \in Handlers, NEW b \in Bodies, Begin(g, b)
      PROVE  /\ \A h \in Handlers : h # g => open'[h] = open[h] /\ mergedTags'[h] = mergedTags[h]
             /\ UNCHANGED <<exists, capability>> /\ open'[g] = b
             /\ ~Locked(b) /\ Allowed(b)
             /\ b.op = "MERGE" => mergedTags'[g] = CollectedTags(b)
  BY <1>2 DEF Begin, TypeOK
<1>3. ASSUME NEW g \in Handlers,
             Structural(g) \/ CreateCapability(g) \/ UpdateCapability(g) \/ RemoveCapability(g)
      PROVE  Close(g)
  BY <1>3 DEF Structural, ApplyReparent, ApplyPromote, ApplyDemote, ApplyType, ApplyMerge, ApplyRetire,
              ApplyDelete, CreateCapability, UpdateCapability, RemoveCapability
<1>4. ASSUME NEW g \in Handlers, Abort(g) \/ \E m \in Mappings : CreateMapping(g, m)
      PROVE  Close(g) /\ UNCHANGED <<exists, capability>>
  BY <1>4 DEF Abort, CreateMapping
<1>5. ASSUME UNCHANGED vars \/ \E m \in Mappings : UpdateMapping(m) \/ DeleteMapping(m)
      PROVE  UNCHANGED <<exists, capability, open, mergedTags>>
  BY <1>5 DEF vars, UpdateMapping, DeleteMapping
<1>6. ASSUME NEW g \in Handlers, NEW b \in Bodies, Begin(g, b)
      PROVE  /\ UNCHANGED <<exists, capability>> /\ open'[g] \in Bodies
             /\ ~Locked(open'[g]) /\ Allowed(open'[g])
             /\ open'[g].op = "MERGE" => mergedTags'[g] = CollectedTags(open'[g])
  BY <1>2, <1>6
<1>7. QED
  BY <1>1, <1>2, <1>3, <1>4, <1>5, <1>6 DEF Next, Writers

LEMMA KeepingStep ==
    ASSUME TypeOK, Single \/ Guarded, Disjoint, MergesOK, [Next]_vars
    PROVE  Disjoint' /\ MergesOK'
<1>1. CASE UNCHANGED <<exists, capability, open, mergedTags>>
  BY <1>1 DEF Disjoint, MergesOK, IsStructural, Applying, Status
<1>2. ASSUME NEW g \in Handlers,
             \A h \in Handlers : h # g => open'[h] = open[h] /\ mergedTags'[h] = mergedTags[h],
             open'[g] = NoBody,
             \/ UNCHANGED <<exists, capability>>
             \/ Structural(g) \/ CreateCapability(g) \/ UpdateCapability(g) \/ RemoveCapability(g)
      PROVE  Disjoint' /\ MergesOK'
  <2>1. Disjoint'
    BY <1>2 DEF Disjoint, IsStructural
  <2>2. ASSUME NEW h \in Handlers, Applying(h, "MERGE")', NEW b, b = open[h]
        PROVE  /\ Merged(b) \subseteq exists' /\ Status(b.target)' # "RETIRED"
               /\ \A c \in Merged(b) : capability'[c].tags \subseteq mergedTags'[h]
    <3>1. h # g /\ Applying(h, "MERGE") /\ mergedTags'[h] = mergedTags[h]
      BY <1>2, <2>2 DEF Applying
    <3>2. /\ Merged(b) \subseteq exists /\ Status(b.target) # "RETIRED"
          /\ \A c \in Merged(b) : capability[c].tags \subseteq mergedTags[h]
      BY <2>2, <3>1 DEF MergesOK
    <3>3. ~Single
      BY <3>1 DEF Single
    <3>4. CASE UNCHANGED <<exists, capability>>
      BY <3>1, <3>2, <3>4 DEF Status
    <3>5. CASE Structural(g) \/ CreateCapability(g) \/ UpdateCapability(g) \/ RemoveCapability(g)
      <4>1. \A c \in Merged(b) : Left(c)
        BY <2>2, <3>1, <3>2, <3>3, <3>5, MergeLeftAlone
      <4>2. b.target \in Merged(b)
        BY DEF Merged
      <4>3. QED
        BY <3>1, <3>2, <4>1, <4>2 DEF Left
    <3>6. QED
      BY <1>2, <3>4, <3>5
  <2>3. \A h \in Handlers : Applying(h, "MERGE")' => open'[h] = open[h]
    BY <1>2 DEF Applying
  <2>4. MergesOK'
    BY <2>2, <2>3 DEF MergesOK
  <2>5. QED
    BY <2>1, <2>4
<1>3. ASSUME NEW g \in Handlers,
             \A h \in Handlers : h # g => open'[h] = open[h] /\ mergedTags'[h] = mergedTags[h],
             UNCHANGED <<exists, capability>>, NEW b, b = open'[g], b \in Bodies,
             ~Locked(b), Allowed(b), b.op = "MERGE" => mergedTags'[g] = CollectedTags(b)
      PROVE  Disjoint' /\ MergesOK'
  <2>1. b.op \in StructuralOps => \A h \in Handlers : h # g /\ IsStructural(h) => b.affected \cap open[h].affected = {}
    BY <1>3 DEF Locked, HeldLocks, IsStructural
  <2>2. Disjoint'
    BY <1>3, <2>1 DEF Disjoint, IsStructural
  <2>3. ASSUME b.op = "MERGE"
        PROVE  /\ Merged(b) \subseteq exists' /\ Status(b.target)' # "RETIRED"
               /\ \A c \in Merged(b) : capability'[c].tags \subseteq mergedTags'[g]
    <3>1. MergeAllowed(b)
      BY <1>3, <2>3 DEF Allowed
    <3>2. mergedTags'[g] = UNION {capability[c].tags : c \in Merged(b)}
      BY <1>3, <2>3 DEF CollectedTags, Merged
    <3>3. QED
      BY <1>3, <3>1, <3>2 DEF MergeAllowed, Merged, Status
  <2>4. ASSUME NEW h \in Handlers, h # g, Applying(h, "MERGE")'
        PROVE  /\ Merged(open[h]) \subseteq exists' /\ Status(open[h].target) # "RETIRED"
               /\ \A c \in Merged(open[h]) : capability'[c].tags \subseteq mergedTags'[h]
    BY <1>3, <2>4 DEF MergesOK, Applying
  <2>5. MergesOK'
    BY <1>3, <2>3, <2>4 DEF MergesOK, Applying, Status
  <2>6. QED
    BY <2>2, <2>5
<1>4. QED
  BY <1>1, <1>2, <1>3, HandlerCases

\* With what a merge has read still so, no structural operation drops anything.
LEMMA KeepsStep ==
    ASSUME TypeOK, MergesOK, NEW h \in Handlers, Structural(h)
    PROVE  Keeps(h)
<1>0. open[h] \in Bodies /\ open[h] # NoBody
  BY DEF TypeOK, Structural, ApplyReparent, ApplyPromote, ApplyDemote, ApplyType, ApplyMerge,
         ApplyRetire, ApplyDelete, Applying
<1>1. \A c \in Capabilities : capability[c] \in Row
  BY DEF TypeOK
<1>2. \A m \in Mappings : mapping[m] # NoMapping =>
        /\ mapping[m] \in [capability : Capabilities, state : {"ACTIVE", "INACTIVE"}]
        /\ mapping[m].capability \in exists
  BY DEF TypeOK
<1>3. CASE ApplyReparent(h) \/ ApplyPromote(h) \/ ApplyDemote(h)
  <2>1. /\ \A c \in Capabilities : capability'[c].tags = capability[c].tags /\ Status(c)' = Status(c)
        /\ UNCHANGED <<exists, mapping>> /\ ~ApplyMerge(h)
    <3>1. ASSUME NEW d \in Capabilities, NEW x,
                 \/ capability' = [capability EXCEPT ![d].parentId = x]
                 \/ capability' = [capability EXCEPT ![d].type = x]
          PROVE  \A c \in Capabilities : capability'[c].tags = capability[c].tags /\ Status(c)' = Status(c)
      BY <1>1, <3>1 DEF Status, Row, TypeOK
    <3>2. Target(open[h]) \in Capabilities
      BY <1>3 DEF ApplyReparent, ApplyPromote, ApplyDemote, ApplyType, TypeOK
    <3>3. open[h].op # "MERGE" /\ UNCHANGED <<exists, mapping>>
      BY <1>3 DEF ApplyReparent, ApplyPromote, ApplyDemote, ApplyType, Applying
    <3>4. QED
      BY <1>3, <3>1, <3>2, <3>3
         DEF ApplyReparent, ApplyPromote, ApplyDemote, ApplyType, ApplyMerge, Applying
  <2>2. QED
    BY <1>2, <2>1 DEF Keeps, Status, TypeOK
<1>4. CASE ApplyRetire(h)
  <2>1. /\ \A c \in Capabilities : /\ capability'[c].tags = capability[c].tags
                                   /\ c \notin open[h].affected => Status(c)' = Status(c)
        /\ UNCHANGED exists /\ ~ApplyMerge(h)
    BY <1>1, <1>4 DEF ApplyRetire, ApplyMerge, Applying, Status, Row
  <2>2. ASSUME NEW m \in Mappings, mapping[m] # NoMapping
        PROVE  /\ mapping'[m] # NoMapping
               /\ Status(mapping[m].capability) # "RETIRED" /\ mapping'[m].state = "ACTIVE" =>
                    capability'[mapping'[m].capability].lifecycleStatus # "RETIRED"
    <3>1. CASE mapping[m].capability \in open[h].affected
      <4>1. mapping'[m] = [mapping[m] EXCEPT !.state = "INACTIVE"]
        BY <1>4, <2>2, <3>1 DEF ApplyRetire
      <4>2. mapping'[m].state = "INACTIVE"
        BY <1>2, <2>2, <4>1
      <4>3. mapping'[m] # NoMapping
        <5>1. mapping'[m].capability = mapping[m].capability
          BY <1>2, <2>2, <4>1
        <5>2. mapping'[m] \in [capability : Capabilities, state : {"ACTIVE", "INACTIVE"}]
          BY <1>2, <2>2, <4>1
        <5>3. QED
          BY <5>2, MappingAssumption
      <4>4. QED
        BY <4>2, <4>3
    <3>2. CASE mapping[m].capability \notin open[h].affected
      <4>1. mapping'[m] = mapping[m]
        BY <1>4, <2>2, <3>2 DEF ApplyRetire
      <4>2. QED
        BY <1>2, <2>1, <2>2, <3>2, <4>1 DEF Status, TypeOK
    <3>3. QED
      BY <3>1, <3>2
  <2>3. QED
    BY <2>1, <2>2 DEF Keeps, TypeOK
<1>5. CASE ApplyDelete(h)
  <2> DEFINE d == Target(open[h])
  <2>1. /\ exists' = exists \ {d} /\ ~ApplyMerge(h)
        /\ \A c \in Capabilities \ {d} : capability'[c].tags = capability[c].tags /\ Status(c)' = Status(c)
    BY <1>1, <1>5 DEF ApplyDelete, Delete, ApplyMerge, Applying, Status, Row
  <2>2. \A m \in Mappings : mapping[m] # NoMapping /\ mapping[m].capability \in exists' => mapping'[m] = mapping[m]
    BY <1>5, <2>1 DEF ApplyDelete, Mapped
  <2>3. QED
    BY <1>2, <2>1, <2>2 DEF Keeps, Status, TypeOK
<1>6. CASE ApplyMerge(h)
  <2>0. PICK b : b = open[h]
    OBVIOUS
  <2>1. /\ Merged(b) \subseteq exists /\ Status(b.target) # "RETIRED"
        /\ \A c \in Merged(b) : capability[c].tags \subseteq mergedTags[h]
    BY <1>6, <2>0 DEF MergesOK, ApplyMerge
  <2>2. b.target \in Merged(b) /\ b.target \in exists /\ b.target \in Capabilities /\ b.target \notin Sources(b)
        /\ Sources(b) \subseteq Merged(b)
    BY <2>1 DEF Merged, TypeOK, Sources
  <2>3. UNCHANGED exists
    BY <1>6 DEF ApplyMerge
  <2>4. \A c \in Capabilities : capability'[c].tags = IF c = b.target THEN mergedTags[h] ELSE capability[c].tags
    BY <1>1, <1>6, <2>0 DEF ApplyMerge, Row
  <2>5. \A c \in Capabilities : c \notin Sources(b) => Status(c)' = Status(c)
    BY <1>1, <1>6, <2>0 DEF ApplyMerge, Row, Status
  <2>6. ASSUME NEW m \in Mappings, mapping[m] # NoMapping
        PROVE  /\ mapping'[m] # NoMapping
               /\ Status(mapping[m].capability) # "RETIRED" =>
                    capability'[mapping'[m].capability].lifecycleStatus # "RETIRED"
    <3>1. mapping'[m] = MappingMoved(m, b)
      BY <1>6, <2>0 DEF ApplyMerge
    <3>2. CASE mapping[m].capability \in Sources(b)
      <4>1. mapping'[m] = [mapping[m] EXCEPT !.capability = b.target]
        BY <2>6, <3>1, <3>2 DEF MappingMoved
      <4>2. mapping'[m].capability = b.target
            /\ mapping'[m] \in [capability : Capabilities, state : {"ACTIVE", "INACTIVE"}]
        BY <1>2, <2>2, <2>6, <4>1
      <4>3. QED
        BY <2>1, <2>2, <2>5, <4>2, MappingAssumption DEF Status
    <3>3. CASE mapping[m].capability \notin Sources(b)
      <4>1. mapping'[m] = mapping[m]
        BY <3>1, <3>3 DEF MappingMoved
      <4>2. QED
        BY <1>2, <2>5, <2>6, <3>3, <4>1 DEF Status
    <3>4. QED
      BY <3>2, <3>3
  <2>7. \A s \in Sources(b) : capability[s].tags \subseteq capability'[b.target].tags
    BY <2>1, <2>2, <2>4
  <2>8. \A c \in exists \cap exists' : capability[c].tags \subseteq capability'[c].tags
    BY <2>1, <2>2, <2>4 DEF TypeOK
  <2>9. QED
    BY <2>0, <2>6, <2>7, <2>8 DEF Keeps
<1>7. QED
  BY <1>3, <1>4, <1>5, <1>6 DEF Structural

\* A structural operation drops no tag and no mapping of what remains: with one
\* writer at a time, or with many if the merges lock their survivors and nobody
\* edits tags or retires by an update meanwhile (applyMerge reads the tags it
\* writes before its writes).
THEOREM NothingLost ==
    ASSUME Single \/ Guarded
    PROVE  Spec => NothingDropped
<1>1. Init => TypeOK /\ Disjoint /\ MergesOK
  BY InitTypes DEF Init, Disjoint, MergesOK, IsStructural, Applying
<1>2. TypeOK /\ Disjoint /\ MergesOK /\ [Next]_vars => TypeOK' /\ Disjoint' /\ MergesOK'
  BY TypeStep, KeepingStep
<1>3. TypeOK /\ Disjoint /\ MergesOK /\ [Next]_vars => [\A h \in Handlers : Structural(h) => Keeps(h)]_vars
  BY KeepsStep
<1>4. QED
  BY <1>1, <1>2, <1>3, PTL DEF Spec, NothingDropped

-----------------------------------------------------------------------------
(* The form of a change request *)

\* An analysis counts as right while it is that of what is selected, and no mapping
\* was written since it was read.
AnalysisRight(p) ==
    PreviewEnabled(form) /\ p # NoPreview /\ p.answers /\ p.fresh =>
      (p.active <=> HasActiveMappings(form.selected))

SurvivorAffected(q) == q.type = "MERGE" => q.target \in q.affected

RequestsRight ==
    \A r \in Requests : request[r] # NoRequest =>
      IsFiniteSet(request[r].affected) /\ SurvivorAffected(request[r])

RequestInv ==
    /\ TypesOf /\ FormTypeOK /\ IsFiniteSet(form.selected)
    /\ CreatedIsExecutable /\ RequestsRight
    /\ AnalysisRight(preview) /\ AnalysisRight(analysing)

LEMMA SameTypes == TypesOf /\ UNCHANGED vars => TypesOf'
  BY WritersTypes

LEMMA RequestInit == Init /\ FormInit => RequestInv
<1> SUFFICES ASSUME Init, FormInit PROVE RequestInv
  OBVIOUS
<1>1. TypesOf /\ IsFiniteSet(form.selected)
  BY InitTypes, FS_EmptySet DEF FormInit, EmptyForm
<1>2. FormTypeOK
  BY DEF FormInit, EmptyForm, FormTypeOK, FormFields, FormTypes, Parents
<1>3. CreatedIsExecutable /\ RequestsRight
  BY DEF FormInit, CreatedIsExecutable, RequestsRight
<1>4. AnalysisRight(preview) /\ AnalysisRight(analysing)
  BY DEF FormInit, AnalysisRight
<1>5. QED
  BY <1>1, <1>2, <1>3, <1>4 DEF RequestInv

\* Whatever is done with the form leaves a form, with finitely many selected.
LEMMA FillInFields ==
    ASSUME RequestInv, FillIn
    PROVE  \E f \in FormFields : IsFiniteSet(f.selected) /\ Fill(f)
<1> USE DEF FormFields
<1>0. form \in FormFields /\ IsFiniteSet(form.selected) /\ exists \subseteq Capabilities
  BY DEF RequestInv, FormTypeOK, TypesOf
<1>1. CASE SetType
  <2>1. PICK t \in FormTypes : Fill([form EXCEPT !.type = t])
    BY <1>1 DEF SetType
  <2>2. [form EXCEPT !.type = t] \in FormFields /\ [form EXCEPT !.type = t].selected = form.selected
    BY <1>0
  <2>3. QED
    BY <1>0, <2>1, <2>2
<1>2. CASE AddCapability
  <2>1. PICK c \in exists : Fill([form EXCEPT !.selected = form.selected \cup {c}])
    BY <1>2 DEF AddCapability
  <2> DEFINE f == [form EXCEPT !.selected = form.selected \cup {c}]
  <2>2. f \in FormFields /\ f.selected = form.selected \cup {c}
    BY <1>0
  <2>3. IsFiniteSet(form.selected \cup {c})
    BY <1>0, FS_AddElement
  <2>4. QED
    BY <2>1, <2>2, <2>3
<1>3. CASE DeselectCapability
  <2>1. PICK c \in form.selected : Fill(WithoutCapability(c))
    BY <1>3 DEF DeselectCapability
  <2> DEFINE left == form.selected \ {c}
  <2>2. /\ WithoutCapability(c) \in FormFields
        /\ WithoutCapability(c).selected = left
    BY <1>0 DEF WithoutCapability, Parents
  <2>3. IsFiniteSet(left)
    BY <1>0, FS_RemoveElement
  <2>4. QED
    BY <2>1, <2>2, <2>3
<1>4. CASE SetNewParent
  <2>1. PICK p \in exists \cup {NoParent} : Fill([form EXCEPT !.newParent = p])
    BY <1>4 DEF SetNewParent
  <2>2. [form EXCEPT !.newParent = p] \in FormFields /\ [form EXCEPT !.newParent = p].selected = form.selected
    BY <1>0 DEF Parents
  <2>3. QED
    BY <1>0, <2>1, <2>2
<1>5. CASE ToggleRoot
  <2> DEFINE p == IF form.isRoot THEN form.newParent ELSE NoParent
  <2> DEFINE f == [form EXCEPT !.isRoot = ~form.isRoot, !.newParent = p]
  <2>1. Fill(f)
    BY <1>5 DEF ToggleRoot
  <2>2. p \in Parents /\ (~form.isRoot) \in BOOLEAN
    BY <1>0 DEF Parents
  <2> HIDE DEF p
  <2>3. f \in FormFields /\ f.selected = form.selected
    BY <1>0, <2>2
  <2>4. QED
    BY <1>0, <2>1, <2>3
<1>6. CASE SetSurvivor
  <2>1. PICK c \in form.selected : Fill([form EXCEPT !.survivor = c])
    BY <1>6 DEF SetSurvivor
  <2>2. [form EXCEPT !.survivor = c] \in FormFields /\ [form EXCEPT !.survivor = c].selected = form.selected
    BY <1>0 DEF Parents
  <2>3. QED
    BY <1>0, <2>1, <2>2
<1>7. CASE WritePlan
  <2>1. PICK p \in BOOLEAN : Fill([form EXCEPT !.plan = p])
    BY <1>7 DEF WritePlan
  <2>2. [form EXCEPT !.plan = p] \in FormFields /\ [form EXCEPT !.plan = p].selected = form.selected
    BY <1>0
  <2>3. QED
    BY <1>0, <2>1, <2>2
<1>8. QED
  BY <1>1, <1>2, <1>3, <1>4, <1>5, <1>6, <1>7 DEF FillIn

\* While the query key stays the analysis does; else it is marked as another's.
LEMMA FillStep ==
    ASSUME RequestInv, NEW f \in FormFields, IsFiniteSet(f.selected), Fill(f)
    PROVE  RequestInv'
<1> USE DEF RequestInv
<1>1. form' = f /\ request' = request /\ UNCHANGED vars
  BY DEF Fill
<1>2. TypesOf' /\ IsFiniteSet(form.selected)' /\ CreatedIsExecutable' /\ RequestsRight'
  BY <1>1, SameTypes DEF CreatedIsExecutable, RequestsRight
<1>3. CASE SameKey(form, f)
  <2>1. preview' = preview /\ analysing' = analysing
    BY <1>3 DEF Fill
  <2>2. PreviewEnabled(form) /\ form'.selected = form.selected
    BY <1>1, <1>3 DEF SameKey, PreviewEnabled
  <2>3. HasActiveMappings(form.selected)' <=> HasActiveMappings(form.selected)
    BY <1>1, <2>2 DEF HasActiveMappings, vars
  <2>4. AnalysisRight(preview)' /\ AnalysisRight(analysing)'
    BY <2>1, <2>2, <2>3 DEF AnalysisRight
  <2>5. FormTypeOK'
    BY <1>1, <2>1 DEF FormTypeOK
  <2>6. QED
    BY <1>2, <2>4, <2>5
<1>4. CASE ~SameKey(form, f)
  <2>1. /\ analysing' = NoPreview
        /\ preview' = IF preview = NoPreview THEN preview
                      ELSE [preview EXCEPT !.answers = FALSE, !.fresh = FALSE]
    BY <1>4 DEF Fill
  <2>2. preview' \in Preview \cup {NoPreview} /\ (preview' # NoPreview => preview'.answers = FALSE)
    BY <2>1 DEF FormTypeOK, Preview
  <2>3. FormTypeOK'
    BY <1>1, <2>1, <2>2 DEF FormTypeOK
  <2>4. AnalysisRight(preview)' /\ AnalysisRight(analysing)'
    BY <2>1, <2>2 DEF AnalysisRight
  <2>5. QED
    BY <1>2, <2>3, <2>4
<1>5. QED
  BY <1>3, <1>4

LEMMA SameMappings ==
    ASSUME mapping' = mapping, form' = form
    PROVE  PreviewEnabled(form)' = PreviewEnabled(form)
           /\ (HasActiveMappings(form.selected)' <=> HasActiveMappings(form.selected))
  BY DEF HasActiveMappings, PreviewEnabled

\* The steps of the preview.
LEMMA PreviewStep ==
    ASSUME RequestInv, AskPreview \/ AnalysisArrives \/ CachedAnalysis
    PROVE  RequestInv'
<1> USE DEF RequestInv
<1>1. form' = form /\ request' = request /\ UNCHANGED vars
  BY DEF AskPreview, AnalysisArrives, CachedAnalysis
<1>2. TypesOf' /\ IsFiniteSet(form.selected)' /\ CreatedIsExecutable' /\ RequestsRight'
  BY <1>1, SameTypes DEF CreatedIsExecutable, RequestsRight
<1>3. /\ PreviewEnabled(form)' = PreviewEnabled(form)
      /\ HasActiveMappings(form.selected)' <=> HasActiveMappings(form.selected)
  BY <1>1, SameMappings DEF vars
<1>4. CASE AskPreview
  <2>1. analysing' \in Preview /\ (analysing'.active <=> HasActiveMappings(form.selected)) /\ preview' = preview
    BY <1>4 DEF AskPreview, Preview, HasActiveMappings
  <2>2. FormTypeOK'
    BY <1>1, <2>1 DEF FormTypeOK
  <2>3. QED
    BY <1>1, <1>2, <1>3, <2>1, <2>2 DEF AnalysisRight
<1>5. CASE AnalysisArrives
  <2>1. preview' = analysing /\ analysing' = NoPreview
    BY <1>5 DEF AnalysisArrives
  <2>2. FormTypeOK'
    BY <1>1, <2>1 DEF FormTypeOK
  <2>3. QED
    BY <1>1, <1>2, <1>3, <2>1, <2>2 DEF AnalysisRight
<1>6. CASE CachedAnalysis
  <2>1. preview' \in Preview /\ preview'.fresh = FALSE /\ analysing' = analysing
    BY <1>6 DEF CachedAnalysis, Preview
  <2>2. FormTypeOK'
    BY <1>1, <2>1 DEF FormTypeOK
  <2>3. QED
    BY <1>1, <1>2, <1>3, <2>1, <2>2 DEF AnalysisRight
<1>7. QED
  BY <1>4, <1>5, <1>6

\* What the form creates has the shape that the operation of its type expects.
LEMMA CreatedShape ==
    ASSUME RequestInv, Ready,
           NEW q, q = [type |-> form.type, affected |-> AffectedCapabilityIds(form), target |-> Payload,
                       isRoot |-> form.isRoot, plan |-> form.plan, stage |-> "CREATED"]
    PROVE  /\ q \in CreatedRequest /\ IsFiniteSet(q.affected) /\ SurvivorAffected(q)
           /\ ShapeAccepted(q) \/ q.type = "DELETE"
           /\ q.type = "REPARENT" /\ q.target = NoParent => q.isRoot
<1>1. form \in FormFields /\ form.selected \in (SUBSET Capabilities) \ {{}} /\ IsFiniteSet(form.selected)
  BY DEF RequestInv, FormTypeOK, Ready, FormFields
<1>2. /\ q.type = form.type /\ q.affected = form.selected /\ q.target = Payload
      /\ q.isRoot = form.isRoot /\ q.plan = form.plan /\ q.stage = "CREATED"
  BY DEF AffectedCapabilityIds
<1>3. Payload \in Parents
  BY <1>1 DEF Payload, FormFields, Parents
<1>4. q \in CreatedRequest
  BY <1>1, <1>3 DEF CreatedRequest, FormFields, AffectedCapabilityIds
<1>5. CASE form.type = "REPARENT"
  <2>1. Payload = IF form.isRoot THEN NoParent ELSE form.newParent
    BY <1>5 DEF Payload
  <2>2. ReparentReady
    BY <1>5 DEF Ready
  <2>3. QED
    BY <1>1, <1>2, <1>4, <1>5, <2>1, <2>2 DEF ReparentReady, ShapeAccepted, SurvivorAffected
<1>6. CASE form.type = "MERGE"
  <2>1. Payload = form.survivor
    BY <1>6 DEF Payload
  <2>2. Cardinality(form.selected) >= 2 /\ form.survivor \in form.selected
    BY <1>6 DEF Ready
  <2>3. form.selected \ {form.survivor} # {}
    <3>1. SUFFICES ASSUME form.selected \ {form.survivor} = {} PROVE FALSE
      OBVIOUS
    <3>2. form.selected = {form.survivor}
      BY <2>2, <3>1
    <3>3. Cardinality(form.selected) = 1
      BY <3>2, FS_Singleton
    <3>4. QED
      BY <2>2, <3>3
  <2>4. form.survivor # NoParent
    BY <1>1, <2>2, NullsAssumption
  <2>5. QED
    BY <1>1, <1>2, <1>4, <1>6, <2>1, <2>2, <2>3, <2>4 DEF ShapeAccepted, SurvivorAffected
<1>7. CASE form.type \notin {"REPARENT", "MERGE"}
  BY <1>1, <1>2, <1>4, <1>7 DEF ShapeAccepted, SurvivorAffected
<1>8. QED
  BY <1>5, <1>6, <1>7

LEMMA CreateStep ==
    ASSUME RequestInv, CreateRequest
    PROVE  RequestInv'
<1>1. PICK r \in Requests :
         /\ request[r] = NoRequest
                            /\ request' = [request EXCEPT ![r] =
              [type |-> form.type, affected |-> AffectedCapabilityIds(form), target |-> Payload,
               isRoot |-> form.isRoot, plan |-> form.plan, stage |-> "CREATED"]]
  BY DEF CreateRequest
<1> DEFINE q == [type |-> form.type, affected |-> AffectedCapabilityIds(form), target |-> Payload,
               isRoot |-> form.isRoot, plan |-> form.plan, stage |-> "CREATED"]
<1>2. /\ q \in CreatedRequest /\ IsFiniteSet(q.affected) /\ SurvivorAffected(q)
      /\ ShapeAccepted(q) \/ q.type = "DELETE"
      /\ q.type = "REPARENT" /\ q.target = NoParent => q.isRoot
  BY CreatedShape DEF CreateRequest
<1>3. request' = [request EXCEPT ![r] = q]
  BY <1>1
<1> HIDE DEF q
<1>4. /\ form' \in {form, EmptyForm} /\ preview' = preview /\ analysing' = analysing /\ UNCHANGED vars
  BY DEF CreateRequest
<1>5. TypesOf'
  BY <1>4, SameTypes DEF RequestInv
<1>6. FormTypeOK' /\ CreatedIsExecutable' /\ RequestsRight'
  <2>1. request \in [Requests -> CreatedRequest \cup {NoRequest}]
    BY DEF RequestInv, FormTypeOK
  <2>2. \A x \in Requests : request'[x] = IF x = r THEN q ELSE request[x]
    BY <1>3, <2>1
  <2>3. request' \in [Requests -> CreatedRequest \cup {NoRequest}]
    BY <1>2, <1>3, <2>1
  <2>4. form' \in FormFields
    <3>1. EmptyForm \in FormFields
      BY DEF EmptyForm, FormFields, FormTypes, Parents
    <3>2. QED
      BY <1>4, <3>1 DEF RequestInv, FormTypeOK
  <2>5. FormTypeOK'
    BY <1>4, <2>3, <2>4 DEF RequestInv, FormTypeOK
  <2>6. CreatedIsExecutable'
    <3> SUFFICES ASSUME NEW x \in Requests, request'[x] # NoRequest
                 PROVE  /\ ShapeAccepted(request'[x]) \/ request'[x].type = "DELETE"
                        /\ request'[x].type = "REPARENT" /\ request'[x].target = NoParent => request'[x].isRoot
      BY DEF CreatedIsExecutable, ShapeAccepted
    <3>1. CASE x = r
      BY <1>2, <2>2, <3>1
    <3>2. CASE x # r
      BY <2>2, <3>2 DEF RequestInv, CreatedIsExecutable
    <3>3. QED
      BY <3>1, <3>2
  <2>7. RequestsRight'
    BY <1>2, <2>2 DEF RequestInv, RequestsRight, SurvivorAffected
  <2>8. QED
    BY <2>5, <2>6, <2>7
<1>7. CASE form' = form
  <2>1. IsFiniteSet(form.selected)'
    BY <1>7 DEF RequestInv
  <2>2. AnalysisRight(preview)' /\ AnalysisRight(analysing)'
    BY <1>4, <1>7, SameMappings DEF RequestInv, AnalysisRight, vars
  <2>3. QED
    BY <1>5, <1>6, <2>1, <2>2 DEF RequestInv
<1>8. CASE form' = EmptyForm
  <2>1. IsFiniteSet(form.selected)'
    BY <1>8, FS_EmptySet DEF EmptyForm
  <2>2. AnalysisRight(preview)' /\ AnalysisRight(analysing)'
    BY <1>8 DEF AnalysisRight, PreviewEnabled, EmptyForm
  <2>3. QED
    BY <1>5, <1>6, <2>1, <2>2 DEF RequestInv
<1>9. QED
  BY <1>4, <1>7, <1>8

\* The stage of a request is not read by what is said of it.
LEMMA StageStep ==
    ASSUME RequestInv, NEW r \in Requests, request[r] # NoRequest,
           NEW s \in {"CREATED", "APPROVED", "EXECUTING", "COMPLETED"},
           request' = [request EXCEPT ![r].stage = s]
    PROVE  /\ request' \in [Requests -> CreatedRequest \cup {NoRequest}]
           /\ CreatedIsExecutable' /\ RequestsRight'
<1>1. request \in [Requests -> CreatedRequest \cup {NoRequest}]
  BY DEF RequestInv, FormTypeOK
<1>2. /\ request'[r] \in CreatedRequest /\ \A x \in Requests : x # r => request'[x] = request[x]
      /\ request'[r].type = request[r].type /\ request'[r].affected = request[r].affected
      /\ request'[r].target = request[r].target /\ request'[r].isRoot = request[r].isRoot
  BY <1>1 DEF CreatedRequest
<1>3. request' \in [Requests -> CreatedRequest \cup {NoRequest}]
  BY <1>1, <1>2
<1>4. ASSUME NEW x \in Requests, request'[x] # NoRequest
      PROVE  /\ request[x] # NoRequest /\ request'[x].type = request[x].type
             /\ request'[x].affected = request[x].affected /\ request'[x].target = request[x].target
             /\ request'[x].isRoot = request[x].isRoot
  BY <1>2, <1>4
<1>5. CreatedIsExecutable'
  <2> SUFFICES ASSUME NEW x \in Requests, request'[x] # NoRequest
               PROVE  /\ ShapeAccepted(request'[x]) \/ request'[x].type = "DELETE"
                      /\ request'[x].type = "REPARENT" /\ request'[x].target = NoParent => request'[x].isRoot
    BY DEF CreatedIsExecutable, ShapeAccepted
  <2>1. /\ ShapeAccepted(request[x]) \/ request[x].type = "DELETE"
        /\ request[x].type = "REPARENT" /\ request[x].target = NoParent => request[x].isRoot
    BY <1>4 DEF RequestInv, CreatedIsExecutable
  <2>2. QED
    BY <1>4, <2>1 DEF ShapeAccepted
<1>6. RequestsRight'
  <2> SUFFICES ASSUME NEW x \in Requests, request'[x] # NoRequest
               PROVE  IsFiniteSet(request'[x].affected) /\ SurvivorAffected(request'[x])
    BY DEF RequestsRight, SurvivorAffected
  <2>1. IsFiniteSet(request[x].affected) /\ SurvivorAffected(request[x])
    BY <1>4 DEF RequestInv, RequestsRight
  <2>2. QED
    BY <1>4, <2>1 DEF SurvivorAffected
<1>7. QED
  BY <1>3, <1>5, <1>6

\* What the request asks for is something a writer may be asked.
LEMMA BodyOfWellFormed ==
    ASSUME NEW q \in CreatedRequest, IsFiniteSet(q.affected), ShapeAccepted(q), q.type \in StructuralOps
    PROVE  BodyOf(q) \in WellFormed
<1> DEFINE b == BodyOf(q)
<1>1. NewRow \in Row
  BY DEF NewRow, Row, Parents, CapabilityType, LifecycleStatus
<1>2. q.affected \in (SUBSET Capabilities) \ {{}} /\ q.target \in Parents
  BY DEF CreatedRequest
<1>3. b \in Body
  BY <1>1, <1>2 DEF BodyOf, Body, StructuralOps
<1>4. b.op = q.type /\ b.affected = q.affected /\ b.target = q.target
  BY DEF BodyOf
<1>5. ASSUME q.type \notin {"MERGE", "RETIRE"} PROVE \E c \in Capabilities : q.affected = {c}
  <2>1. q.type \in {"REPARENT", "DELETE"}
    BY <1>5 DEF StructuralOps, CreatedRequest, FormTypes
  <2>2. Cardinality(q.affected) = 1
    BY <2>1 DEF ShapeAccepted
  <2>3. PICK c : q.affected = {c}
    BY <2>2, FS_Singleton
  <2>4. QED
    BY <1>2, <2>3
<1>6. q.type = "MERGE" => q.target \in Capabilities
  BY <1>2 DEF ShapeAccepted, Parents
<1>7. QED
  BY <1>3, <1>4, <1>5, <1>6 DEF WellFormed

\* Whether a write has made an analysis outdated, or it is still right.
LEMMA OutdatedRight ==
    ASSUME NEW p \in Preview \cup {NoPreview}, AnalysisRight(p), form' = form, 
           NEW q, q = Outdated(p)
    PROVE  /\ q \in Preview \cup {NoPreview}
           /\ PreviewEnabled(form') /\ q # NoPreview /\ q.answers /\ q.fresh =>
                (q.active <=> HasActiveMappings(form.selected)')
<1>1. CASE mapping' = mapping
  BY <1>1, SameMappings DEF Outdated, AnalysisRight
<1>2. CASE mapping' # mapping /\ p # NoPreview
  BY <1>2 DEF Outdated, Preview
<1>3. CASE p = NoPreview
  BY <1>3 DEF Outdated
<1>4. QED
  BY <1>1, <1>2, <1>3

\* A write of the hierarchy, whatever becomes of the request meanwhile.
LEMMA WriteStep ==
    ASSUME RequestInv, Writers(WellFormed), form' = form,
           request' \in [Requests -> CreatedRequest \cup {NoRequest}],
           CreatedIsExecutable', RequestsRight',
           OutdatedReads \/ (UNCHANGED <<preview, analysing>> /\ mapping' = mapping)
    PROVE  RequestInv'
<1>1. TypesOf'
  BY WritersTypes DEF RequestInv
<1>2. preview \in Preview \cup {NoPreview} /\ analysing \in Preview \cup {NoPreview}
  BY DEF RequestInv, FormTypeOK
<1>3. CASE OutdatedReads
  <2>1. preview' = Outdated(preview) /\ analysing' = Outdated(analysing)
    BY <1>3 DEF OutdatedReads
  <2>2. /\ preview' \in Preview \cup {NoPreview}
        /\ PreviewEnabled(form') /\ preview' # NoPreview /\ preview'.answers /\ preview'.fresh =>
                (preview'.active <=> HasActiveMappings(form.selected)')
    BY <1>2, <2>1, OutdatedRight DEF RequestInv
  <2>3. /\ analysing' \in Preview \cup {NoPreview}
        /\ PreviewEnabled(form') /\ analysing' # NoPreview /\ analysing'.answers /\ analysing'.fresh =>
                (analysing'.active <=> HasActiveMappings(form.selected)')
    BY <1>2, <2>1, OutdatedRight DEF RequestInv
  <2>4. AnalysisRight(preview)' /\ AnalysisRight(analysing)'
    BY <2>2, <2>3 DEF AnalysisRight
  <2>5. QED
    BY <1>1, <2>2, <2>3, <2>4 DEF RequestInv, FormTypeOK
<1>4. CASE UNCHANGED <<preview, analysing>> /\ mapping' = mapping
  <2>1. AnalysisRight(preview)' /\ AnalysisRight(analysing)'
    BY <1>4, SameMappings DEF RequestInv, AnalysisRight
  <2>2. QED
    BY <1>1, <1>2, <1>4, <2>1 DEF RequestInv, FormTypeOK
<1>5. QED
  BY <1>3, <1>4

LEMMA RequestStep == RequestInv /\ [FormNext]_requestFormVars => RequestInv'
<1> SUFFICES ASSUME RequestInv, [FormNext]_requestFormVars PROVE RequestInv'
  OBVIOUS
<1>0. request \in [Requests -> CreatedRequest \cup {NoRequest}]
  BY DEF RequestInv, FormTypeOK
<1>1. CASE UNCHANGED requestFormVars
  <2>1. TypesOf'
    BY <1>1, SameTypes DEF RequestInv, requestFormVars, vars
  <2>2. UNCHANGED <<form, preview, analysing, request, mapping>>
    BY <1>1 DEF requestFormVars
  <2>3. AnalysisRight(preview)' /\ AnalysisRight(analysing)'
    BY <2>2, SameMappings DEF RequestInv, AnalysisRight
  <2>4. QED
    BY <2>1, <2>2, <2>3 DEF RequestInv, FormTypeOK, CreatedIsExecutable, RequestsRight
<1>2. CASE FillIn
  BY <1>2, FillInFields, FillStep
<1>3. CASE AskPreview \/ AnalysisArrives \/ CachedAnalysis
  BY <1>3, PreviewStep
<1>4. CASE CreateRequest
  BY <1>4, CreateStep
<1>5. ASSUME NEW r \in Requests, Approve(r) PROVE RequestInv'
  <2>1. /\ request[r] # NoRequest /\ request' = [request EXCEPT ![r].stage = "APPROVED"]
        /\ UNCHANGED <<vars, form, preview, analysing>>
    BY <1>5 DEF Approve
  <2>2. /\ request' \in [Requests -> CreatedRequest \cup {NoRequest}]
        /\ CreatedIsExecutable' /\ RequestsRight'
    BY <2>1, StageStep
  <2>3. TypesOf'
    BY <2>1, SameTypes DEF RequestInv
  <2>4. AnalysisRight(preview)' /\ AnalysisRight(analysing)'
    BY <2>1, SameMappings DEF RequestInv, AnalysisRight, vars
  <2>5. QED
    BY <2>1, <2>2, <2>3, <2>4 DEF RequestInv, FormTypeOK
<1>6. ASSUME NEW r \in Requests, NEW h \in Handlers, Execute(r, h) PROVE RequestInv'
  <2>1. /\ request[r] # NoRequest /\ ShapeAccepted(request[r]) /\ request[r].type \in StructuralOps
        /\ Begin(h, BodyOf(request[r]))
        /\ request' = [request EXCEPT ![r].stage = "EXECUTING"]
        /\ UNCHANGED <<form, preview, analysing>>
    BY <1>6 DEF Execute
  <2>2. /\ request' \in [Requests -> CreatedRequest \cup {NoRequest}]
        /\ CreatedIsExecutable' /\ RequestsRight'
    BY <2>1, StageStep
  <2>3. BodyOf(request[r]) \in WellFormed
    BY <1>0, <2>1, BodyOfWellFormed DEF RequestInv, RequestsRight
  <2>4. Writers(WellFormed) /\ mapping' = mapping
    BY <2>1, <2>3 DEF Writers, Begin
  <2>5. QED
    BY <2>1, <2>2, <2>4, WriteStep
<1>7. ASSUME NEW r \in Requests, NEW h \in Handlers, ExecutionEnds(r, h) PROVE RequestInv'
  <2>1. PICK s \in {"COMPLETED", "APPROVED"} : Outcome(r, h, s)
    BY <1>7 DEF ExecutionEnds
  <2>2. request[r] # NoRequest /\ request' = [request EXCEPT ![r].stage = s] /\ form' = form
    BY <2>1 DEF Outcome
  <2>3. /\ request' \in [Requests -> CreatedRequest \cup {NoRequest}]
        /\ CreatedIsExecutable' /\ RequestsRight'
    BY <2>2, StageStep
  <2>4. Writers(WellFormed) /\ (OutdatedReads \/ (UNCHANGED <<preview, analysing>> /\ mapping' = mapping))
    BY <1>7 DEF ExecutionEnds, Writers, Abort
  <2>5. QED
    BY <2>2, <2>3, <2>4, WriteStep
<1>8. CASE OthersWrite
  <2>1. Writers(WellFormed) /\ OutdatedReads /\ form' = form /\ request' = request
    BY <1>8, FewerBodies, OtherBodiesAssumption DEF OthersWrite
  <2>2. CreatedIsExecutable' /\ RequestsRight'
    BY <2>1 DEF RequestInv, CreatedIsExecutable, RequestsRight
  <2>3. QED
    BY <1>0, <2>1, <2>2, WriteStep
<1>9. QED
  BY <1>1, <1>2, <1>3, <1>4, <1>5, <1>6, <1>7, <1>8 DEF FormNext

\* The notice is the gate's condition on the analysis that is shown.
LEMMA RequestInvRight == RequestInv => RequestFormIsRight
<1> SUFFICES ASSUME RequestInv PROVE RequestFormIsRight
  OBVIOUS
<1>1. NoticeForeseesGate
  BY DEF RequestInv, AnalysisRight, NoticeForeseesGate, Notice, GateRefuses, PreviewEnabled,
     AffectedCapabilityIds
<1>2. QED
  BY <1>1 DEF RequestInv, RequestFormIsRight

\* However the form of a change request came to its state, what it creates has the
\* shape that its type needs, nothing is moved to the root that the user did not send
\* there, and the notice of the current analysis is what the gate will decide.
THEOREM RequestFormCorrect == FormSpec => []RequestFormIsRight
<1>1. QED
  BY RequestInit, RequestStep, RequestInvRight, PTL DEF FormSpec

\* A row whose parent alone may differ.
LEMMA ParentOnly ==
    ASSUME NEW row \in Row, NEW p
    PROVE  /\ row = [row EXCEPT !.parentId = row.parentId]
           /\ [row EXCEPT !.parentId = p] = [row EXCEPT !.parentId = [row EXCEPT !.parentId = p].parentId]
  BY DEF Row

LEMMA LockedStep ==
    ASSUME RequestInv, NEW h \in Handlers, Structural(h), Executing(h), NEW c \in exists \ open[h].affected
    PROVE  /\ c \in exists'
           /\ capability'[c] = [capability[c] EXCEPT !.parentId = capability'[c].parentId]
<1> DEFINE b == open[h]
<1>1. c \in Capabilities /\ capability[c] \in Row /\ capability \in [Capabilities -> Row]
  BY DEF RequestInv, TypesOf
<1>2. b \in WellFormed
  BY DEF RequestInv, TypesOf, Structural, ApplyReparent, ApplyPromote, ApplyDemote, ApplyType, ApplyMerge,
     ApplyRetire, ApplyDelete, Applying
<1>3. b.op = "MERGE" => b.target \in b.affected
  <2>1. PICK r \in Requests : request[r] # NoRequest /\ b = BodyOf(request[r])
    BY DEF Executing
  <2>2. SurvivorAffected(request[r])
    BY <2>1 DEF RequestInv, RequestsRight
  <2>3. QED
    BY <2>1, <2>2 DEF SurvivorAffected, BodyOf
<1>4. b.op \notin {"MERGE", "RETIRE"} => c # Target(b)
  BY <1>2, TargetOf
<1>5. CASE ApplyReparent(h) \/ ApplyPromote(h) \/ ApplyDemote(h)
  <2>1. c # Target(b)
    BY <1>4, <1>5 DEF ApplyReparent, ApplyPromote, ApplyDemote, ApplyType, Applying
  <2>2. exists' = exists /\ capability'[c] = capability[c]
    BY <1>1, <1>5, <2>1 DEF ApplyReparent, ApplyPromote, ApplyDemote, ApplyType
  <2>3. QED
    BY <1>1, <2>2, ParentOnly
<1>6. CASE ApplyMerge(h)
  <2>1. c \notin Sources(b) /\ c # b.target
    BY <1>3, <1>6 DEF ApplyMerge, Applying, Sources
  <2> DEFINE p == IF c \in exists /\ capability[c].parentId \in Sources(b) THEN b.target ELSE capability[c].parentId
  <2>2. capability'[c] = [capability[c] EXCEPT !.parentId = p,
                            !.lifecycleStatus = capability[c].lifecycleStatus, !.tags = capability[c].tags]
    BY <1>1, <1>6, <2>1 DEF ApplyMerge
  <2> HIDE DEF p
  <2>3. [capability[c] EXCEPT !.parentId = p,
            !.lifecycleStatus = capability[c].lifecycleStatus, !.tags = capability[c].tags]
          = [capability[c] EXCEPT !.parentId = p]
    BY <1>1 DEF Row
  <2>4. capability'[c] = [capability[c] EXCEPT !.parentId = p]
    BY <2>2, <2>3
  <2>5. exists' = exists
    BY <1>6 DEF ApplyMerge
  <2>6. QED
    BY <1>1, <2>4, <2>5, ParentOnly
<1>7. CASE ApplyRetire(h)
  <2>1. exists' = exists /\ capability'[c] = [capability[c] EXCEPT !.lifecycleStatus = capability[c].lifecycleStatus]
    BY <1>1, <1>7 DEF ApplyRetire
  <2>2. [capability[c] EXCEPT !.lifecycleStatus = capability[c].lifecycleStatus] = capability[c]
    BY <1>1 DEF Row
  <2>3. QED
    BY <1>1, <2>1, <2>2, ParentOnly
<1>8. CASE ApplyDelete(h)
  <2>1. c # Target(b)
    BY <1>4, <1>8 DEF ApplyDelete, Applying
  <2> DEFINE p == SetNull(capability[c].parentId, Target(b))
  <2>2. c \in exists' /\ capability'[c] = [capability[c] EXCEPT !.parentId = p]
    BY <1>1, <1>8, <2>1 DEF ApplyDelete, Delete
  <2> HIDE DEF p
  <2>3. QED
    BY <1>1, <2>2, ParentOnly
<1>9. QED
  BY <1>5, <1>6, <1>7, <1>8 DEF Structural

\* An execution changes of a capability that is not affected nothing but the parent:
\* the server locks what is affected, and the survivor of a merge is among it because
\* the form takes it from the selection and clears it when it is deselected.
THEOREM OnlyLockedWritten == FormSpec => WritesOnlyLocked
<1>1. RequestInv =>
        [\A h \in Handlers : Structural(h) /\ Executing(h) =>
           \A c \in exists \ open[h].affected :
             c \in exists' /\ capability'[c] = [capability[c] EXCEPT !.parentId = capability'[c].parentId]]_requestFormVars
  BY LockedStep
<1>2. QED
  BY <1>1, RequestInit, RequestStep, PTL DEF FormSpec, WritesOnlyLocked

-----------------------------------------------------------------------------
(* The form of a capability *)

\* What was read and not disturbed since is what the tables hold.
AnswerRight(d) ==
    d # NoDetail /\ d.quiet => d.row = capability[d.of] /\ d.children = IncludedChildren(d.of)

\* The cached answer is of the page's capability.
AnswerOfPage == editor # NoEditor /\ detail # NoDetail => detail.of = editor.of

\* An answer between which and the cached one nothing was committed is equal to it.
SameAnswers ==
    detail # NoDetail /\ reading # NoDetail /\ reading.same =>
      reading.row = detail.row /\ reading.children = detail.children

\* What the user has left alone is what the cached answer has.
FilledFromAnswer ==
    editor # NoEditor /\ editor.on = "EDIT" /\ detail # NoDetail =>
      \A f \in FormColumns \ editor.edited : editor.values[f] = InitialValues(detail.row)[f]

EditedIsShown ==
    editor # NoEditor /\ editor.on = "EDIT" /\ editor.edited # {} => detail # NoDetail

\* The page that follows a save has read after it, or not at all.
SavedAnswers ==
    editor # NoEditor /\ editor.on = "DETAIL" =>
      /\ ~editor.saving /\ ~editor.committed
      /\ detail # NoDetail => detail.current
      /\ reading # NoDetail => reading.current

EditorInv ==
    /\ TypesOf /\ EditorTypeOK
    /\ AnswerRight(detail) /\ AnswerRight(reading)
    /\ AnswerOfPage /\ SameAnswers
    /\ FilledFromAnswer /\ EditedIsShown /\ SavedAnswers

LEMMA EditorInitRight == Init /\ EditorInit => EditorInv
  BY InitTypes DEF EditorInit, EditorInv, EditorTypeOK, AnswerRight, AnswerOfPage, SameAnswers,
     FilledFromAnswer, EditedIsShown, SavedAnswers

\* What an answer was compared with does not change while the tables do not.
LEMMA SameTables ==
    ASSUME exists' = exists, capability' = capability
    PROVE  \A c \in Capabilities : IncludedChildren(c)' = IncludedChildren(c)
  BY DEF IncludedChildren, Parent

LEMMA InitialValuesTyped ==
    ASSUME NEW row \in Row
    PROVE  InitialValues(row) \in CapabilityFormValues
  BY DEF InitialValues, CapabilityFormValues, Row

LEMMA NewRowTyped == NewRow \in Row
  BY DEF NewRow, Row, Parents, CapabilityType, LifecycleStatus

LEMMA AnswerTyped ==
    ASSUME EditorInv, NEW c \in Capabilities
    PROVE  FindOne(c) \in Detail
<1>1. capability \in [Capabilities -> Row] /\ (detail # NoDetail => detail \in Detail)
  BY DEF EditorInv, TypesOf, EditorTypeOK
<1>2. IncludedChildren(c) \in [Capabilities -> SUBSET CapabilityType]
  BY <1>1 DEF IncludedChildren, Row
<1>3. (detail # NoDetail /\ detail.quiet) \in BOOLEAN
  OBVIOUS
<1>4. QED
  BY <1>1, <1>2, <1>3 DEF FindOne, Detail

\* The steps of the page that leave the tables alone.
LEMMA OpenStepRight ==
    ASSUME EditorInv, OpenEditor
    PROVE  EditorInv'
<1>1. PICK c \in Capabilities : EditCapability(c) \/ CreateNew(c)
  BY DEF OpenEditor
<1>2. UNCHANGED <<vars, reading>> /\ exists' = exists /\ capability' = capability
  BY DEF OpenEditor, vars
<1>3. TypesOf'
  BY <1>2, SameTypes DEF EditorInv
<1>4. detail' \in {detail, NoDetail} /\ (detail # NoDetail => detail \in Detail)
      /\ (reading # NoDetail => reading \in Detail)
  BY <1>1 DEF EditCapability, CreateNew, EditorInv, EditorTypeOK
<1>5. AnswerRight(detail)' /\ AnswerRight(reading)'
  <2>1. CASE detail' = detail
    BY <1>2, <1>4, <2>1, SameTables DEF EditorInv, AnswerRight, Detail
  <2>2. CASE detail' = NoDetail
    BY <1>2, <1>4, <2>2, SameTables DEF EditorInv, AnswerRight, Detail
  <2>3. QED
    BY <1>4, <2>1, <2>2
<1>6. SameAnswers'
  BY <1>2, <1>4 DEF EditorInv, SameAnswers
<1>7. CASE EditCapability(c)
  <2> DEFINE row == IF detail # NoDetail /\ detail.of = c THEN detail.row ELSE NewRow
  <2>1. row \in Row
    BY <1>4, NewRowTyped DEF Detail
  <2>2. editor' = OpenPage("EDIT", c, row) /\ (detail' # NoDetail => detail'.of = c /\ row = detail'.row)
    BY <1>7 DEF EditCapability
  <2> HIDE DEF row
  <2>3. editor' \in Editor /\ editor'.on = "EDIT" /\ editor'.of = c
        /\ editor'.values = InitialValues(row) /\ editor'.edited = {}
    BY <2>1, <2>2, InitialValuesTyped DEF OpenPage, Editor
  <2>4. EditorTypeOK'
    BY <1>2, <1>4, <2>3 DEF EditorInv, EditorTypeOK
  <2>5. AnswerOfPage' /\ FilledFromAnswer' /\ EditedIsShown' /\ SavedAnswers'
    BY <2>2, <2>3 DEF AnswerOfPage, FilledFromAnswer, EditedIsShown, SavedAnswers, InitialValues
  <2>6. QED
    BY <1>3, <1>5, <1>6, <2>4, <2>5 DEF EditorInv
<1>8. CASE CreateNew(c)
  <2>1. editor' = OpenPage("CREATE", c, NewRow) /\ detail' = NoDetail
    BY <1>8 DEF CreateNew
  <2>2. NewRow \in Row
    BY NewRowTyped
  <2>3. editor' \in Editor /\ editor'.on = "CREATE"
    BY <2>1, <2>2, InitialValuesTyped DEF OpenPage, Editor
  <2>4. EditorTypeOK'
    BY <1>2, <1>4, <2>3 DEF EditorInv, EditorTypeOK
  <2>5. AnswerOfPage' /\ FilledFromAnswer' /\ EditedIsShown' /\ SavedAnswers'
    BY <2>1, <2>3 DEF AnswerOfPage, FilledFromAnswer, EditedIsShown, SavedAnswers
  <2>6. QED
    BY <1>3, <1>5, <1>6, <2>4, <2>5 DEF EditorInv
<1>9. QED
  BY <1>1, <1>7, <1>8

LEMMA CloseStepRight ==
    ASSUME EditorInv, CloseEditor
    PROVE  EditorInv'
<1>1. editor' = NoEditor /\ UNCHANGED <<vars, detail, reading>> /\ exists' = exists /\ capability' = capability
  BY DEF CloseEditor, vars
<1>2. TypesOf' /\ EditorTypeOK'
  BY <1>1, SameTypes DEF EditorInv, EditorTypeOK
<1>3. AnswerRight(detail)' /\ AnswerRight(reading)'
  BY <1>1, SameTables DEF EditorInv, EditorTypeOK, AnswerRight, Detail
<1>4. QED
  BY <1>1, <1>2, <1>3 DEF EditorInv, AnswerOfPage, SameAnswers, FilledFromAnswer, EditedIsShown, SavedAnswers

LEMMA ReadStepRight ==
    ASSUME EditorInv, ReadDetail
    PROVE  EditorInv'
<1> DEFINE c == editor.of
<1>1. /\ editor # NoEditor /\ c \in exists /\ reading' = FindOne(c)
      /\ UNCHANGED <<vars, editor, detail>> /\ exists' = exists /\ capability' = capability
  BY DEF ReadDetail, vars
<1>2. c \in Capabilities
  BY <1>1 DEF EditorInv, TypesOf
<1>3. TypesOf'
  BY <1>1, SameTypes DEF EditorInv
<1>4. reading' \in Detail
  BY <1>1, <1>2, AnswerTyped
<1>5. EditorTypeOK'
  BY <1>1, <1>4 DEF EditorInv, EditorTypeOK
<1>6. AnswerRight(detail)'
  BY <1>1, SameTables DEF EditorInv, EditorTypeOK, AnswerRight, Detail
<1>7. /\ reading'.row = capability[c] /\ reading'.children = IncludedChildren(c) /\ reading'.of = c
      /\ reading'.same = (detail # NoDetail /\ detail.quiet) /\ reading'.current = TRUE
  BY <1>1 DEF FindOne
<1>8. AnswerRight(reading)'
  BY <1>1, <1>2, <1>7, SameTables DEF AnswerRight
<1>9. SameAnswers'
  BY <1>1, <1>7 DEF EditorInv, SameAnswers, AnswerRight, AnswerOfPage
<1>10. AnswerOfPage' /\ FilledFromAnswer' /\ EditedIsShown' /\ SavedAnswers'
  BY <1>1, <1>7 DEF EditorInv, AnswerOfPage, FilledFromAnswer, EditedIsShown, SavedAnswers
<1>11. QED
  BY <1>3, <1>5, <1>6, <1>8, <1>9, <1>10 DEF EditorInv

\* An answer that is equal to the one before fills the form anew only if something
\* was committed in between.
LEMMA ArriveStepRight ==
    ASSUME EditorInv, DetailArrives
    PROVE  EditorInv'
<1>1. reading # NoDetail /\ reading' = NoDetail /\ UNCHANGED vars /\ exists' = exists /\ capability' = capability
  BY DEF DetailArrives, vars
<1>2. TypesOf'
  BY <1>1, SameTypes DEF EditorInv
<1>3. reading \in Detail /\ detail \in Detail \cup {NoDetail} /\ editor \in Editor \cup {NoEditor}
  BY <1>1 DEF EditorInv, EditorTypeOK
<1>4. AnswerRight(reading)' /\ SameAnswers'
  BY <1>1 DEF AnswerRight, SameAnswers
<1>5. CASE editor = NoEditor \/ editor.of # reading.of
  <2>1. editor' = editor /\ detail' = detail
    BY <1>5 DEF DetailArrives
  <2>2. AnswerRight(detail)'
    BY <1>1, <1>3, <2>1, SameTables DEF EditorInv, AnswerRight, Detail
  <2>3. EditorTypeOK'
    BY <1>1, <2>1 DEF EditorInv, EditorTypeOK
  <2>4. AnswerOfPage' /\ FilledFromAnswer' /\ EditedIsShown' /\ SavedAnswers'
    BY <1>1, <2>1 DEF EditorInv, AnswerOfPage, FilledFromAnswer, EditedIsShown, SavedAnswers
  <2>5. QED
    BY <1>2, <1>4, <2>2, <2>3, <2>4 DEF EditorInv
<1>6. CASE editor # NoEditor /\ editor.of = reading.of
  <2>1. PICK refill \in Refills(reading) :
             editor' = IF editor.on = "EDIT" /\ refill THEN Refilled(reading.row) ELSE editor
    BY <1>6 DEF DetailArrives
  <2>2. detail' = reading
    BY <1>6 DEF DetailArrives
  <2>3. AnswerRight(detail)'
    BY <1>1, <1>3, <2>2, SameTables DEF EditorInv, AnswerRight, Detail
  <2>4. CASE editor.on = "EDIT" /\ refill
    <3>1. editor' = [editor EXCEPT !.values = InitialValues(reading.row), !.edited = {}]
      BY <2>1, <2>4 DEF Refilled
    <3>2. reading.row \in Row
      BY <1>3 DEF Detail
    <3> DEFINE v == InitialValues(reading.row)
    <3>3. v \in CapabilityFormValues
      BY <3>2, InitialValuesTyped
    <3> HIDE DEF v
    <3>4. editor' \in Editor /\ editor'.values = v /\ editor'.edited = {} /\ editor'.of = editor.of /\ editor'.on = "EDIT"
      BY <1>3, <1>6, <2>4, <3>1, <3>3 DEF Editor, v
    <3>5. EditorTypeOK'
      BY <1>1, <1>3, <2>2, <3>4 DEF EditorTypeOK
    <3>6. AnswerOfPage' /\ FilledFromAnswer' /\ EditedIsShown' /\ SavedAnswers'
      BY <1>6, <2>2, <3>4 DEF AnswerOfPage, FilledFromAnswer, EditedIsShown, SavedAnswers, v
    <3>7. QED
      BY <1>2, <1>4, <2>3, <3>5, <3>6 DEF EditorInv
  <2>5. CASE ~(editor.on = "EDIT" /\ refill)
    <3>1. editor' = editor
      BY <2>1, <2>5
    <3>2. EditorTypeOK'
      BY <1>1, <1>3, <2>2, <3>1 DEF EditorTypeOK
    <3>3. AnswerOfPage' /\ EditedIsShown'
      BY <1>1, <1>6, <2>2, <3>1 DEF EditorInv, AnswerOfPage, EditedIsShown
    <3>4. SavedAnswers'
      BY <1>1, <2>2, <3>1 DEF EditorInv, SavedAnswers
    <3>5. FilledFromAnswer'
      <4>1. CASE editor.on # "EDIT"
        BY <3>1, <4>1 DEF FilledFromAnswer
      <4>2. CASE editor.on = "EDIT"
        <5>1. detail # NoDetail /\ reading.row = detail.row
          BY <2>1, <2>5, <4>2 DEF Refills
        <5>2. QED
          BY <2>2, <3>1, <5>1 DEF EditorInv, FilledFromAnswer
      <4>3. QED
        BY <4>1, <4>2
    <3>6. QED
      BY <1>2, <1>4, <2>3, <3>2, <3>3, <3>4, <3>5 DEF EditorInv
  <2>6. QED
    BY <2>4, <2>5
<1>7. QED
  BY <1>5, <1>6

\* A field that is typed into counts as edited.
LEMMA TypeIntoStepRight ==
    ASSUME EditorInv, UpdateValue
    PROVE  EditorInv'
<1>1. UNCHANGED <<vars, detail, reading>> /\ exists' = exists /\ capability' = capability
  BY DEF UpdateValue, vars
<1>2. TypesOf' /\ exists \subseteq Capabilities
  BY <1>1, SameTypes DEF EditorInv, TypesOf
<1>3. editor # NoEditor /\ editor \in Editor /\ (editor.on = "CREATE" \/ (editor.on = "EDIT" /\ detail # NoDetail))
  BY DEF UpdateValue, FormShown, EditorInv, EditorTypeOK
<1>4. PICK column, value :
        /\ column \in FormColumns /\ SetValue(column, value)
        /\ [editor.values EXCEPT ![column] = value] \in CapabilityFormValues
  <2>1. editor.values \in CapabilityFormValues
    BY <1>3 DEF Editor
  <2>2. ASSUME NEW p \in (exists \ {editor.of}) \cup {NoParent}
        PROVE  [editor.values EXCEPT !["parentId"] = p] \in CapabilityFormValues
    BY <1>2, <2>1 DEF CapabilityFormValues, Parents
  <2>3. ASSUME NEW t \in CapabilityType
        PROVE  [editor.values EXCEPT !["type"] = t] \in CapabilityFormValues
    BY <2>1 DEF CapabilityFormValues
  <2>4. ASSUME NEW s \in LifecycleStatus
        PROVE  [editor.values EXCEPT !["lifecycleStatus"] = s] \in CapabilityFormValues
    BY <2>1 DEF CapabilityFormValues
  <2>5. ASSUME NEW T \in SUBSET Tags
        PROVE  [editor.values EXCEPT !["tags"] = T] \in CapabilityFormValues
    BY <2>1 DEF CapabilityFormValues
  <2>6. "parentId" \in FormColumns /\ "type" \in FormColumns /\ "lifecycleStatus" \in FormColumns /\ "tags" \in FormColumns
    BY DEF FormColumns
  <2>7. QED
    BY <2>2, <2>3, <2>4, <2>5, <2>6 DEF UpdateValue
<1>5. /\ editor'.on = editor.on /\ editor'.of = editor.of
      /\ editor'.edited = editor.edited \cup {column}
      /\ \A f \in FormColumns \ {column} : editor'.values[f] = editor.values[f]
      /\ editor' \in Editor
  <2> DEFINE v == [editor.values EXCEPT ![column] = value]
  <2>1. editor' = [editor EXCEPT !.values = v, !.edited = editor.edited \cup {column}]
    BY <1>3, <1>4 DEF SetValue, Editor
  <2>2. v \in CapabilityFormValues
    BY <1>4
  <2>3. \A f \in FormColumns \ {column} : v[f] = editor.values[f]
    BY <1>3 DEF Editor, CapabilityFormValues, FormColumns
  <2> HIDE DEF v
  <2>4. QED
    BY <1>3, <1>4, <2>1, <2>2, <2>3 DEF Editor
<1>6. AnswerRight(detail)' /\ AnswerRight(reading)'
  BY <1>1, SameTables DEF EditorInv, EditorTypeOK, AnswerRight, Detail
<1>7. EditorTypeOK' /\ SameAnswers'
  BY <1>1, <1>5 DEF EditorInv, EditorTypeOK, SameAnswers
<1>8. AnswerOfPage' /\ EditedIsShown' /\ SavedAnswers'
  BY <1>1, <1>3, <1>5 DEF EditorInv, AnswerOfPage, EditedIsShown, SavedAnswers
<1>9. FilledFromAnswer'
  BY <1>1, <1>3, <1>5 DEF EditorInv, FilledFromAnswer
<1>10. QED
  BY <1>2, <1>6, <1>7, <1>8, <1>9 DEF EditorInv

\* The steps that change of the page no more than how far its save is.
LEMMA SaveFlagsRight ==
    ASSUME EditorInv, editor # NoEditor, TypesOf',
           NEW s \in BOOLEAN, NEW k \in BOOLEAN,
           editor' = [editor EXCEPT !.saving = s, !.committed = k],
           editor.on # "DETAIL" \/ editor' = editor,
           EditorTypeOK' ,
           AnswerRight(detail)', AnswerRight(reading)',
           detail # NoDetail <=> detail' # NoDetail, reading # NoDetail <=> reading' # NoDetail,
           detail # NoDetail => detail'.of = detail.of /\ detail'.row = detail.row
                                /\ detail'.children = detail.children /\ detail'.same = detail.same,
           reading # NoDetail => reading'.of = reading.of /\ reading'.row = reading.row
                                /\ reading'.children = reading.children /\ reading'.same = reading.same,
           editor.on = "DETAIL" => (detail # NoDetail => detail'.current = detail.current)
                                   /\ (reading # NoDetail => reading'.current = reading.current)
    PROVE  EditorInv'
<1>1. editor \in Editor
  BY DEF EditorInv, EditorTypeOK
<1>2. editor'.on = editor.on /\ editor'.of = editor.of /\ editor'.values = editor.values /\ editor'.edited = editor.edited
  BY <1>1 DEF Editor
<1>3. AnswerOfPage' /\ SameAnswers' /\ FilledFromAnswer' /\ EditedIsShown'
  BY <1>2 DEF EditorInv, AnswerOfPage, SameAnswers, FilledFromAnswer, EditedIsShown
<1>4. SavedAnswers'
  BY <1>2 DEF EditorInv, SavedAnswers
<1>5. QED
  BY <1>3, <1>4 DEF EditorInv

\* What an UPDATE or a CREATE of the form asks for is what a writer may be asked.
LEMMA SaveBodyWellFormed ==
    ASSUME EditorInv, editor # NoEditor
    PROVE  SaveBody \in WellFormed
<1>1. editor.of \in Capabilities /\ editor.values \in CapabilityFormValues
  BY DEF EditorInv, EditorTypeOK, Editor
<1>2. SplitMultiValueField(editor.values.tags) \in SUBSET Tags
  BY <1>1, SplitAssumption DEF SplitMultiValueField, CapabilityFormValues
<1>3. CapabilityInput(editor.values) \in Row
  BY <1>1, <1>2 DEF CapabilityInput, Row, CapabilityFormValues
<1>4. FormColumns \in SUBSET Fields
  BY DEF FormColumns, Fields
<1>5. SaveBody \in Body
  BY <1>1, <1>3, <1>4 DEF SaveBody, Body, Parents
<1>6. SaveBody.op \in {"CREATE", "UPDATE"} /\ SaveBody.affected = {editor.of}
  BY DEF SaveBody
<1>7. QED
  BY <1>1, <1>5, <1>6 DEF WellFormed

LEMMA SubmitStepRight ==
    ASSUME EditorInv, NEW h \in Handlers, HandleSubmit(h)
    PROVE  EditorInv'
<1>1. /\ FormShown /\ Begin(h, SaveBody) /\ editor' = [editor EXCEPT !.saving = TRUE]
      /\ UNCHANGED <<detail, reading, exists, capability>>
  BY DEF HandleSubmit, Begin
<1>2. editor # NoEditor /\ editor \in Editor /\ editor.on # "DETAIL"
  BY <1>1 DEF FormShown, EditorInv, EditorTypeOK
<1>3. TypesOf'
  BY <1>1, <1>2, SaveBodyWellFormed, WritersTypes DEF EditorInv, Writers
<1>4. editor' = [editor EXCEPT !.saving = TRUE, !.committed = editor.committed] /\ editor' \in Editor
      /\ editor.committed \in BOOLEAN
  BY <1>1, <1>2 DEF Editor
<1>5. EditorTypeOK'
  BY <1>1, <1>4 DEF EditorInv, EditorTypeOK
<1>6. AnswerRight(detail)' /\ AnswerRight(reading)'
  BY <1>1, SameTables DEF EditorInv, EditorTypeOK, AnswerRight, Detail
<1>7. QED
  BY <1>1, <1>2, <1>3, <1>4, <1>5, <1>6, SaveFlagsRight

\* A write makes both answers disturbed, or leaves the tables and them alone.
LEMMA DisturbedRight ==
    ASSUME NEW d \in Detail \cup {NoDetail}, NEW e, e \in {Disturbed(d), Overwritten(d)}
    PROVE  /\ e \in Detail \cup {NoDetail} /\ (d # NoDetail => e \in Detail /\ e.quiet = FALSE)
           /\ e.of = d.of /\ e.row = d.row /\ e.children = d.children /\ e.same = d.same
           /\ e = Disturbed(d) => e.current = d.current
           /\ d = NoDetail <=> e = NoDetail
<1>1. CASE d = NoDetail
  BY <1>1, NoDetailAssumption DEF Disturbed, Overwritten
<1>2. CASE d # NoDetail
  BY <1>2, NoDetailAssumption DEF Disturbed, Overwritten, Detail
<1>3. QED
  BY <1>1, <1>2

LEMMA CommitStepRight ==
    ASSUME EditorInv, NEW h \in Handlers, SaveCommits(h)
    PROVE  EditorInv'
<1>1. /\ editor # NoEditor /\ editor.saving
      /\ UpdateCapability(h) \/ CreateCapability(h)
      /\ editor' = [editor EXCEPT !.committed = TRUE]
      /\ detail' = Overwritten(detail) /\ reading' = Overwritten(reading)
  BY DEF SaveCommits, Saving
<1>2. editor \in Editor /\ editor.on # "DETAIL" /\ editor.saving \in BOOLEAN
  BY <1>1 DEF EditorInv, EditorTypeOK, SavedAnswers, Editor
<1>3. TypesOf'
  BY <1>1, WritersTypes DEF EditorInv, Writers
<1>4. editor' = [editor EXCEPT !.saving = editor.saving, !.committed = TRUE] /\ editor' \in Editor
  BY <1>1, <1>2 DEF Editor
<1>5. detail \in Detail \cup {NoDetail} /\ reading \in Detail \cup {NoDetail}
  BY DEF EditorInv, EditorTypeOK
<1>6. /\ detail' \in Detail \cup {NoDetail} /\ (detail # NoDetail => detail'.quiet = FALSE)
      /\ detail'.of = detail.of /\ detail'.row = detail.row /\ detail'.children = detail.children
      /\ detail'.same = detail.same /\ (detail = NoDetail <=> detail' = NoDetail)
  BY <1>1, <1>5, DisturbedRight
<1>7. /\ reading' \in Detail \cup {NoDetail} /\ (reading # NoDetail => reading'.quiet = FALSE)
      /\ reading'.of = reading.of /\ reading'.row = reading.row /\ reading'.children = reading.children
      /\ reading'.same = reading.same /\ (reading = NoDetail <=> reading' = NoDetail)
  BY <1>1, <1>5, DisturbedRight
<1>8. EditorTypeOK' /\ AnswerRight(detail)' /\ AnswerRight(reading)'
  BY <1>4, <1>6, <1>7 DEF EditorTypeOK, AnswerRight
<1>9. QED
  BY <1>1, <1>2, <1>3, <1>4, <1>6, <1>7, <1>8, SaveFlagsRight

LEMMA FailStepRight ==
    ASSUME EditorInv, NEW h \in Handlers, SaveFails(h)
    PROVE  EditorInv'
<1>1. /\ editor # NoEditor /\ editor.saving /\ Abort(h)
      /\ editor' = [editor EXCEPT !.saving = FALSE]
      /\ UNCHANGED <<detail, reading, exists, capability>>
  BY DEF SaveFails, Saving, Abort
<1>2. editor \in Editor /\ editor.on # "DETAIL" /\ editor.committed \in BOOLEAN
  BY <1>1 DEF EditorInv, EditorTypeOK, SavedAnswers, Editor
<1>3. TypesOf'
  BY <1>1, WritersTypes DEF EditorInv, Writers
<1>4. editor' = [editor EXCEPT !.saving = FALSE, !.committed = editor.committed] /\ editor' \in Editor
  BY <1>1, <1>2 DEF Editor
<1>5. EditorTypeOK'
  BY <1>1, <1>4 DEF EditorInv, EditorTypeOK
<1>6. AnswerRight(detail)' /\ AnswerRight(reading)'
  BY <1>1, SameTables DEF EditorInv, EditorTypeOK, AnswerRight, Detail
<1>7. QED
  BY <1>1, <1>2, <1>3, <1>4, <1>5, <1>6, SaveFlagsRight

LEMMA LostStepRight ==
    ASSUME EditorInv, SaveAnswerLost
    PROVE  EditorInv'
<1>1. /\ editor # NoEditor /\ editor.committed
      /\ editor' = [editor EXCEPT !.saving = FALSE, !.committed = FALSE]
      /\ UNCHANGED <<vars, detail, reading>> /\ exists' = exists /\ capability' = capability
  BY DEF SaveAnswerLost, vars
<1>2. editor \in Editor /\ editor.on # "DETAIL"
  BY <1>1 DEF EditorInv, EditorTypeOK, SavedAnswers
<1>3. TypesOf' /\ editor' \in Editor
  BY <1>1, <1>2, SameTypes DEF EditorInv, Editor
<1>4. EditorTypeOK'
  BY <1>1, <1>3 DEF EditorInv, EditorTypeOK
<1>5. AnswerRight(detail)' /\ AnswerRight(reading)'
  BY <1>1, SameTables DEF EditorInv, EditorTypeOK, AnswerRight, Detail
<1>6. QED
  BY <1>1, <1>2, <1>3, <1>4, <1>5, SaveFlagsRight

LEMMA SucceedStepRight ==
    ASSUME EditorInv, SaveSucceeds
    PROVE  EditorInv'
<1>1. /\ editor # NoEditor
      /\ editor' = [editor EXCEPT !.on = "DETAIL", !.saving = FALSE, !.committed = FALSE]
      /\ detail' = NoDetail /\ reading' = NoDetail /\ UNCHANGED vars
  BY DEF SaveSucceeds, RemoveQueries
<1>2. editor \in Editor
  BY <1>1 DEF EditorInv, EditorTypeOK
<1>3. editor' \in Editor /\ editor'.on = "DETAIL" /\ editor'.saving = FALSE /\ editor'.committed = FALSE
  BY <1>1, <1>2 DEF Editor
<1>4. TypesOf' /\ EditorTypeOK'
  BY <1>1, <1>3, SameTypes DEF EditorInv, EditorTypeOK
<1>5. AnswerRight(detail)' /\ AnswerRight(reading)' /\ AnswerOfPage' /\ SameAnswers'
  BY <1>1 DEF AnswerRight, AnswerOfPage, SameAnswers
<1>6. FilledFromAnswer' /\ EditedIsShown' /\ SavedAnswers'
  BY <1>1, <1>3 DEF FilledFromAnswer, EditedIsShown, SavedAnswers
<1>7. QED
  BY <1>4, <1>5, <1>6 DEF EditorInv

LEMMA OthersStepRight ==
    ASSUME EditorInv, OthersSave
    PROVE  EditorInv'
<1>1. Writers(WellFormed) /\ editor' = editor
  BY FewerBodies, MeantimeAssumption DEF OthersSave
<1>2. TypesOf'
  BY <1>1, WritersTypes DEF EditorInv
<1>3. detail \in Detail \cup {NoDetail} /\ reading \in Detail \cup {NoDetail}
  BY DEF EditorInv, EditorTypeOK
<1>4. CASE exists' = exists /\ capability' = capability
  <2>1. detail' = detail /\ reading' = reading
    BY <1>4 DEF OthersSave
  <2>2. EditorTypeOK'
    BY <1>1, <2>1 DEF EditorInv, EditorTypeOK
  <2>3. AnswerRight(detail)' /\ AnswerRight(reading)'
    BY <1>3, <1>4, <2>1, SameTables DEF EditorInv, AnswerRight, Detail
  <2>4. QED
    BY <1>1, <1>2, <2>1, <2>2, <2>3
       DEF EditorInv, AnswerOfPage, SameAnswers, FilledFromAnswer, EditedIsShown, SavedAnswers
<1>5. CASE ~(exists' = exists /\ capability' = capability)
  <2>1. detail' = Disturbed(detail) /\ reading' = Disturbed(reading)
    BY <1>5 DEF OthersSave
  <2>2. /\ detail' \in Detail \cup {NoDetail} /\ (detail # NoDetail => detail'.quiet = FALSE)
        /\ detail'.of = detail.of /\ detail'.row = detail.row /\ detail'.children = detail.children
        /\ detail'.same = detail.same /\ (detail = NoDetail <=> detail' = NoDetail)
        /\ detail'.current = detail.current
    BY <1>3, <2>1, DisturbedRight
  <2>3. /\ reading' \in Detail \cup {NoDetail} /\ (reading # NoDetail => reading'.quiet = FALSE)
        /\ reading'.of = reading.of /\ reading'.row = reading.row /\ reading'.children = reading.children
        /\ reading'.same = reading.same /\ (reading = NoDetail <=> reading' = NoDetail)
        /\ reading'.current = reading.current
    BY <1>3, <2>1, DisturbedRight
  <2>4. EditorTypeOK' /\ AnswerRight(detail)' /\ AnswerRight(reading)'
    BY <1>1, <2>2, <2>3 DEF EditorInv, EditorTypeOK, AnswerRight
  <2>5. AnswerOfPage' /\ SameAnswers' /\ FilledFromAnswer' /\ EditedIsShown' /\ SavedAnswers'
    BY <1>1, <2>2, <2>3
       DEF EditorInv, AnswerOfPage, SameAnswers, FilledFromAnswer, EditedIsShown, SavedAnswers
  <2>6. QED
    BY <1>2, <2>4, <2>5 DEF EditorInv
<1>6. QED
  BY <1>4, <1>5

LEMMA EditorStep == EditorInv /\ [EditorNext]_editorVars => EditorInv'
<1> SUFFICES ASSUME EditorInv, [EditorNext]_editorVars PROVE EditorInv'
  OBVIOUS
<1>1. CASE UNCHANGED editorVars
  <2>1. UNCHANGED <<vars, editor, detail, reading>> /\ exists' = exists /\ capability' = capability
    BY <1>1 DEF editorVars, vars
  <2>2. TypesOf' /\ EditorTypeOK'
    BY <2>1, SameTypes DEF EditorInv, EditorTypeOK
  <2>3. AnswerRight(detail)' /\ AnswerRight(reading)'
    BY <2>1, SameTables DEF EditorInv, EditorTypeOK, AnswerRight, Detail
  <2>4. QED
    BY <2>1, <2>2, <2>3
       DEF EditorInv, AnswerOfPage, SameAnswers, FilledFromAnswer, EditedIsShown, SavedAnswers
<1>2. QED
  BY <1>1, OpenStepRight, CloseStepRight, ReadStepRight, ArriveStepRight, TypeIntoStepRight,
     SubmitStepRight, CommitStepRight, FailStepRight, SucceedStepRight, LostStepRight, OthersStepRight
     DEF EditorNext

\* The page of a capability that a successful save leads to never shows it as it was
\* before the save, because the save drops what was read and what is on its way.
THEOREM DetailCorrect == EditorSpec => []DetailIsRight
<1>1. EditorInv => DetailIsRight
  BY DEF EditorInv, DetailIsRight, SavedIsShown, SavedAnswers
<1>2. QED
  BY <1>1, EditorInitRight, EditorStep, PTL DEF EditorSpec

\* Of the two pages, the one that is open is right whatever is done on it and
\* meanwhile by others; the other shows nothing.
THEOREM FormsCorrect == FormsSpec => []FormsAreRight
<1>1. FormInit => RequestFormIsRight
  BY DEF FormInit, EmptyForm, RequestFormIsRight, FormTypeOK, FormFields, FormTypes, Parents,
     CreatedIsExecutable, NoticeForeseesGate
<1>2. EditorInit => DetailIsRight
  BY DEF EditorInit, DetailIsRight, EditorTypeOK, SavedIsShown
<1>3. QED
  BY <1>1, <1>2, RequestFormCorrect, DetailCorrect, PTL DEF FormsSpec, FormsAreRight

\* What a save sends of the fields the user left alone.
LEMMA SentRight ==
    ASSUME EditorInv, NEW h \in Handlers, HandleSubmit(h), editor.on = "EDIT", detail.quiet
    PROVE  LET sent == open'[h].row
               kept == capability[editor.of] IN
             /\ \A f \in {"parentId", "type", "lifecycleStatus"} \ editor.edited : sent[f] = kept[f]
             /\ "tags" \notin editor.edited => sent.tags = SplitMultiValueField(kept.tags)
<1> DEFINE kept == capability[editor.of]
<1>1. editor # NoEditor /\ detail # NoDetail /\ Begin(h, SaveBody)
  BY DEF HandleSubmit, FormShown
<1>2. open'[h].row = CapabilityInput(editor.values)
  BY <1>1 DEF Begin, EditorInv, TypesOf, SaveBody
<1>3. detail.of = editor.of /\ detail.row = kept
  BY <1>1 DEF EditorInv, AnswerOfPage, AnswerRight
<1>4. \A f \in FormColumns \ editor.edited : editor.values[f] = InitialValues(kept)[f]
  BY <1>1, <1>3 DEF EditorInv, FilledFromAnswer
<1>5. /\ "parentId" \notin editor.edited => editor.values.parentId = kept.parentId
      /\ "type" \notin editor.edited => editor.values.type = kept.type
      /\ "lifecycleStatus" \notin editor.edited => editor.values.lifecycleStatus = kept.lifecycleStatus
      /\ "tags" \notin editor.edited => editor.values.tags = kept.tags
  BY <1>4 DEF FormColumns, InitialValues
<1>6. QED
  BY <1>2, <1>5 DEF CapabilityInput

\* When nothing was committed since the capability was read, a save sends every column
\* that the user left alone as it is, but for entries that it splits, however often the
\* form was filled anew before.
THEOREM OnlyEditsSent == EditorSpec => SaveSendsOnlyEdits
<1>1. EditorInv =>
        [\A h \in Handlers :
           HandleSubmit(h) /\ editor.on = "EDIT" /\ detail.quiet =>
             LET sent == open'[h].row
                 kept == capability[editor.of] IN
               /\ \A f \in {"parentId", "type", "lifecycleStatus"} \ editor.edited : sent[f] = kept[f]
               /\ "tags" \notin editor.edited => sent.tags = SplitMultiValueField(kept.tags)]_editorVars
  BY SentRight
<1>2. QED
  BY <1>1, EditorInitRight, EditorStep, PTL DEF EditorSpec, SaveSendsOnlyEdits

\* A refetch takes away what the user has typed only if something was committed
\* between the two reads: else the answer is shared with the one before.
THEOREM TypedIsKept == EditorSpec => EditsSurvive
<1>1. EditorInv =>
        [DetailArrives /\ editor # NoEditor /\ editor.edited # {} => editor' = editor \/ ~reading.same]_editorVars
  <2> SUFFICES ASSUME EditorInv, DetailArrives, editor # NoEditor, editor.edited # {}, reading.same
               PROVE  editor' = editor
    OBVIOUS
  <2>1. CASE editor.of # reading.of \/ editor.on # "EDIT"
    BY <2>1 DEF DetailArrives
  <2>2. CASE editor.of = reading.of /\ editor.on = "EDIT"
    <3>1. detail # NoDetail /\ reading # NoDetail
      BY <2>2 DEF EditorInv, EditedIsShown, DetailArrives
    <3>2. reading.row = detail.row /\ reading.children = detail.children
      BY <3>1 DEF EditorInv, SameAnswers
    <3>3. Refills(reading) = {FALSE}
      BY <3>1, <3>2 DEF Refills
    <3>4. QED
      BY <2>2, <3>3 DEF DetailArrives
  <2>3. QED
    BY <2>1, <2>2
<1>2. QED
  BY <1>1, EditorInitRight, EditorStep, PTL DEF EditorSpec, EditsSurvive

-----------------------------------------------------------------------------
(* The reads that walk the hierarchy *)

\* Of some natural numbers one is the least.
LEMMA LeastNumber ==
    ASSUME NEW T, T \subseteq Nat, T # {}
    PROVE  \E n \in T : \A k \in T : n <= k
<1>1. PICK n \in T : \A k \in T : ~(<<k, n>> \in OpToRel(<, Nat))
  BY NatLessThanWellFounded, WFMin
<1>2. \A k \in T : ~(k < n)
  BY <1>1 DEF OpToRel
<1> QED
  BY <1>2

-----------------------------------------------------------------------------
(* The way up from a capability *)

\* What is visited from c is the least set with c that is closed under parents.
LEMMA VisitedLeast ==
    ASSUME NEW c, NEW S \in SUBSET exists, c \in S, Upward(S)
    PROVE  Visited(c) \subseteq S
  BY DEF Visited

\* It is c and what is visited from its parent.
LEMMA VisitedStep ==
    ASSUME TypeOK, NEW c \in exists
    PROVE  /\ Parent(c) = NoParent => Visited(c) = {c}
           /\ Parent(c) # NoParent => Parent(c) \in exists /\ Visited(c) = {c} \cup Visited(Parent(c))
<1>1. /\ c \in Visited(c) /\ Visited(c) \subseteq exists /\ Upward(Visited(c))
      /\ Parent(c) \in Visited(c) \cup {NoParent}
  BY VisitedUpward DEF Upward
<1>2. CASE Parent(c) = NoParent
  <2>1. Upward({c})
    BY <1>2 DEF Upward
  <2> QED
    BY <1>1, <1>2, <2>1, VisitedLeast
<1>3. CASE Parent(c) # NoParent
  <2> DEFINE p == Parent(c)
  <2>1. p \in exists
    BY <1>3 DEF TypeOK
  <2>2. p \in Visited(p) /\ Visited(p) \subseteq exists /\ Upward(Visited(p))
    BY <2>1, VisitedUpward DEF Upward
  <2>3. Upward({c} \cup Visited(p))
    BY <2>2 DEF Upward
  <2>4. Visited(c) \subseteq {c} \cup Visited(p)
    BY <2>2, <2>3, VisitedLeast
  <2>5. Visited(p) \subseteq Visited(c)
    BY <1>1, <1>3, VisitedLeast
  <2> QED
    BY <1>1, <1>3, <2>1, <2>4, <2>5
<1> QED
  BY <1>2, <1>3

\* From what is visited no more is visited.
LEMMA VisitedFurther ==
    ASSUME TypeOK, NEW c \in exists, NEW x \in Visited(c)
    PROVE  x \in exists /\ Visited(x) \subseteq Visited(c)
<1>1. Visited(c) \in SUBSET exists /\ Upward(Visited(c))
  BY VisitedUpward DEF Upward
<1> QED
  BY <1>1, VisitedLeast

\* In a forest no way up comes back.
LEMMA NoWayBack ==
    ASSUME TypeOK, Forest, NEW c \in exists, Parent(c) # NoParent
    PROVE  Parent(c) \in exists /\ c \notin Visited(Parent(c))
<1> DEFINE p == Parent(c)
           U == {x \in Visited(p) : c \in Visited(x)}
<1>1. p \in exists
  BY DEF TypeOK
<1>2. SUFFICES ASSUME c \in Visited(p) PROVE FALSE
  BY <1>1
<1>3. U \in (SUBSET exists) \ {{}}
  BY <1>1, <1>2, VisitedUpward
<1>4. PICK x \in U : Parent(x) \notin U
  BY <1>3 DEF Forest
<1>5. x \in exists /\ Parent(x) \in Visited(p) \cup {NoParent}
  BY <1>1, <1>4, VisitedUpward
<1>6. CASE x = c
  BY <1>1, <1>2, <1>4, <1>6, VisitedUpward
<1>7. CASE x # c
  <2>1. Parent(x) # NoParent /\ c \in Visited(Parent(x))
    BY <1>4, <1>5, <1>7, VisitedStep
  <2> QED
    BY <1>4, <1>5, <2>1
<1> QED
  BY <1>6, <1>7

\* Of two capabilities one at most is on the way up from the other.
LEMMA OneAbove ==
    ASSUME TypeOK, Forest, NEW a \in exists, NEW b \in exists, a \in Visited(b), b \in Visited(a)
    PROVE  a = b
<1> SUFFICES ASSUME a # b PROVE FALSE
  OBVIOUS
<1>1. Parent(a) # NoParent /\ b \in Visited(Parent(a))
  BY VisitedStep
<1>2. Parent(a) \in exists /\ a \notin Visited(Parent(a))
  BY <1>1, NoWayBack
<1> QED
  BY <1>1, <1>2, VisitedFurther

\* The way up ends at a root.
LEMMA RootAbove ==
    ASSUME TypeOK, Forest, NEW c \in exists
    PROVE  \E x \in Visited(c) : Parent(x) = NoParent
  BY VisitedUpward DEF Forest

\* What is below c: what holds c and all children of what it holds holds all of it.
Below(c) == {x \in exists : c \in Visited(x)}

LEMMA BelowLeast ==
    ASSUME TypeOK, NEW c \in exists, NEW S \in SUBSET exists, c \in S,
           \A x \in exists : Parent(x) \in S => x \in S
    PROVE  Below(c) \subseteq S
<1> SUFFICES ASSUME NEW x \in Below(c), x \notin S PROVE FALSE
  OBVIOUS
<1>1. Upward(exists \ S)
  BY DEF Upward, TypeOK
<1>2. Visited(x) \subseteq exists \ S
  BY <1>1, VisitedLeast DEF Below
<1> QED
  BY <1>2 DEF Below

LEMMA BelowClosed ==
    ASSUME TypeOK, NEW c \in exists
    PROVE  /\ c \in Below(c) /\ Below(c) \subseteq exists
           /\ \A x \in exists : Parent(x) \in Below(c) => x \in Below(c)
<1>1. ASSUME NEW x \in exists, Parent(x) \in Below(c) PROVE x \in Below(c)
  <2>1. Parent(x) \in exists /\ Parent(x) # NoParent /\ c \in Visited(Parent(x))
    BY <1>1, NullsAssumption DEF Below, TypeOK
  <2> QED
    BY <2>1, VisitedStep DEF Below
<1> QED
  BY <1>1, VisitedUpward DEF Below

-----------------------------------------------------------------------------
(* The walks *)

\* A path names what was read on the way up, each once.
WalkShape ==
    walk # NoWalk =>
      /\ walk.path \in Seq(Capabilities) /\ Len(walk.path) <= Cardinality(walk.seen)
      /\ walk.kind # "SUBTREE" =>
           /\ Len(walk.path) = Cardinality(walk.seen)
           /\ walk.at \subseteq Capabilities /\ (walk.result = "READING" => walk.at \cap walk.seen = {})

LEMMA SeenFinite ==
    ASSUME NEW S \in SUBSET Capabilities
    PROVE  IsFiniteSet(S) /\ Cardinality(S) \in 0..Cardinality(Capabilities)
<1>1. IsFiniteSet(S) /\ Cardinality(S) <= Cardinality(Capabilities)
  BY TablesAssumption, FS_Subset
<1>2. Cardinality(S) \in Nat /\ Cardinality(Capabilities) \in Nat
  BY <1>1, TablesAssumption, FS_CardinalityType
<1> QED
  BY <1>1, <1>2

LEMMA PathsTyped ==
    ASSUME NEW p \in Seq(Capabilities), Len(p) \in 0..Cardinality(Capabilities)
    PROVE  p \in UNION {[1..n -> Capabilities] : n \in 0..Cardinality(Capabilities)}
  OBVIOUS

LEMMA WalkFields ==
    ASSUME walk \in Walks
    PROVE  /\ walk.kind \in WalkKinds /\ walk.of \in Capabilities
           /\ walk.seen \in SUBSET Capabilities /\ walk.at \in SUBSET Capabilities
           /\ walk.result \in WalkResults /\ walk.undisturbed \in BOOLEAN
           /\ walk.path \in UNION {[1..n -> Capabilities] : n \in 0..Cardinality(Capabilities)}
  BY DEF Walks

\* A step of a walk that keeps its kind has a type again.
LEMMA WalkTyped ==
    ASSUME walk \in Walks, NEW w, NEW seen \in SUBSET Capabilities, NEW at \in SUBSET Capabilities,
           NEW path \in Seq(Capabilities), Len(path) <= Cardinality(seen),
           NEW result \in WalkResults, NEW undisturbed \in BOOLEAN,
           w = [kind |-> walk.kind, of |-> walk.of, seen |-> seen, at |-> at, path |-> path,
                result |-> result, undisturbed |-> undisturbed]
    PROVE  w \in Walks
<1>1. path \in UNION {[1..n -> Capabilities] : n \in 0..Cardinality(Capabilities)}
  BY SeenFinite, PathsTyped
<1> QED
  BY <1>1, WalkFields DEF Walks

LEMMA NewWalk ==
    ASSUME NEW kind \in WalkKinds, NEW c \in Capabilities, StartWalk(kind, c)
    PROVE  walk' \in Walks /\ WalkShape'
<1>1. /\ walk' = [kind |-> kind, of |-> c, seen |-> {}, at |-> {c}, path |-> <<>>,
                  result |-> "READING", undisturbed |-> TRUE]
  BY DEF StartWalk
<1>2. Cardinality({}) = 0 /\ {} \in SUBSET Capabilities
  BY FS_EmptySet
<1>3. 0 \in 0..Cardinality(Capabilities) /\ <<>> \in [1..0 -> Capabilities]
  BY <1>2, SeenFinite
<1> QED
  BY <1>1, <1>2, <1>3 DEF Walks, WalkShape, WalkResults

\* Each query of a walk keeps its shape.
LEMMA RootShape ==
    ASSUME ReadsTypeOK, WalkShape, ReadRoot
    PROVE  walk' \in Walks /\ WalkShape'
<1>0. walk # NoWalk /\ walk \in Walks /\ walk.kind = "SUBTREE" /\ walk.seen = {}
  BY DEF ReadRoot, Walking, ReadsTypeOK
<1>1. walk.path \in Seq(Capabilities) /\ Len(walk.path) <= Cardinality(walk.seen)
  BY <1>0 DEF WalkShape
<1>2. PICK seen \in {{}, {walk.of}}, result \in WalkResults :
        walk' = [kind |-> walk.kind, of |-> walk.of, seen |-> seen, at |-> walk.at, path |-> walk.path,
                 result |-> result, undisturbed |-> walk.undisturbed]
  BY <1>0 DEF ReadRoot, Walks, WalkResults
<1>3. seen \in SUBSET Capabilities /\ Len(walk.path) <= Cardinality(seen)
  <2>1. seen \in SUBSET Capabilities /\ walk.seen \subseteq seen /\ IsFiniteSet(seen)
    BY <1>0, <1>2, WalkFields, SeenFinite
  <2>2. Cardinality(walk.seen) <= Cardinality(seen)
    BY <2>1, FS_Subset
  <2>3. Cardinality(seen) \in Nat /\ Cardinality(walk.seen) \in Nat
    BY <2>1, FS_CardinalityType, FS_Subset
  <2> QED
    BY <1>1, <2>1, <2>2, <2>3
<1>4. walk' \in Walks
  BY <1>0, <1>1, <1>2, <1>3, WalkFields, WalkTyped
<1> QED
  BY <1>0, <1>1, <1>2, <1>3, <1>4 DEF WalkShape

LEMMA LevelShape ==
    ASSUME ReadsTypeOK, WalkShape, ReadLevel
    PROVE  walk' \in Walks /\ WalkShape'
<1>0. walk # NoWalk /\ walk \in Walks /\ walk.kind = "SUBTREE"
  BY DEF ReadLevel, Walking, ReadsTypeOK
<1>1. walk.path \in Seq(Capabilities) /\ Len(walk.path) <= Cardinality(walk.seen)
  BY <1>0 DEF WalkShape
<1>2. Children(walk.at) \subseteq Capabilities
  BY DEF Children, ReadsTypeOK, TypeOK
<1>3. PICK seen \in {walk.seen, walk.seen \cup Children(walk.at)}, at \in {walk.at, Children(walk.at)},
           result \in WalkResults :
        walk' = [kind |-> walk.kind, of |-> walk.of, seen |-> seen, at |-> at, path |-> walk.path,
                 result |-> result, undisturbed |-> walk.undisturbed]
  BY <1>0 DEF ReadLevel, Walks, WalkResults
<1>4. seen \in SUBSET Capabilities /\ Len(walk.path) <= Cardinality(seen)
  <2>1. seen \in SUBSET Capabilities /\ walk.seen \subseteq seen /\ IsFiniteSet(seen)
    BY <1>0, <1>2, <1>3, WalkFields, SeenFinite
  <2>2. Cardinality(walk.seen) <= Cardinality(seen)
    BY <2>1, FS_Subset
  <2>3. Cardinality(seen) \in Nat /\ Cardinality(walk.seen) \in Nat
    BY <2>1, FS_CardinalityType, FS_Subset
  <2> QED
    BY <1>1, <2>1, <2>2, <2>3
<1>5. at \in SUBSET Capabilities
  BY <1>0, <1>2, <1>3, WalkFields
<1>6. walk' \in Walks
  BY <1>0, <1>1, <1>3, <1>4, <1>5, WalkFields, WalkTyped
<1> QED
  BY <1>0, <1>1, <1>3, <1>4, <1>6 DEF WalkShape

\* What the query for one ancestor makes of the walk.
AncestorStep(c, seen, at, path, result) ==
    /\ walk' = [kind |-> walk.kind, of |-> walk.of, seen |-> seen, at |-> at, path |-> path,
                result |-> result, undisturbed |-> walk.undisturbed]
    /\ c \in Capabilities /\ c \notin walk.seen
    /\ c \notin exists =>
         /\ seen = walk.seen /\ path = walk.path /\ at = walk.at
         /\ result = IF walk.seen = {} THEN "NOT_FOUND" ELSE "DONE"
    /\ c \in exists =>
         /\ seen = walk.seen \cup {c} /\ path = <<c>> \o walk.path
         /\ AtEnd(c) => result = "DONE" /\ at = walk.at
         /\ ~AtEnd(c) =>
              IF Parent(c) \in seen THEN result = "CIRCULAR" /\ at = walk.at
              ELSE result = "READING" /\ at = {Parent(c)}

LEMMA AncestorRead ==
    ASSUME ReadsTypeOK, WalkShape, ReadAncestor
    PROVE  /\ walk # NoWalk /\ walk \in Walks /\ walk.kind # "SUBTREE" /\ walk.result = "READING"
           /\ \E c \in walk.at : \E seen, at, path, result :
                AncestorStep(c, seen, at, path, result) /\ result \in WalkResults
<1>0. walk # NoWalk /\ walk \in Walks /\ walk.kind # "SUBTREE" /\ walk.result = "READING"
  BY DEF ReadAncestor, Walking, ReadsTypeOK
<1>1. walk = [kind |-> walk.kind, of |-> walk.of, seen |-> walk.seen, at |-> walk.at, path |-> walk.path,
              result |-> walk.result, undisturbed |-> walk.undisturbed]
  BY <1>0 DEF Walks
<1>2. walk.at \subseteq Capabilities /\ walk.at \cap walk.seen = {}
  BY <1>0 DEF WalkShape
<1> DEFINE Step(c) == IF AtEnd(c) THEN [walk EXCEPT !.seen = walk.seen \cup {c}, !.result = "DONE"]
                      ELSE NextAncestor(walk.seen \cup {c}, Parent(c))
<1>3. PICK c \in walk.at :
        walk' = IF c \notin exists
                THEN [walk EXCEPT !.result = IF walk.seen = {} THEN "NOT_FOUND" ELSE "DONE"]
                ELSE [Step(c) EXCEPT !.path = IF c \in walk.seen THEN @ ELSE <<c>> \o @]
  BY DEF ReadAncestor
<1>4. c \in Capabilities /\ c \notin walk.seen
  BY <1>2
<1>5. CASE c \notin exists
  <2> DEFINE result == IF walk.seen = {} THEN "NOT_FOUND" ELSE "DONE"
  <2>1. walk' = [kind |-> walk.kind, of |-> walk.of, seen |-> walk.seen, at |-> walk.at, path |-> walk.path,
                 result |-> result, undisturbed |-> walk.undisturbed]
    BY <1>1, <1>3, <1>5
  <2>2. AncestorStep(c, walk.seen, walk.at, walk.path, result) /\ result \in WalkResults
    BY <1>4, <1>5, <2>1 DEF AncestorStep, WalkResults
  <2> QED
    BY <1>0, <2>2
<1>6. CASE c \in exists /\ AtEnd(c)
  <2>1. walk' = [kind |-> walk.kind, of |-> walk.of, seen |-> walk.seen \cup {c}, at |-> walk.at,
                 path |-> <<c>> \o walk.path, result |-> "DONE", undisturbed |-> walk.undisturbed]
    BY <1>1, <1>3, <1>4, <1>6
  <2>2. AncestorStep(c, walk.seen \cup {c}, walk.at, <<c>> \o walk.path, "DONE")
    BY <1>4, <1>6, <2>1 DEF AncestorStep
  <2> QED
    BY <1>0, <2>2 DEF WalkResults
<1>7. CASE c \in exists /\ ~AtEnd(c) /\ Parent(c) \in walk.seen \cup {c}
  <2>1. walk' = [kind |-> walk.kind, of |-> walk.of, seen |-> walk.seen \cup {c}, at |-> walk.at,
                 path |-> <<c>> \o walk.path, result |-> "CIRCULAR", undisturbed |-> walk.undisturbed]
    BY <1>1, <1>3, <1>4, <1>7 DEF NextAncestor
  <2>2. AncestorStep(c, walk.seen \cup {c}, walk.at, <<c>> \o walk.path, "CIRCULAR")
    BY <1>4, <1>7, <2>1 DEF AncestorStep
  <2> QED
    BY <1>0, <2>2 DEF WalkResults
<1>8. CASE c \in exists /\ ~AtEnd(c) /\ Parent(c) \notin walk.seen \cup {c}
  <2>1. walk' = [kind |-> walk.kind, of |-> walk.of, seen |-> walk.seen \cup {c}, at |-> {Parent(c)},
                 path |-> <<c>> \o walk.path, result |-> "READING", undisturbed |-> walk.undisturbed]
    BY <1>0, <1>1, <1>3, <1>4, <1>8 DEF NextAncestor
  <2>2. AncestorStep(c, walk.seen \cup {c}, {Parent(c)}, <<c>> \o walk.path, "READING")
    BY <1>4, <1>8, <2>1 DEF AncestorStep
  <2> QED
    BY <1>0, <2>2 DEF WalkResults
<1> QED
  BY <1>5, <1>6, <1>7, <1>8

LEMMA AncestorShape ==
    ASSUME ReadsTypeOK, WalkShape, ReadAncestor
    PROVE  walk' \in Walks /\ WalkShape'
<1>0. walk # NoWalk /\ walk \in Walks /\ walk.kind # "SUBTREE"
  BY AncestorRead
<1>1. /\ walk.path \in Seq(Capabilities) /\ Len(walk.path) = Cardinality(walk.seen)
      /\ walk.at \subseteq Capabilities /\ walk.seen \in SUBSET Capabilities
      /\ walk.of \in Capabilities /\ walk.kind \in WalkKinds /\ walk.undisturbed \in BOOLEAN
  BY <1>0, WalkFields DEF WalkShape
<1>2. PICK c \in walk.at : \E seen, at, path, result :
        AncestorStep(c, seen, at, path, result) /\ result \in WalkResults
  BY AncestorRead
<1>3. PICK seen, at, path, result : AncestorStep(c, seen, at, path, result) /\ result \in WalkResults
  BY <1>2
<1>4. /\ seen \in SUBSET Capabilities /\ at \in SUBSET Capabilities
      /\ path \in Seq(Capabilities) /\ Len(path) = Cardinality(seen)
      /\ result = "READING" => at \cap seen = {}
  <2>1. CASE c \notin exists
    BY <1>1, <1>3, <2>1 DEF AncestorStep
  <2>2. CASE c \in exists
    <3>1. c \in Capabilities /\ seen = walk.seen \cup {c} /\ path = <<c>> \o walk.path
      BY <1>3, <2>2 DEF AncestorStep
    <3>2. AtEnd(c) \/ Parent(c) \in Capabilities
      BY <2>2 DEF AtEnd, ReadsTypeOK, TypeOK
    <3>3. at \in SUBSET Capabilities /\ (result = "READING" => at \cap seen = {})
      BY <1>1, <1>3, <2>2, <3>1, <3>2 DEF AncestorStep
    <3>4. path \in Seq(Capabilities) /\ Len(path) = Len(walk.path) + 1
      BY <1>1, <3>1
    <3>5. Cardinality(seen) = Cardinality(walk.seen) + 1
      <4>1. IsFiniteSet(walk.seen) /\ c \notin walk.seen
        BY <1>1, <1>3, SeenFinite DEF AncestorStep
      <4> QED
        BY <3>1, <4>1, FS_AddElement
    <3> QED
      BY <1>1, <3>1, <3>3, <3>4, <3>5
  <2> QED
    BY <2>1, <2>2
<1>5. walk' = [kind |-> walk.kind, of |-> walk.of, seen |-> seen, at |-> at, path |-> path,
               result |-> result, undisturbed |-> walk.undisturbed]
  BY <1>3 DEF AncestorStep
<1>6. Len(path) <= Cardinality(seen)
  BY <1>4
<1>7. walk' \in Walks
  BY <1>0, <1>1, <1>3, <1>4, <1>5, <1>6, WalkTyped
<1> QED
  BY <1>0, <1>4, <1>5, <1>6, <1>7 DEF WalkShape

\* Of a walk under which nothing was committed.
Undisturbed == walk # NoWalk /\ walk.undisturbed /\ walk.of \in exists

\* Level by level: what is still missing below what was read is below the last level.
SubtreeRight ==
    IF walk.seen = {} THEN walk.result = "READING" /\ walk.at = {walk.of}
    ELSE /\ walk.of \in walk.seen /\ walk.seen \subseteq Below(walk.of)
         /\ walk.result \in {"READING", "DONE"}
         /\ walk.result = "DONE" => \A x \in exists : Parent(x) \in walk.seen => x \in walk.seen
         /\ walk.result = "READING" =>
              /\ walk.at \subseteq walk.seen
              /\ \A x \in exists : Parent(x) \in walk.seen => x \in walk.seen \/ Parent(x) \in walk.at
              /\ \A x \in walk.seen, a \in walk.at : a \in Visited(x) => x = a

\* The path leads from the last ancestor read down to where the walk began.
PathRight ==
    /\ walk.seen # {} => Len(walk.path) > 0 /\ walk.path[Len(walk.path)] = walk.of
    /\ \A i \in 2..Len(walk.path) : Parent(walk.path[i]) = walk.path[i - 1]

\* What was read and what is visited from c make up the way up.
Split(c) ==
    /\ walk.seen \cup Visited(c) = Visited(walk.of) /\ walk.seen \cap Visited(c) = {}
    /\ walk.seen = {} => c = walk.of
    /\ walk.seen # {} => Parent(walk.path[1]) = c

TrailRight ==
    /\ PathRight
    /\ walk.result \in {"READING", "DONE"}
    /\ walk.result = "READING" =>
         /\ \E c \in exists : walk.at = {c} /\ Split(c)
         /\ walk.kind = "STEWARDSHIP" => walk.seen \cap Stewarded = {}
    /\ walk.result = "DONE" =>
         /\ walk.seen # {}
         /\ walk.kind = "BREADCRUMBS" => walk.seen = Visited(walk.of) /\ Parent(walk.path[1]) = NoParent
         /\ walk.kind = "STEWARDSHIP" =>
              \E c \in walk.seen :
                /\ walk.seen \cup Visited(c) = Visited(walk.of) /\ walk.seen \cap Stewarded \subseteq {c}
                /\ c \notin Stewarded => walk.seen = Visited(walk.of)

WalkRight ==
    Undisturbed => IF walk.kind = "SUBTREE" THEN SubtreeRight ELSE TrailRight

LEMMA StartRight ==
    ASSUME NEW kind \in WalkKinds, NEW c \in Capabilities, StartWalk(kind, c), UNCHANGED vars
    PROVE  WalkRight'
<1>1. /\ walk' = [kind |-> kind, of |-> c, seen |-> {}, at |-> {c}, path |-> <<>>,
                  result |-> "READING", undisturbed |-> TRUE]
  BY DEF StartWalk
<1>2. (SubtreeRight)'
  BY <1>1 DEF SubtreeRight
<1>3. PathRight'
  BY <1>1 DEF PathRight
<1>4. c \in exists' => Split(c)'
  BY <1>1 DEF Split
<1>5. c \in exists' => TrailRight'
  BY <1>1, <1>3, <1>4 DEF TrailRight
<1> QED
  BY <1>1, <1>2, <1>5 DEF WalkRight, Undisturbed

LEMMA RootRight ==
    ASSUME ReadsTypeOK, WalkRight, ReadRoot, UNCHANGED vars
    PROVE  WalkRight'
<1>0. walk # NoWalk /\ walk \in Walks /\ walk.kind = "SUBTREE" /\ walk.seen = {} /\ walk.result = "READING"
  BY DEF ReadRoot, Walking, ReadsTypeOK
<1> SUFFICES ASSUME Undisturbed' PROVE SubtreeRight'
  BY <1>0 DEF WalkRight, ReadRoot, Walks
<1>1. walk'.of = walk.of /\ walk'.undisturbed = walk.undisturbed
  BY <1>0 DEF ReadRoot, Walks
<1>2. walk.of \in exists /\ Undisturbed
  BY <1>0, <1>1 DEF Undisturbed, vars
<1>3. walk' = [walk EXCEPT !.seen = {walk.of}]
  BY <1>2 DEF ReadRoot
<1>4. walk.at = {walk.of}
  BY <1>0, <1>2 DEF WalkRight, SubtreeRight
<1>5. walk'.seen = {walk.of} /\ walk'.at = {walk.of} /\ walk'.result = "READING"
  BY <1>0, <1>3, <1>4 DEF Walks
<1>6. walk.of \in Below(walk.of)
  BY <1>2, BelowClosed DEF ReadsTypeOK
<1>7. /\ Below(walk.of)' = Below(walk.of) /\ exists' = exists
      /\ \A x : Parent(x)' = Parent(x) /\ Visited(x)' = Visited(x)
  BY <1>1 DEF vars, Below, Visited, Upward, Parent
<1> QED
  BY <1>1, <1>5, <1>6, <1>7 DEF SubtreeRight

LEMMA LevelRight ==
    ASSUME ReadsTypeOK, Forest, WalkRight, ReadLevel, UNCHANGED vars
    PROVE  WalkRight'
<1>0. walk # NoWalk /\ walk \in Walks /\ walk.kind = "SUBTREE" /\ walk.seen # {} /\ walk.result = "READING"
  BY DEF ReadLevel, Walking, ReadsTypeOK
<1> DEFINE children == Children(walk.at)
<1> SUFFICES ASSUME Undisturbed' PROVE SubtreeRight'
  BY <1>0 DEF WalkRight, ReadLevel, Walks
<1>1. walk'.of = walk.of /\ walk'.undisturbed = walk.undisturbed
  BY <1>0 DEF ReadLevel, Walks
<1>2. walk.of \in exists /\ Undisturbed
  BY <1>0, <1>1 DEF Undisturbed, vars
<1>3. SubtreeRight /\ TypeOK
  BY <1>0, <1>2 DEF WalkRight, ReadsTypeOK
<1>4. /\ walk.of \in walk.seen /\ walk.seen \subseteq Below(walk.of) /\ walk.at \subseteq walk.seen
      /\ \A x \in exists : Parent(x) \in walk.seen => x \in walk.seen \/ Parent(x) \in walk.at
      /\ \A x \in walk.seen, a \in walk.at : a \in Visited(x) => x = a
  BY <1>0, <1>3 DEF SubtreeRight
<1>5. /\ exists' = exists /\ (\A x : Parent(x)' = Parent(x) /\ Visited(x)' = Visited(x))
      /\ Below(walk.of)' = Below(walk.of)
  BY <1>1 DEF vars, Below, Visited, Upward, Parent
<1>6. ASSUME NEW x \in children
      PROVE  /\ x \in exists /\ Parent(x) \in walk.at /\ Parent(x) \in exists
             /\ Parent(x) \in Visited(x) /\ x \notin Visited(Parent(x))
             /\ Visited(x) = {x} \cup Visited(Parent(x))
             /\ x \notin walk.seen /\ x \in Below(walk.of)
  <2>1. x \in exists /\ Parent(x) \in walk.at /\ Parent(x) \in exists /\ Parent(x) # NoParent
    BY <1>3, <1>4, NullsAssumption DEF Children, Below, TypeOK
  <2>2. Parent(x) \in Visited(x) /\ x \notin Visited(Parent(x)) /\ Visited(x) = {x} \cup Visited(Parent(x))
    BY <1>3, <2>1, NoWayBack, VisitedStep, VisitedUpward
  <2>3. x # Parent(x)
    BY <1>3, <2>1, <2>2, VisitedUpward
  <2>4. x \notin walk.seen
    BY <1>4, <2>1, <2>2, <2>3
  <2>5. x \in Below(walk.of)
    BY <1>2, <1>3, <1>4, <2>1, BelowClosed
  <2> QED
    BY <2>1, <2>2, <2>4, <2>5
<1>7. CASE children = {}
  <2>1. walk'.seen = walk.seen /\ walk'.result = "DONE"
    BY <1>0, <1>7 DEF ReadLevel, Walks
  <2>2. \A x \in exists : Parent(x) \in walk.seen => x \in walk.seen
    BY <1>4, <1>7 DEF Children
  <2> QED
    BY <1>0, <1>1, <1>4, <1>5, <2>1, <2>2 DEF SubtreeRight
<1>8. CASE children # {}
  <2>1. children \cap walk.seen = {}
    BY <1>6
  <2>2. walk' = [walk EXCEPT !.seen = @ \cup children, !.at = children]
    BY <1>8, <2>1 DEF ReadLevel
  <2>3. walk'.seen = walk.seen \cup children /\ walk'.at = children /\ walk'.result = "READING"
    BY <1>0, <2>2 DEF Walks
  <2>4. \A x \in exists : Parent(x) \in walk.seen \cup children =>
          x \in walk.seen \cup children \/ Parent(x) \in children
    BY <1>4 DEF Children
  <2>5. ASSUME NEW x \in walk.seen \cup children, NEW b \in children, b \in Visited(x)
        PROVE  x = b
    <3>1. /\ b \in exists /\ Parent(b) \in walk.at /\ Parent(b) \in Visited(b) /\ Parent(b) \in exists
          /\ b \notin Visited(Parent(b))
      BY <1>6
    <3>2. CASE x \in walk.seen
      <4>1. x \in exists
        BY <1>4, <3>2 DEF Below
      <4>2. Parent(b) \in Visited(x)
        BY <1>3, <2>5, <3>1, <4>1, VisitedFurther
      <4>3. x = Parent(b)
        BY <1>4, <3>1, <3>2, <4>2
      <4> QED
        BY <2>5, <3>1, <4>3
    <3>3. CASE x \in children /\ x # b
      <4>1. x \in exists /\ Parent(x) \in walk.at /\ Parent(x) \in exists /\ b \in Visited(Parent(x))
        BY <1>6, <2>5, <3>3
      <4>2. Parent(b) \in Visited(Parent(x))
        BY <1>3, <3>1, <4>1, VisitedFurther
      <4>3. Parent(x) = Parent(b)
        BY <1>4, <3>1, <4>1, <4>2
      <4> QED
        BY <3>1, <4>1, <4>3
    <3> QED
      BY <3>2, <3>3
  <2>6. walk.seen \cup children \subseteq Below(walk.of)
    BY <1>4, <1>6
  <2> QED
    BY <1>0, <1>1, <1>4, <1>5, <2>3, <2>4, <2>5, <2>6 DEF SubtreeRight
<1> QED
  BY <1>7, <1>8

LEMMA AncestorRight ==
    ASSUME ReadsTypeOK, Forest, WalkShape, WalkRight, ReadAncestor, UNCHANGED vars
    PROVE  WalkRight'
<1>0. walk # NoWalk /\ walk \in Walks /\ walk.kind # "SUBTREE" /\ walk.result = "READING" /\ TypeOK
  BY AncestorRead DEF ReadsTypeOK
<1>1. PICK c \in walk.at : \E seen, at, path, result :
        AncestorStep(c, seen, at, path, result) /\ result \in WalkResults
  BY AncestorRead
<1>2. PICK seen, at, path, result : AncestorStep(c, seen, at, path, result) /\ result \in WalkResults
  BY <1>1
<1>3. walk' = [kind |-> walk.kind, of |-> walk.of, seen |-> seen, at |-> at, path |-> path,
               result |-> result, undisturbed |-> walk.undisturbed]
  BY <1>2 DEF AncestorStep
<1>4. /\ walk'.kind = walk.kind /\ walk'.of = walk.of /\ walk'.seen = seen /\ walk'.at = at
      /\ walk'.path = path /\ walk'.result = result /\ walk'.undisturbed = walk.undisturbed
  BY <1>3
<1> SUFFICES ASSUME Undisturbed' PROVE TrailRight'
  BY <1>0, <1>4 DEF WalkRight
<1>5. Undisturbed /\ walk.of \in exists
  BY <1>0, <1>4 DEF Undisturbed, vars
<1>6. TrailRight
  BY <1>0, <1>5 DEF WalkRight
<1>7. c \in exists /\ Split(c) /\ PathRight /\ (walk.kind = "STEWARDSHIP" => walk.seen \cap Stewarded = {})
  <2>1. PICK d \in exists : walk.at = {d} /\ Split(d)
    BY <1>0, <1>6 DEF TrailRight
  <2> QED
    BY <1>0, <1>1, <1>6, <2>1 DEF TrailRight
<1>8. seen = walk.seen \cup {c} /\ path = <<c>> \o walk.path /\ c \in Capabilities
  BY <1>2, <1>7 DEF AncestorStep
<1>9. /\ exists' = exists /\ (\A x : Parent(x)' = Parent(x) /\ Visited(x)' = Visited(x))
      /\ AtEnd(c) <=> Parent(c) = NoParent \/ (walk.kind = "STEWARDSHIP" /\ c \in Stewarded)
  BY DEF vars, Visited, Upward, Parent, AtEnd
<1>10. walk.path \in Seq(Capabilities) /\ Len(walk.path) = Cardinality(walk.seen)
  BY <1>0 DEF WalkShape
<1>11. /\ path \in Seq(Capabilities) /\ Len(path) = Len(walk.path) + 1 /\ path[1] = c
       /\ \A i \in 2..Len(path) : path[i] = walk.path[i - 1]
  BY <1>8, <1>10
<1>12. /\ path[Len(path)] = walk.of /\ Len(path) > 0
       /\ \A i \in 2..Len(path) : Parent(path[i]) = path[i - 1]
  <2>1. CASE walk.seen = {}
    <3>1. Len(walk.path) = 0 /\ c = walk.of
      BY <1>7, <1>10, <2>1, FS_EmptySet DEF Split
    <3> QED
      BY <1>11, <3>1
  <2>2. CASE walk.seen # {}
    <3>1. /\ Len(walk.path) > 0 /\ walk.path[Len(walk.path)] = walk.of /\ Parent(walk.path[1]) = c
          /\ \A i \in 2..Len(walk.path) : Parent(walk.path[i]) = walk.path[i - 1]
      BY <1>7, <2>2 DEF Split, PathRight
    <3>2. path[Len(path)] = walk.of
      BY <1>10, <1>11, <3>1
    <3>3. ASSUME NEW i \in 2..Len(path) PROVE Parent(path[i]) = path[i - 1]
      <4>1. CASE i = 2
        BY <1>11, <3>1, <4>1
      <4>2. CASE i > 2
        <5>1. i - 1 \in 2..Len(walk.path) /\ i - 1 \in 2..Len(path)
          BY <1>10, <1>11, <4>2
        <5>2. path[i] = walk.path[i - 1] /\ path[i - 1] = walk.path[(i - 1) - 1]
          BY <1>11, <5>1
        <5> QED
          BY <3>1, <5>1, <5>2
      <4> QED
        BY <4>1, <4>2
    <3> QED
      BY <1>10, <1>11, <3>1, <3>2, <3>3
  <2> QED
    BY <2>1, <2>2
<1>13. PathRight'
  BY <1>4, <1>9, <1>12 DEF PathRight
<1>14. c \in Visited(c) /\ c \in Visited(walk.of) /\ c \notin walk.seen
  BY <1>0, <1>7, VisitedUpward DEF Split
<1>15. CASE AtEnd(c)
  <2>1. result = "DONE"
    BY <1>2, <1>7, <1>15 DEF AncestorStep
  <2>2. Parent(c) = NoParent => seen = Visited(walk.of)
    BY <1>0, <1>7, <1>8, VisitedStep DEF Split
  <2>3. seen \cup Visited(c) = Visited(walk.of)
    BY <1>7, <1>8, <1>14 DEF Split
  <2>4. walk.kind = "BREADCRUMBS" => seen = Visited(walk.of) /\ Parent(path[1]) = NoParent
    BY <1>9, <1>11, <1>15, <2>2
  <2>5. walk.kind = "STEWARDSHIP" =>
          seen \cap Stewarded \subseteq {c} /\ (c \notin Stewarded => seen = Visited(walk.of))
    BY <1>7, <1>8, <1>9, <1>15, <2>2
  <2> QED
    BY <1>4, <1>8, <1>9, <1>13, <2>1, <2>3, <2>4, <2>5 DEF TrailRight
<1>16. CASE ~AtEnd(c)
  <2> DEFINE p == Parent(c)
  <2>1. p # NoParent
    BY <1>9, <1>16
  <2>2. p \in exists /\ c \notin Visited(p) /\ Visited(c) = {c} \cup Visited(p) /\ p \in Visited(p)
    BY <1>0, <1>7, <2>1, NoWayBack, VisitedStep, VisitedUpward
  <2>3. p \notin seen /\ seen \cap Visited(p) = {} /\ seen \cup Visited(p) = Visited(walk.of)
    BY <1>7, <1>8, <2>2 DEF Split
  <2>4. result = "READING" /\ at = {p}
    BY <1>2, <1>7, <1>16, <2>3 DEF AncestorStep
  <2>5. Split(p)'
    BY <1>4, <1>8, <1>9, <1>11, <2>3 DEF Split
  <2>6. walk.kind = "STEWARDSHIP" => seen \cap Stewarded = {}
    BY <1>7, <1>8, <1>9, <1>16
  <2> QED
    BY <1>4, <1>9, <1>13, <2>2, <2>4, <2>5, <2>6 DEF TrailRight
<1> QED
  BY <1>15, <1>16

\* What another writer commits makes the walk disturbed.
LEMMA CommitRight ==
    ASSUME ReadsTypeOK, WalkShape, WalkRight, Commit
    PROVE  walk' \in Walks \cup {NoWalk} /\ WalkShape' /\ WalkRight'
<1>1. CASE walk = NoWalk
  BY <1>1 DEF Commit, WalkShape, WalkRight, Undisturbed
<1>2. CASE walk # NoWalk
  <2> DEFINE same == walk.undisturbed /\ exists' = exists /\ capability' = capability
  <2>0. walk \in Walks /\ walk.path \in Seq(Capabilities) /\ Len(walk.path) <= Cardinality(walk.seen)
    BY <1>2 DEF ReadsTypeOK, WalkShape
  <2>1. walk' = [walk EXCEPT !.undisturbed = same]
    BY <1>2 DEF Commit
  <2>2. walk' = [kind |-> walk.kind, of |-> walk.of, seen |-> walk.seen, at |-> walk.at,
                 path |-> walk.path, result |-> walk.result, undisturbed |-> same]
    BY <2>0, <2>1 DEF Walks
  <2>3. same \in BOOLEAN
    BY <2>0, WalkFields
  <2>4. walk' \in Walks
    <3> HIDE DEF same
    <3> QED
      BY <2>0, <2>2, <2>3, WalkFields, WalkTyped
  <2>5. /\ walk'.kind = walk.kind /\ walk'.of = walk.of /\ walk'.seen = walk.seen /\ walk'.at = walk.at
        /\ walk'.path = walk.path /\ walk'.result = walk.result /\ walk'.undisturbed = same
    BY <2>2
  <2>6. WalkShape'
    BY <1>2, <2>4, <2>5, ReadsAssumption, TablesAssumption DEF WalkShape
  <2>7. WalkRight'
    <3> SUFFICES ASSUME Undisturbed'
                 PROVE  IF walk.kind = "SUBTREE" THEN SubtreeRight' ELSE TrailRight'
      BY <2>5 DEF WalkRight
    <3>1. exists' = exists /\ capability' = capability /\ walk.undisturbed
      BY <2>5 DEF Undisturbed
    <3>2. Undisturbed
      BY <1>2, <2>5, <3>1 DEF Undisturbed
    <3>3. /\ \A x : Parent(x)' = Parent(x) /\ Visited(x)' = Visited(x)
          /\ Below(walk.of)' = Below(walk.of)
      BY <2>5, <3>1 DEF Below, Visited, Upward, Parent
    <3>4. CASE walk.kind = "SUBTREE"
      <4>1. SubtreeRight
        BY <3>2, <3>4 DEF WalkRight
      <4> QED
        BY <2>5, <3>1, <3>3, <3>4, <4>1 DEF SubtreeRight
    <3>5. CASE walk.kind # "SUBTREE"
      <4>1. TrailRight
        BY <3>2, <3>5 DEF WalkRight
      <4>2. PathRight'
        BY <2>5, <3>3, <4>1 DEF TrailRight, PathRight
      <4>3. \A c : Split(c)' <=> Split(c)
        BY <2>5, <3>3 DEF Split
      <4> QED
        BY <2>5, <3>1, <3>3, <3>5, <4>1, <4>2, <4>3 DEF TrailRight
    <3> QED
      BY <3>4, <3>5
  <2> QED
    BY <2>4, <2>6, <2>7
<1> QED
  BY <1>1, <1>2

ReadsInv == ReadsTypeOK /\ Fresh /\ Forest /\ WalkShape /\ WalkRight

LEMMA ReadsInvPreserved ==
    ASSUME Single, ReadsInv, [ReadsNext]_readVars
    PROVE  ReadsInv'
<1>0. TypeOK /\ ReadsTypeOK /\ Fresh /\ Forest /\ WalkShape /\ WalkRight
  BY DEF ReadsInv, ReadsTypeOK
<1>1. [Next]_vars
  BY DEF ReadsNext, Commit, ReadStep, readVars, vars
<1>2. TypeOK' /\ Fresh' /\ Forest'
  BY <1>0, <1>1, TypeStep, FreshStep, ForestStep
<1>3. CASE Commit
  BY <1>0, <1>2, <1>3, CommitRight DEF ReadsInv, ReadsTypeOK
<1>4. ASSUME NEW kind \in WalkKinds, NEW c \in Capabilities, StartWalk(kind, c), UNCHANGED vars
      PROVE  ReadsInv'
  BY <1>2, <1>4, NewWalk, StartRight DEF ReadsInv, ReadsTypeOK
<1>5. CASE ReadStep
  <2>1. CASE ReadRoot
    BY <1>0, <1>2, <1>5, <2>1, RootShape, RootRight DEF ReadsInv, ReadsTypeOK, ReadStep
  <2>2. CASE ReadLevel
    BY <1>0, <1>2, <1>5, <2>2, LevelShape, LevelRight DEF ReadsInv, ReadsTypeOK, ReadStep
  <2>3. CASE ReadAncestor
    BY <1>0, <1>2, <1>5, <2>3, AncestorShape, AncestorRight DEF ReadsInv, ReadsTypeOK, ReadStep
  <2> QED
    BY <1>5, <2>1, <2>2, <2>3 DEF ReadStep
<1>6. CASE Leave
  BY <1>0, <1>2, <1>6 DEF Leave, ReadsInv, ReadsTypeOK, WalkShape, WalkRight, Undisturbed
<1>7. CASE UNCHANGED readVars
  <2>1. walk' = walk /\ exists' = exists /\ capability' = capability
    BY <1>7 DEF readVars
  <2>2. WalkShape'
    BY <1>0, <2>1 DEF WalkShape
  <2>3. /\ \A x : Parent(x)' = Parent(x) /\ Visited(x)' = Visited(x)
        /\ \A x : Below(x)' = Below(x)
    BY <2>1 DEF Below, Visited, Upward, Parent
  <2>4. SubtreeRight => SubtreeRight'
    BY <2>1, <2>3 DEF SubtreeRight
  <2>5. PathRight => PathRight'
    BY <2>1, <2>3 DEF PathRight
  <2>6. \A c : Split(c)' <=> Split(c)
    BY <2>1, <2>3 DEF Split
  <2>7. TrailRight => TrailRight'
    BY <2>1, <2>3, <2>5, <2>6 DEF TrailRight
  <2>8. WalkRight'
    BY <1>0, <2>1, <2>4, <2>7 DEF WalkRight, Undisturbed
  <2> QED
    BY <1>0, <1>2, <2>1, <2>2, <2>8 DEF ReadsInv, ReadsTypeOK
<1> QED
  BY <1>3, <1>4, <1>5, <1>6, <1>7 DEF ReadsNext

LEMMA ReadsInductive ==
    ASSUME Single
    PROVE  ReadsSpec => []ReadsInv
<1>1. ReadsInit => ReadsInv
  BY InitTypes DEF ReadsInit, ReadsInv, ReadsTypeOK, Init, Fresh, Forest, WalkShape, WalkRight, Undisturbed
<1>2. ReadsInv /\ [ReadsNext]_readVars => ReadsInv'
  BY ReadsInvPreserved
<1> QED
  BY <1>1, <1>2, PTL DEF ReadsSpec

-----------------------------------------------------------------------------
(* What the answers are worth *)

\* Of some capabilities there is one whose children are not among them.
LEMMA Lowest ==
    ASSUME TypeOK, Forest, NEW S, S \subseteq exists, S # {}
    PROVE  \E y \in S : \A z \in S : Parent(z) # y
<1> DEFINE N == Cardinality(Capabilities)
           T == {N - Cardinality(Visited(y)) : y \in S}
<1>1. \A y \in exists : Visited(y) \subseteq Capabilities
  BY VisitedUpward DEF TypeOK
<1>2. N \in Nat /\ \A y \in exists :
        IsFiniteSet(Visited(y)) /\ Cardinality(Visited(y)) \in Nat /\ Cardinality(Visited(y)) <= N
  BY <1>1, SeenFinite, TablesAssumption, FS_CardinalityType
<1>3. T \subseteq Nat /\ T # {}
  BY <1>2
<1>4. PICK n \in T : \A k \in T : n <= k
  <2> HIDE DEF T
  <2> QED
    BY <1>3, LeastNumber
<1>5. PICK y \in S : n = N - Cardinality(Visited(y))
  BY <1>4
<1>6. ASSUME NEW z \in S, Parent(z) = y PROVE FALSE
  <2>1. Visited(z) = {z} \cup Visited(y) /\ z \notin Visited(y)
    BY <1>6, VisitedStep, NoWayBack, NullsAssumption DEF TypeOK
  <2>2. Cardinality(Visited(z)) = Cardinality(Visited(y)) + 1
    <3>1. IsFiniteSet(Visited(y))
      BY <1>2
    <3>2. Cardinality(Visited(y) \cup {z}) = Cardinality(Visited(y)) + 1
      <4> HIDE DEF N, T
      <4> QED
        BY <2>1, <3>1, FS_AddElement
    <3>3. Visited(z) = Visited(y) \cup {z}
      BY <2>1
    <3> QED
      BY <3>2, <3>3
  <2>3. N - Cardinality(Visited(y)) <= N - Cardinality(Visited(z))
    BY <1>4, <1>5
  <2> QED
    BY <1>2, <2>2, <2>3
<1> QED
  BY <1>6

\* The published model's subtree is what is below its root.
LEMMA SelectedIsBelow ==
    ASSUME TypeOK, NEW c \in exists
    PROVE  SelectSubtree(exists, c) = Below(c)
<1>1. ASSUME NEW S \in SUBSET exists, c \in S, \A y \in exists : Parent(y) \in S => y \in S
      PROVE  Below(c) \subseteq S
  BY <1>1, BelowLeast
<1>2. Below(c) \in SUBSET exists /\ c \in Below(c) /\ \A y \in exists : Parent(y) \in Below(c) => y \in Below(c)
  BY BelowClosed
<1> QED
  BY <1>1, <1>2 DEF SelectSubtree

LEMMA SubtreeExact ==
    ASSUME ReadsInv, Undisturbed, Answered("SUBTREE")
    PROVE  /\ walk.seen = Below(walk.of)
           /\ walk.seen = SelectSubtree(exists, walk.of)
           /\ \A x \in walk.seen : \E y \in Leaves : x \in Visited(y)
<1>0. TypeOK /\ Forest /\ walk.of \in exists
  BY DEF ReadsInv, ReadsTypeOK, Undisturbed
<1>1. SubtreeRight /\ walk.result = "DONE"
  BY DEF ReadsInv, WalkRight, Answered
<1>2. /\ walk.of \in walk.seen /\ walk.seen \subseteq Below(walk.of)
      /\ \A x \in exists : Parent(x) \in walk.seen => x \in walk.seen
  BY <1>1 DEF SubtreeRight
<1>3. walk.seen = Below(walk.of)
  BY <1>0, <1>2, BelowLeast DEF Below
<1>4. ASSUME NEW x \in walk.seen PROVE \E y \in Leaves : x \in Visited(y)
  <2> DEFINE S == {y \in walk.seen : x \in Visited(y)}
  <2>1. walk.seen \subseteq exists
    BY <1>3 DEF Below
  <2>2. S \subseteq exists /\ S # {}
    BY <1>0, <2>1, VisitedUpward
  <2>3. PICK y \in S : \A z \in S : Parent(z) # y
    <3> HIDE DEF S
    <3> QED
      BY <1>0, <2>2, Lowest
  <2>4. ASSUME NEW z \in walk.seen, Parent(z) = y PROVE FALSE
    <3>1. Visited(y) \subseteq Visited(z)
      BY <1>0, <2>1, <2>4, VisitedStep, NullsAssumption DEF TypeOK
    <3> QED
      BY <2>3, <2>4, <3>1
  <2> QED
    BY <2>3, <2>4 DEF Leaves
<1> QED
  BY <1>0, <1>3, <1>4, SelectedIsBelow

LEMMA StewardExact ==
    ASSUME ReadsInv, Undisturbed, Answered("STEWARDSHIP")
    PROVE  IF Visited(walk.of) \cap Stewarded = {} THEN EffectiveSteward = NoParent
           ELSE /\ EffectiveSteward \in Visited(walk.of) \cap Stewarded
                /\ \A x \in Visited(walk.of) \cap Stewarded : x \in Visited(EffectiveSteward)
<1>0. TypeOK /\ Forest /\ walk.of \in exists
  BY DEF ReadsInv, ReadsTypeOK, Undisturbed
<1>1. PICK c \in walk.seen :
        /\ walk.seen \cup Visited(c) = Visited(walk.of) /\ walk.seen \cap Stewarded \subseteq {c}
        /\ c \notin Stewarded => walk.seen = Visited(walk.of)
  BY DEF ReadsInv, WalkRight, TrailRight, Answered
<1>2. c \in exists /\ c \in Visited(c)
  BY <1>0, <1>1, VisitedUpward
<1> DEFINE own == {x \in walk.seen : x \in Stewarded}
<1>3. CASE Visited(walk.of) \cap Stewarded = {}
  <2>1. own = {}
    BY <1>1, <1>3
  <2> QED
    BY <1>3, <2>1 DEF EffectiveSteward
<1>4. CASE Visited(walk.of) \cap Stewarded # {}
  <2>1. c \in Stewarded /\ own = {c}
    BY <1>1, <1>4
  <2>2. EffectiveSteward = c
    BY <2>1 DEF EffectiveSteward
  <2> QED
    BY <1>1, <1>2, <1>4, <2>1, <2>2
<1> QED
  BY <1>3, <1>4

LEMMA ReadsExact == ReadsInv => UndisturbedReadIsExact
<1> SUFFICES ASSUME ReadsInv, Undisturbed
             PROVE  /\ walk.result \in {"READING", "DONE"}
                    /\ Answered("SUBTREE") =>
                         /\ walk.seen = {x \in exists : walk.of \in Visited(x)}
                         /\ walk.seen = SelectSubtree(exists, walk.of)
                         /\ \A x \in walk.seen : \E y \in Leaves : x \in Visited(y)
                    /\ Answered("BREADCRUMBS") =>
                         /\ walk.seen = Visited(walk.of) /\ Len(walk.path) = Cardinality(walk.seen)
                         /\ Parent(walk.path[1]) = NoParent /\ walk.path[Len(walk.path)] = walk.of
                         /\ \A i \in 2..Len(walk.path) : Parent(walk.path[i]) = walk.path[i - 1]
                    /\ Answered("STEWARDSHIP") =>
                         IF Visited(walk.of) \cap Stewarded = {} THEN EffectiveSteward = NoParent
                         ELSE /\ EffectiveSteward \in Visited(walk.of) \cap Stewarded
                              /\ \A x \in Visited(walk.of) \cap Stewarded : x \in Visited(EffectiveSteward)
  BY DEF UndisturbedReadIsExact, Undisturbed
<1>1. walk.result \in {"READING", "DONE"}
  BY DEF ReadsInv, WalkRight, SubtreeRight, TrailRight
<1>2. Answered("BREADCRUMBS") =>
        /\ walk.seen = Visited(walk.of) /\ Len(walk.path) = Cardinality(walk.seen)
        /\ Parent(walk.path[1]) = NoParent /\ walk.path[Len(walk.path)] = walk.of
        /\ \A i \in 2..Len(walk.path) : Parent(walk.path[i]) = walk.path[i - 1]
  BY DEF ReadsInv, WalkRight, TrailRight, PathRight, WalkShape, Answered
<1> QED
  BY <1>1, <1>2, SubtreeExact, StewardExact DEF Below

\* While one writer runs at a time: whatever it commits, a walk keeps to its kind, and
\* one under which nothing was committed reports no circle and has read the hierarchy
\* as it is.
THEOREM ReadsCorrect ==
    ASSUME Single
    PROVE  ReadsSpec => []ReadsAreRight
<1>1. ReadsInv => ReadsAreRight
  BY ReadsExact DEF ReadsInv, ReadsAreRight
<1> QED
  BY <1>1, ReadsInductive, PTL

-----------------------------------------------------------------------------
(* What dialogs offer and what the tree shows *)

\* On the way up from x to another capability, one was read just below that one.
LEMMA ChildOnPath ==
    ASSUME TypeOK, NEW x \in exists, NEW y \in Visited(x), y # x
    PROVE  \E z \in Visited(x) : Parent(z) = y
<1> SUFFICES ASSUME \A z \in Visited(x) : Parent(z) # y PROVE FALSE
  OBVIOUS
<1> DEFINE S == Visited(x) \ {y}
<1>1. /\ x \in Visited(x) /\ Visited(x) \subseteq exists
      /\ \A z \in Visited(x) : Parent(z) \in Visited(x) \cup {NoParent}
  BY VisitedUpward
<1>2. S \in SUBSET exists /\ x \in S
  BY <1>1
<1>3. Upward(S)
  BY <1>1 DEF Upward
<1>4. Visited(x) \subseteq S
  <2> HIDE DEF S
  <2> QED
    BY <1>2, <1>3, VisitedLeast
<1> QED
  BY <1>4

\* What is listed has a root in the tree from which listed parents lead to it.
LEMMA ListedBelowRoot ==
    ASSUME TypeOK, Forest, NEW L \in SUBSET exists, NEW x \in L
    PROVE  UnderRoot(x, L)
<1> DEFINE S == {y \in L : y \in Visited(x) /\ Visited(x) \ Visited(y) \subseteq L}
<1>1. x \in exists /\ x \in Visited(x) /\ Visited(x) \subseteq exists
      /\ \A z \in Visited(x) : Parent(z) \in Visited(x) \cup {NoParent}
  BY VisitedUpward
<1>2. x \in S /\ S \subseteq exists
  BY <1>1
<1>3. PICK r \in S : Parent(r) \notin S
  <2> HIDE DEF S
  <2> QED
    BY <1>2 DEF Forest
<1>4. r \in L /\ r \in Visited(x) /\ Visited(x) \ Visited(r) \subseteq L
  OBVIOUS
<1>5. Parent(r) \notin L
  <2> SUFFICES ASSUME Parent(r) \in L PROVE FALSE
    OBVIOUS
  <2>1. Parent(r) # NoParent /\ Parent(r) \in Visited(x)
    BY <1>1, <1>4, NullsAssumption DEF TypeOK
  <2>2. Visited(r) = {r} \cup Visited(Parent(r))
    BY <1>4, <2>1, VisitedStep
  <2>3. Visited(x) \ Visited(Parent(r)) \subseteq L
    BY <1>4, <2>2
  <2> QED
    BY <1>3, <2>1, <2>3
<1> QED
  BY <1>4, <1>5 DEF UnderRoot, TreeRoots

\* What leads to something the filter keeps is kept, and can be expanded.
LEMMA KeptAbove ==
    ASSUME TypeOK, Forest, NEW L \in SUBSET exists, NEW M \in SUBSET L,
           NEW x \in FilterTree(L, M), NEW y \in ListedAncestors(x, L)
    PROVE  y \in CollectExpandable(FilterTree(L, M))
<1>1. PICK m \in L \cap M : x \in Visited(m) /\ Visited(m) \ Visited(x) \subseteq L
  BY DEF FilterTree
<1>2. x \in L /\ x \in exists /\ m \in exists
  BY DEF FilterTree
<1>3. y \in L /\ y \in Visited(x) /\ y # x /\ Visited(x) \ Visited(y) \subseteq L
  BY DEF ListedAncestors
<1>4. Visited(x) \subseteq Visited(m)
  BY <1>1, <1>2, VisitedFurther
<1>5. ASSUME NEW z \in L, z \in Visited(x), Visited(x) \ Visited(z) \subseteq L
      PROVE  z \in FilterTree(L, M)
  <2>1. Visited(m) \ Visited(z) \subseteq L
    BY <1>1, <1>5
  <2> QED
    BY <1>1, <1>4, <1>5, <2>1 DEF FilterTree
<1>6. PICK z \in Visited(x) : Parent(z) = y
  BY <1>2, <1>3, ChildOnPath
<1>7. z \in exists /\ Parent(z) # NoParent
  BY <1>2, <1>3, <1>6, VisitedFurther, NullsAssumption DEF TypeOK
<1>8. Visited(z) = {z} \cup Visited(y) /\ z \notin Visited(y)
  BY <1>6, <1>7, VisitedStep, NoWayBack
<1>9. z \in FilterTree(L, M)
  BY <1>3, <1>5, <1>8
<1>10. y \in FilterTree(L, M)
  BY <1>3, <1>5
<1> QED
  BY <1>6, <1>9, <1>10 DEF CollectExpandable

\* A subtree that was read and has not changed since has its root in the table.
RootFound ==
    walk # NoWalk /\ walk.undisturbed /\ walk.kind = "SUBTREE" =>
      (walk.seen # {} \/ walk.result = "DONE" => walk.of \in exists)

LEMMA RootFoundStep ==
    ASSUME ReadsTypeOK, RootFound, [ReadsNext]_readVars
    PROVE  RootFound'
<1>1. CASE Commit
  <2>1. CASE walk = NoWalk
    BY <1>1, <2>1 DEF Commit, RootFound
  <2>2. CASE walk # NoWalk
    <3>1. walk \in Walks
      BY <2>2 DEF ReadsTypeOK
    <3>2. /\ walk'.kind = walk.kind /\ walk'.seen = walk.seen /\ walk'.of = walk.of /\ walk'.result = walk.result
          /\ walk'.undisturbed => walk.undisturbed /\ exists' = exists
      BY <1>1, <2>2, <3>1 DEF Commit, Walks
    <3> QED
      BY <2>2, <3>2 DEF RootFound
  <2> QED
    BY <2>1, <2>2
<1>2. CASE \E kind \in WalkKinds, c \in Capabilities : StartWalk(kind, c) /\ UNCHANGED vars
  BY <1>2 DEF StartWalk, RootFound
<1>3. CASE ReadStep
  <2>1. walk # NoWalk /\ walk \in Walks /\ exists' = exists
    BY <1>3 DEF ReadStep, ReadRoot, ReadLevel, ReadAncestor, Walking, ReadsTypeOK, vars
  <2>2. CASE ReadRoot
    <3>1. walk.result = "READING"
      BY <2>2 DEF ReadRoot, Walking
    <3> QED
      BY <2>1, <2>2, <3>1 DEF ReadRoot, RootFound, Walks
  <2>3. CASE ReadLevel
    <3>1. walk.seen # {} /\ walk.kind = "SUBTREE"
      BY <2>3 DEF ReadLevel, Walking
    <3>2. walk'.undisturbed = walk.undisturbed /\ walk'.of = walk.of
      BY <2>1, <2>3 DEF ReadLevel, Walks
    <3> QED
      BY <2>1, <3>1, <3>2 DEF RootFound
  <2>4. CASE ReadAncestor
    <3>1. walk.kind # "SUBTREE"
      BY <2>4 DEF ReadAncestor, Walking
    <3>2. walk'.kind = walk.kind
      BY <2>1, <2>4 DEF ReadAncestor, NextAncestor, Walks
    <3> QED
      BY <3>1, <3>2 DEF RootFound
  <2> QED
    BY <1>3, <2>2, <2>3, <2>4 DEF ReadStep
<1>4. CASE Leave /\ UNCHANGED vars
  BY <1>4 DEF Leave, RootFound
<1>5. CASE UNCHANGED readVars
  BY <1>5 DEF readVars, RootFound
<1> QED
  BY <1>1, <1>2, <1>3, <1>4, <1>5 DEF ReadsNext

LEMMA TreeShows == ReadsInv /\ RootFound => TreeShowsMatches
<1> SUFFICES ASSUME ReadsInv, RootFound, NEW L \in SUBSET exists
             PROVE  /\ FlattenVisible(L, L, L) = L
                    /\ \A M \in SUBSET L :
                         LET kept == FilterTree(L, M) IN
                           /\ M \subseteq kept
                           /\ FlattenVisible(L, kept, CollectExpandable(kept)) = kept
                           /\ L = exists /\ Answered("SUBTREE") /\ walk.undisturbed =>
                                SubtreeList(M) = (kept \cap walk.seen) \ {walk.of}
                    /\ \A E \in SUBSET exists, selected \in L :
                         selected \in FlattenVisible(L, L, Reveal(L, KeepExpanded(L, E), selected))
  BY DEF TreeShowsMatches
<1>0. TypeOK /\ Forest
  BY DEF ReadsInv, ReadsTypeOK
<1>1. \A x \in L : UnderRoot(x, L)
  BY <1>0, ListedBelowRoot
<1>2. FlattenVisible(L, L, L) = L
  BY <1>1 DEF FlattenVisible, ListedAncestors
<1>3. ASSUME NEW M \in SUBSET L PROVE M \subseteq FilterTree(L, M)
  BY <1>0, <1>3, VisitedUpward DEF FilterTree
<1>4. ASSUME NEW M \in SUBSET L
      PROVE  FlattenVisible(L, FilterTree(L, M), CollectExpandable(FilterTree(L, M))) = FilterTree(L, M)
  <2>1. \A x \in FilterTree(L, M) : UnderRoot(x, L)
    BY <1>1 DEF FilterTree
  <2>2. \A x \in FilterTree(L, M) : ListedAncestors(x, L) \subseteq CollectExpandable(FilterTree(L, M))
    BY <1>0, KeptAbove
  <2> QED
    BY <2>1, <2>2 DEF FlattenVisible
<1>5. ASSUME NEW M \in SUBSET L, L = exists, Answered("SUBTREE"), walk.undisturbed
      PROVE  SubtreeList(M) = (FilterTree(L, M) \cap walk.seen) \ {walk.of}
  <2>1. walk.of \in exists
    BY <1>5 DEF RootFound, Answered
  <2>2. walk.seen = Below(walk.of)
    BY <1>5, <2>1, SubtreeExact DEF Undisturbed, Answered
  <2>3. ASSUME NEW x \in walk.seen, NEW y \in M, x \in Visited(y) PROVE y \in walk.seen
    <3>1. walk.of \in Visited(x) /\ x \in exists /\ y \in exists
      BY <1>5, <2>2, <2>3 DEF Below
    <3> QED
      BY <1>0, <2>2, <2>3, <3>1, VisitedFurther DEF Below
  <2>4. FilterTree(L, M) = {x \in exists : \E y \in M : x \in Visited(y)}
    <3>1. \A y \in exists : Visited(y) \subseteq exists
      BY <1>0, VisitedUpward
    <3> QED
      BY <1>5, <3>1 DEF FilterTree
  <2>5. walk.seen \subseteq exists
    BY <2>2 DEF Below
  <2> QED
    BY <2>3, <2>4, <2>5 DEF SubtreeList
<1>6. ASSUME NEW E \in SUBSET exists, NEW selected \in L
      PROVE  selected \in FlattenVisible(L, L, Reveal(L, KeepExpanded(L, E), selected))
  BY <1>1, <1>6 DEF FlattenVisible, Reveal
<1> QED
  BY <1>2, <1>3, <1>4, <1>5, <1>6

LEMMA OffersMatch == ReadsInv => OffersMatchServer
<1> SUFFICES ASSUME ReadsInv, Undisturbed, walk.kind = "SUBTREE", walk.result # "READING"
             PROVE  OffersMatchServer
  BY DEF OffersMatchServer, Undisturbed
<1> DEFINE c == walk.of
           Asked(S, t) == [affected |-> S, target |-> t]
<1>0. TypeOK /\ Forest /\ walk.of \in exists /\ walk.of \in Capabilities /\ NoParent \notin Capabilities
  BY NullsAssumption DEF ReadsInv, ReadsTypeOK, Undisturbed, TypeOK
<1>1. Answered("SUBTREE")
  BY ReadsExact DEF UndisturbedReadIsExact, Answered, Undisturbed
<1>2. walk.seen = Below(walk.of) /\ walk.result = "DONE"
  BY <1>1, SubtreeExact DEF Answered
<1>3. walk.of \in walk.seen
  BY <1>0, <1>2, BelowClosed
<1>4. \A p \in exists : p \notin walk.seen <=> walk.of \notin Visited(p)
  BY <1>2 DEF Below
<1>5. \A p \in exists : NotDescendant(walk.of, p) <=> p \notin walk.seen
  BY <1>0, <1>4, RootAbove DEF NotDescendant
<1>6. \A S, t : Asked(S, t).affected = S /\ Asked(S, t).target = t
  OBVIOUS
<1>7. \A b : b.affected = {walk.of} => Target(b) = walk.of
  BY <1>0 DEF Target
<1>8. ASSUME NEW p \in Parents
      PROVE  p \in ReparentOffers(c) <=> ReparentAllowed(Asked({c}, p))
  <2>1. Target(Asked({c}, p)) = c /\ Asked({c}, p).target = p
    BY <1>6, <1>7
  <2>2. p \in ReparentOffers(c) <=> p = NoParent \/ (p \in exists /\ p \notin walk.seen)
    BY <1>2, <1>3 DEF ReparentOffers, ExcludedIds
  <2>3. p = NoParent => p \notin exists
    BY <1>0 DEF TypeOK
  <2> QED
    BY <1>0, <1>3, <1>5, <2>1, <2>2, <2>3 DEF ReparentAllowed
<1>9. ASSUME NEW p \in exists
      PROVE  p \in ParentOptions(c) <=>
               UpdateAllowed([affected |-> {c}, fields |-> {"parentId"}, row |-> [NewRow EXCEPT !.parentId = p]])
  <2> DEFINE b == [affected |-> {c}, fields |-> {"parentId"}, row |-> [NewRow EXCEPT !.parentId = p]]
  <2>1. b.affected = {walk.of} /\ "parentId" \in b.fields /\ b.row.parentId = p
    BY DEF NewRow
  <2>2. Target(b) = walk.of
    BY <1>7, <2>1
  <2>3. p # NoParent
    BY <1>0 DEF TypeOK
  <2>4. p \in ParentOptions(c) <=> p \notin walk.seen
    BY <1>2 DEF ParentOptions
  <2> HIDE DEF b
  <2>5. UpdateAllowed(b) <=> p \notin walk.seen
    BY <1>0, <1>3, <1>5, <2>1, <2>2, <2>3 DEF UpdateAllowed
  <2> QED
    BY <2>4, <2>5 DEF b
<1>10. CanDelete(c) <=> RemoveAllowed(Asked({c}, NoParent))
  BY <1>0, <1>6, <1>7 DEF CanDelete, RemoveAllowed
<1>11. ASSUME NEW x \in exists \ {c}, NEW s \in {c, x}
       PROVE  Asked({c, x}, s) \in MergeOffers(c)
  BY DEF MergeOffers
<1>12. RetireAllowed(Asked({c}, NoParent)) => MoveOffered(c)
  BY <1>6 DEF RetireAllowed, MoveOffered
<1> HIDE DEF c
<1> QED
  BY <1>8, <1>9, <1>10, <1>11, <1>12 DEF OffersMatchServer, c

\* While one writer runs at a time: the dialogs of a page whose subtree has not changed
\* since it was read offer what the server accepts, and whatever the filters leave in
\* the list, the tree shows it and the way to it.
THEOREM OffersAndTreeCorrect ==
    ASSUME Single
    PROVE  ReadsSpec => []PagesMatchTree
<1>1. ReadsInit => RootFound
  BY DEF ReadsInit, RootFound
<1>2. ReadsInv /\ RootFound /\ [ReadsNext]_readVars => RootFound'
  BY RootFoundStep DEF ReadsInv
<1>3. ReadsInv /\ RootFound => PagesMatchTree
  BY TreeShows, OffersMatch DEF PagesMatchTree
<1> QED
  BY <1>1, <1>2, <1>3, ReadsInductive, PTL DEF ReadsSpec
-----------------------------------------------------------------------------
(* Totals *)

\* A total is the sum over its keys, one picked after the other.
LEMMA TotalDef ==
    ASSUME NEW g
    PROVE  Total(g) =
             (CHOOSE h : h = [s \in SUBSET DOMAIN g |->
                IF s = {} THEN 0
                ELSE g[CHOOSE k \in s : TRUE] + h[s \ {CHOOSE k \in s : TRUE}]])[DOMAIN g]
  BY DEF Total, MapThenSumSet, MapThenFoldSet

\* h gives every set of keys the sum of g over it.
SumsOver(h, g, K) ==
    /\ h[{}] = 0
    /\ \A s \in SUBSET K : \A k \in s : h[s] = g[k] + h[s \ {k}]

\* A function that adds up key by key gives the total, whichever key is picked first.
LEMMA SumIs ==
    ASSUME NEW K, IsFiniteSet(K), NEW g \in [K -> Nat], NEW h \in [SUBSET K -> Nat], SumsOver(h, g, K)
    PROVE  Total(g) = h[K]
<1> DEFINE Pick(s) == CHOOSE k \in s : TRUE
           F(f) == [s \in SUBSET DOMAIN g |-> IF s = {} THEN 0 ELSE g[Pick(s)] + f[s \ {Pick(s)}]]
           sum == CHOOSE f : f = F(f)
<1>1. \A s \in SUBSET K : s # {} => Pick(s) \in s
  OBVIOUS
<1> HIDE DEF Pick
<1>2. h = F(h)
  <2>1. \A s \in SUBSET K : h[s] = IF s = {} THEN 0 ELSE g[Pick(s)] + h[s \ {Pick(s)}]
    BY <1>1 DEF SumsOver
  <2> QED
    BY <2>1
<1>3. sum = F(sum)
  BY <1>2
<1>4. Total(g) = sum[K]
  BY TotalDef DEF Pick
<1> HIDE DEF sum
<1>5. \A s \in SUBSET K : sum[s] = IF s = {} THEN 0 ELSE g[Pick(s)] + sum[s \ {Pick(s)}]
  BY <1>3
<1>6. ASSUME NEW s0 \in SUBSET K, sum[s0] # h[s0]
      PROVE  FALSE
  <2> DEFINE Wrong == {s \in SUBSET K : sum[s] # h[s]}
             Sizes == {Cardinality(s) : s \in Wrong}
  <2>1. \A s \in SUBSET K : IsFiniteSet(s) /\ Cardinality(s) \in Nat
    BY FS_Subset, FS_CardinalityType
  <2>2. Sizes \subseteq Nat /\ Sizes # {}
    <3>1. s0 \in Wrong
      BY <1>6
    <3>2. Cardinality(s0) \in Sizes
      BY <3>1
    <3> HIDE DEF Wrong
    <3>3. \A s \in Wrong : Cardinality(s) \in Nat
      BY <2>1 DEF Wrong
    <3> QED
      BY <3>2, <3>3
  <2>3. PICK n \in Sizes : \A k \in Sizes : n <= k
    BY <2>2, LeastNumber
  <2>4. PICK s \in Wrong : n = Cardinality(s)
    OBVIOUS
  <2>5. s # {}
    BY <1>5 DEF SumsOver
  <2>6. Pick(s) \in s /\ s \ {Pick(s)} \in SUBSET K
    BY <1>1, <2>5
  <2>7. Cardinality(s \ {Pick(s)}) = Cardinality(s) - 1
    BY <2>1, <2>6, FS_RemoveElement
  <2>8. s \ {Pick(s)} \notin Wrong
    <3> SUFFICES ASSUME s \ {Pick(s)} \in Wrong PROVE FALSE
      OBVIOUS
    <3>1. Cardinality(s \ {Pick(s)}) \in Sizes
      OBVIOUS
    <3>2. n <= n - 1 /\ n \in Nat
      BY <2>1, <2>2, <2>3, <2>4, <2>7, <3>1
    <3> QED
      BY <3>2
  <2>9. sum[s] = h[s]
    BY <1>5, <2>5, <2>6, <2>8 DEF SumsOver
  <2> QED
    BY <2>9
<1> QED
  BY <1>4, <1>6

\* The parts of a set, counted one by one, are as many as its members.
LEMMA PartsAdd ==
    ASSUME NEW K, IsFiniteSet(K), NEW T, IsFiniteSet(T), NEW P \in [K -> SUBSET T],
           \A k, l \in K : k # l => P[k] \cap P[l] = {},
           \A x \in T : \E k \in K : x \in P[k]
    PROVE  Total([k \in K |-> Cardinality(P[k])]) = Cardinality(T)
<1> DEFINE g == [k \in K |-> Cardinality(P[k])]
           Of(s) == UNION {P[k] : k \in s}
           h == [s \in SUBSET K |-> Cardinality(Of(s))]
<1>1. h[{}] = 0
  <2>1. Of({}) = {}
    OBVIOUS
  <2> QED
    BY <2>1, FS_EmptySet
<1>2. ASSUME NEW s \in SUBSET K, NEW k \in s
      PROVE  h[s] = g[k] + h[s \ {k}]
  <2>1. Of(s) = P[k] \cup Of(s \ {k})
    OBVIOUS
  <2>2. P[k] \cap Of(s \ {k}) = {}
    OBVIOUS
  <2>3. P[k] \subseteq T /\ Of(s \ {k}) \subseteq T
    OBVIOUS
  <2>4. IsFiniteSet(P[k]) /\ IsFiniteSet(Of(s \ {k}))
    BY <2>3, FS_Subset
  <2> HIDE DEF Of
  <2>5. Cardinality(Of(s)) = Cardinality(P[k]) + Cardinality(Of(s \ {k})) - Cardinality(P[k] \cap Of(s \ {k}))
    BY <2>1, <2>4, FS_Union
  <2>6. /\ Cardinality(P[k] \cap Of(s \ {k})) = 0
        /\ Cardinality(P[k]) \in Nat /\ Cardinality(Of(s \ {k})) \in Nat
    BY <2>2, <2>4, FS_EmptySet, FS_CardinalityType
  <2>7. h[s] = Cardinality(Of(s)) /\ h[s \ {k}] = Cardinality(Of(s \ {k})) /\ g[k] = Cardinality(P[k])
    OBVIOUS
  <2> QED
    BY <2>5, <2>6, <2>7
<1>3. g \in [K -> Nat] /\ h \in [SUBSET K -> Nat]
  <2>1. \A x \in SUBSET T : Cardinality(x) \in Nat
    BY FS_Subset, FS_CardinalityType
  <2>2. \A s \in SUBSET K : Of(s) \subseteq T
    OBVIOUS
  <2> HIDE DEF Of
  <2> QED
    BY <2>1, <2>2
<1>4. Of(K) = T
  OBVIOUS
<1>5. h[K] = Cardinality(T)
  BY <1>4
<1> HIDE DEF h, g
<1>6. SumsOver(h, g, K)
  BY <1>1, <1>2 DEF SumsOver
<1>7. Total(g) = h[K]
  <2> HIDE DEF Of
  <2> QED
    BY <1>3, <1>6, SumIs
<1> QED
  BY <1>5, <1>7 DEF g

-----------------------------------------------------------------------------
(* The reports *)

\* Finitely many capabilities are in finitely many domains.
LEMMA DomainsFinite ==
    ASSUME NEW S, IsFiniteSet(S), NEW row
    PROVE  IsFiniteSet(DomainKeys(S, row))
<1> DEFINE key == [c \in S |-> DomainKey(row[c].domain)]
<1>1. key \in Surjection(S, DomainKeys(S, row))
  BY DEF Surjection, DomainKeys
<1> QED
  BY <1>1, FS_Surjection

\* And in finitely many states.
LEMMA EnumsFinite == IsFiniteSet(ReportStatus) /\ IsFiniteSet(MappingStates)
<1>1. /\ ReportStatus = ((({} \cup {"DRAFT"}) \cup {"ACTIVE"}) \cup {"DEPRECATED"}) \cup {"RETIRED"}
      /\ MappingStates = (({} \cup {"ACTIVE"}) \cup {"INACTIVE"}) \cup {"PENDING"}
  BY DEF ReportStatus, MappingStates
<1>2. IsFiniteSet({})
  BY FS_EmptySet
<1>3. \A S, x : IsFiniteSet(S) => IsFiniteSet(S \cup {x})
  BY FS_AddElement
<1> QED
  BY <1>1, <1>2, <1>3

\* The domains of S share out every part T of S.
LEMMA DomainsAdd ==
    ASSUME NEW S, IsFiniteSet(S), NEW row, NEW T, T \subseteq S
    PROVE  Total([k \in DomainKeys(S, row) |-> Cardinality(InDomain(T, row, k))]) = Cardinality(T)
<1> DEFINE K == DomainKeys(S, row)
           P == [k \in K |-> InDomain(T, row, k)]
<1>1. IsFiniteSet(K)
  BY DomainsFinite
<1>2. IsFiniteSet(T)
  BY FS_Subset
<1>3. \A x \in T : DomainKey(row[x].domain) \in K
  BY DEF DomainKeys
<1>4. P \in [K -> SUBSET T]
  BY DEF InDomain
<1>5. \A k, l \in K : k # l => P[k] \cap P[l] = {}
  BY DEF InDomain
<1>6. \A x \in T : \E k \in K : x \in P[k]
  BY <1>3 DEF InDomain
<1>7. [k \in K |-> Cardinality(P[k])] = [k \in K |-> Cardinality(InDomain(T, row, k))]
  OBVIOUS
<1> HIDE DEF K, P
<1>8. Total([k \in K |-> Cardinality(P[k])]) = Cardinality(T)
  BY <1>1, <1>2, <1>4, <1>5, <1>6, PartsAdd
<1> QED
  BY <1>7, <1>8 DEF K

\* So do the cells of the heatmap.
LEMMA CellsAdd ==
    ASSUME NEW S, IsFiniteSet(S), NEW row, NEW T, T \subseteq S, \A c \in S : row[c].status \in ReportStatus
    PROVE  Total([cell \in DomainKeys(S, row) \X ReportStatus |->
                    Cardinality(WithStatus(InDomain(T, row, cell[1]), row, cell[2]))]) = Cardinality(T)
<1> DEFINE K == DomainKeys(S, row) \X ReportStatus
           P == [cell \in K |-> WithStatus(InDomain(T, row, cell[1]), row, cell[2])]
<1>1. IsFiniteSet(K)
  BY DomainsFinite, EnumsFinite, FS_Product
<1>2. IsFiniteSet(T)
  BY FS_Subset
<1>3. \A x \in T : <<DomainKey(row[x].domain), row[x].status>> \in K
  BY DEF DomainKeys
<1>4. P \in [K -> SUBSET T]
  BY DEF InDomain, WithStatus
<1>5. \A k, l \in K : k # l => P[k] \cap P[l] = {}
  <2> SUFFICES ASSUME NEW k \in K, NEW l \in K, NEW x \in P[k] \cap P[l] PROVE k = l
    OBVIOUS
  <2>1. DomainKey(row[x].domain) = k[1] /\ row[x].status = k[2]
    BY DEF InDomain, WithStatus
  <2>2. DomainKey(row[x].domain) = l[1] /\ row[x].status = l[2]
    BY DEF InDomain, WithStatus
  <2>3. k = <<k[1], k[2]>> /\ l = <<l[1], l[2]>>
    OBVIOUS
  <2> QED
    BY <2>1, <2>2, <2>3
<1>6. \A x \in T : \E k \in K : x \in P[k]
  <2> SUFFICES ASSUME NEW x \in T PROVE x \in P[<<DomainKey(row[x].domain), row[x].status>>]
    BY <1>3, Zenon
  <2> QED
    BY <1>3 DEF InDomain, WithStatus
<1>7. [k \in K |-> Cardinality(P[k])] =
        [cell \in K |-> Cardinality(WithStatus(InDomain(T, row, cell[1]), row, cell[2]))]
  OBVIOUS
<1> HIDE DEF K, P
<1>8. Total([k \in K |-> Cardinality(P[k])]) = Cardinality(T)
  BY <1>1, <1>2, <1>4, <1>5, <1>6, PartsAdd
<1> QED
  BY <1>7, <1>8 DEF K

\* What is counted within a domain is the domain's share of what is counted in total.
LEMMA Narrowed ==
    ASSUME NEW S, NEW M, NEW row, NEW k
    PROVE  /\ InDomain(S, row, k) \cap M = InDomain(S \cap M, row, k)
           /\ LeavesOf(InDomain(S, row, k), row) = InDomain(LeavesOf(S, row), row, k)
           /\ FullyCovered(InDomain(S, row, k), row) = InDomain(FullyCovered(S, row), row, k)
  BY DEF InDomain, LeavesOf, OfType, FullyCovered

\* The health summary: its domains sum to its totals.
LEMMA HealthAdds ==
    ASSUME NEW S, IsFiniteSet(S), NEW row, MappedIds(S) \subseteq S
    PROVE  LET health == ModelHealth(S, row) IN
             /\ Total([k \in DOMAIN health.domains |-> health.domains[k].mappedCapabilityCount])
                  = health.total.mappedCapabilityCount
             /\ Total([k \in DOMAIN health.domains |-> health.domains[k].leafCapabilityCount])
                  = health.total.leafCapabilityCount
             /\ health.total.mappedLeafCapabilityCount = Cardinality(LeavesOf(S, row) \cap MappedIds(S))
             /\ health.total.stewardshipCoverageCount = Cardinality(FullyCovered(S, row))
             /\ health.totalMappings = Cardinality(FilteredMappings(S))
<1> DEFINE health == ModelHealth(S, row)
           K == DomainKeys(S, row)
           M == MappedIds(S)
<1>1. /\ health.domains = [k \in K |-> HealthOf(InDomain(S, row, k), row, M)]
      /\ health.totalMappings = Cardinality(FilteredMappings(S))
      /\ health.total = [HealthOf(S, row, M) EXCEPT !.mappedCapabilityCount = Cardinality(M)]
  BY DEF ModelHealth
<1>2. \A R : /\ HealthOf(R, row, M).mappedCapabilityCount = Cardinality(R \cap M)
             /\ HealthOf(R, row, M).leafCapabilityCount = Cardinality(LeavesOf(R, row))
             /\ HealthOf(R, row, M).mappedLeafCapabilityCount = Cardinality(LeavesOf(R, row) \cap M)
             /\ HealthOf(R, row, M).stewardshipCoverageCount = Cardinality(FullyCovered(R, row))
  BY DEF HealthOf
<1>3. /\ health.total.mappedCapabilityCount = Cardinality(M)
      /\ health.total.leafCapabilityCount = Cardinality(LeavesOf(S, row))
      /\ health.total.mappedLeafCapabilityCount = Cardinality(LeavesOf(S, row) \cap M)
      /\ health.total.stewardshipCoverageCount = Cardinality(FullyCovered(S, row))
  BY <1>1 DEF HealthOf
<1> HIDE DEF health
<1>4. [k \in DOMAIN health.domains |-> health.domains[k].mappedCapabilityCount]
        = [k \in K |-> Cardinality(InDomain(M, row, k))]
  <2>1. \A k : InDomain(S, row, k) \cap M = InDomain(M, row, k)
    BY DEF InDomain
  <2> HIDE DEF M, K
  <2> QED
    BY <1>1, <1>2, <2>1
<1>5. [k \in DOMAIN health.domains |-> health.domains[k].leafCapabilityCount]
        = [k \in K |-> Cardinality(InDomain(LeavesOf(S, row), row, k))]
  <2>1. \A k : LeavesOf(InDomain(S, row, k), row) = InDomain(LeavesOf(S, row), row, k)
    BY Narrowed
  <2> HIDE DEF M, K
  <2> QED
    BY <1>1, <1>2, <2>1
<1>6. LeavesOf(S, row) \subseteq S
  BY DEF LeavesOf, OfType
<1>7. Total([k \in K |-> Cardinality(InDomain(M, row, k))]) = Cardinality(M)
  BY DomainsAdd
<1>8. Total([k \in K |-> Cardinality(InDomain(LeavesOf(S, row), row, k))]) = Cardinality(LeavesOf(S, row))
  BY <1>6, DomainsAdd
<1> HIDE DEF M, K
<1>9. /\ Total([k \in DOMAIN health.domains |-> health.domains[k].mappedCapabilityCount])
           = health.total.mappedCapabilityCount
      /\ Total([k \in DOMAIN health.domains |-> health.domains[k].leafCapabilityCount])
           = health.total.leafCapabilityCount
  BY <1>3, <1>4, <1>5, <1>7, <1>8
<1> QED
  BY <1>1, <1>3, <1>9 DEF health, M

\* The stewardship coverage.
LEMMA StewardshipAdds ==
    ASSUME NEW S, IsFiniteSet(S), NEW row
    PROVE  LET steward == StewardshipCoverage(S, row) IN
             Total([k \in DOMAIN steward.domains |-> steward.domains[k].fullyCoveredCount])
               = Cardinality(FullyCovered(S, row))
<1> DEFINE steward == StewardshipCoverage(S, row)
           K == DomainKeys(S, row)
<1>1. steward.domains = [k \in K |-> StewardshipOf(InDomain(S, row, k), row)]
  BY DEF StewardshipCoverage
<1>2. \A R : StewardshipOf(R, row).fullyCoveredCount = Cardinality(FullyCovered(R, row))
  BY DEF StewardshipOf
<1>3. \A k : FullyCovered(InDomain(S, row, k), row) = InDomain(FullyCovered(S, row), row, k)
  BY Narrowed
<1>4. FullyCovered(S, row) \subseteq S
  BY DEF FullyCovered
<1>5. Total([k \in K |-> Cardinality(InDomain(FullyCovered(S, row), row, k))]) = Cardinality(FullyCovered(S, row))
  BY <1>4, DomainsAdd
<1> HIDE DEF steward, K
<1>6. [k \in DOMAIN steward.domains |-> steward.domains[k].fullyCoveredCount]
        = [k \in K |-> Cardinality(InDomain(FullyCovered(S, row), row, k))]
  BY <1>1, <1>2, <1>3
<1>7. Total([k \in DOMAIN steward.domains |-> steward.domains[k].fullyCoveredCount]) = Cardinality(FullyCovered(S, row))
  BY <1>5, <1>6
<1> QED
  BY <1>7 DEF steward

\* The mapping coverage: its domains, and its mappings by state.
LEMMA CoverageAdds ==
    ASSUME NEW S, IsFiniteSet(S), NEW row, TypeOK
    PROVE  LET coverage == MappingCoverage(S, row) IN
             /\ Total([k \in DOMAIN coverage.domains |-> coverage.domains[k].mappedLeafCapabilities])
                  = Cardinality(LeavesOf(S, row) \cap MappedIds(S))
             /\ Total(coverage.mappingStateCounts) = Cardinality(FilteredMappings(S))
             /\ coverage.mappedCapabilities = Cardinality(MappedIds(S))
             /\ coverage.total.mappedLeafCapabilities = Cardinality(LeavesOf(S, row) \cap MappedIds(S))
             /\ coverage.total.activeMappedLeafCapabilities
                  = Cardinality(LeavesOf(S, row) \cap ActiveMappedIds(S))
<1> DEFINE coverage == MappingCoverage(S, row)
           L == LeavesOf(S, row)
           K == DomainKeys(L, row)
           M == MappedIds(S)
           A == ActiveMappedIds(S)
           F == FilteredMappings(S)
           P == [s \in MappingStates |-> InState(F, s)]
<1>1. /\ coverage.domains = [k \in K |-> CoverageOf(InDomain(S, row, k), row, M, A)]
      /\ coverage.mappingStateCounts = [s \in MappingStates |-> Cardinality(InState(F, s))]
      /\ coverage.mappedCapabilities = Cardinality(M)
      /\ coverage.total = CoverageOf(S, row, M, A)
  BY DEF MappingCoverage
<1>2. \A R : /\ CoverageOf(R, row, M, A).mappedLeafCapabilities = Cardinality(LeavesOf(R, row) \cap M)
             /\ CoverageOf(R, row, M, A).activeMappedLeafCapabilities = Cardinality(LeavesOf(R, row) \cap A)
  BY DEF CoverageOf
<1>3. \A k : LeavesOf(InDomain(S, row, k), row) \cap M = InDomain(L \cap M, row, k)
  BY DEF InDomain, LeavesOf, OfType
<1>4. L \subseteq S /\ L \cap M \subseteq L
  BY DEF LeavesOf, OfType
<1>5. Total([k \in K |-> Cardinality(InDomain(L \cap M, row, k))]) = Cardinality(L \cap M)
  <2>1. IsFiniteSet(L)
    BY <1>4, FS_Subset
  <2> QED
    BY <1>4, <2>1, DomainsAdd
<1>6. F \subseteq Mappings /\ \A m \in F : mapping[m].state \in MappingStates
  BY DEF FilteredMappings, MappingStates, TypeOK
<1>7. Total([s \in MappingStates |-> Cardinality(P[s])]) = Cardinality(F)
  <2>1. IsFiniteSet(F) /\ IsFiniteSet(MappingStates)
    BY <1>6, TablesAssumption, EnumsFinite, FS_Subset
  <2>2. P \in [MappingStates -> SUBSET F]
    BY DEF InState
  <2>3. \A k, l \in MappingStates : k # l => P[k] \cap P[l] = {}
    BY DEF InState
  <2>4. \A m \in F : \E k \in MappingStates : m \in P[k]
    BY <1>6 DEF InState
  <2> HIDE DEF P, F
  <2> QED
    BY <2>1, <2>2, <2>3, <2>4, PartsAdd
<1>8. [s \in MappingStates |-> Cardinality(P[s])] = [s \in MappingStates |-> Cardinality(InState(F, s))]
  OBVIOUS
<1> HIDE DEF coverage, L, K, M, A, F, P
<1>9. [k \in DOMAIN coverage.domains |-> coverage.domains[k].mappedLeafCapabilities]
        = [k \in K |-> Cardinality(InDomain(L \cap M, row, k))]
  BY <1>1, <1>2, <1>3
<1>10. Total([k \in DOMAIN coverage.domains |-> coverage.domains[k].mappedLeafCapabilities]) = Cardinality(L \cap M)
  BY <1>5, <1>9
<1>11. Total(coverage.mappingStateCounts) = Cardinality(F)
  BY <1>1, <1>7, <1>8
<1>12. /\ coverage.total.mappedLeafCapabilities = Cardinality(L \cap M)
       /\ coverage.total.activeMappedLeafCapabilities = Cardinality(L \cap A)
  BY <1>1, <1>2 DEF L
<1> QED
  BY <1>1, <1>10, <1>11, <1>12 DEF coverage, L, M, A, F

\* The heatmap.
LEMMA HeatmapAdds ==
    ASSUME NEW S, IsFiniteSet(S), NEW row, MappedIds(S) \subseteq S,
           \A c \in S : row[c].status \in ReportStatus
    PROVE  LET cells == Heatmap(S, row) IN
             /\ Total([c \in DOMAIN cells |-> cells[c].capabilityCount]) = Cardinality(S)
             /\ Total([c \in DOMAIN cells |-> cells[c].mappedCapabilityCount]) = Cardinality(MappedIds(S))
             /\ Total([c \in DOMAIN cells |-> cells[c].mappedLeafCapabilityCount])
                  = Cardinality(LeavesOf(S, row) \cap MappedIds(S))
<1> DEFINE cells == Heatmap(S, row)
           K == DomainKeys(S, row) \X ReportStatus
           M == MappedIds(S)
           L == LeavesOf(S, row)
           In(T, c) == WithStatus(InDomain(T, row, c[1]), row, c[2])
<1>1. /\ DOMAIN cells = K
      /\ \A c \in K : /\ cells[c].capabilityCount = Cardinality(In(S, c))
                      /\ cells[c].mappedCapabilityCount = Cardinality(In(S, c) \cap M)
                      /\ cells[c].mappedLeafCapabilityCount = Cardinality(LeavesOf(In(S, c), row) \cap M)
  BY DEF Heatmap
<1>2. \A c : /\ In(S, c) \cap M = In(M, c)
             /\ LeavesOf(In(S, c), row) \cap M = In(L \cap M, c)
  BY DEF WithStatus, InDomain, LeavesOf, OfType
<1>3. L \cap M \subseteq S
  BY DEF LeavesOf, OfType
<1>4. /\ Total([c \in K |-> Cardinality(In(S, c))]) = Cardinality(S)
      /\ Total([c \in K |-> Cardinality(In(M, c))]) = Cardinality(M)
      /\ Total([c \in K |-> Cardinality(In(L \cap M, c))]) = Cardinality(L \cap M)
  <2>1. ASSUME NEW T, T \subseteq S PROVE Total([c \in K |-> Cardinality(In(T, c))]) = Cardinality(T)
    BY <2>1, CellsAdd
  <2> HIDE DEF K, M, L, In
  <2>2. M \subseteq S /\ L \cap M \subseteq S
    BY <1>3 DEF M
  <2> QED
    BY <2>1, <2>2
<1> HIDE DEF cells, K, M, L, In
<1>5. /\ [c \in DOMAIN cells |-> cells[c].capabilityCount] = [c \in K |-> Cardinality(In(S, c))]
      /\ [c \in DOMAIN cells |-> cells[c].mappedCapabilityCount] = [c \in K |-> Cardinality(In(M, c))]
      /\ [c \in DOMAIN cells |-> cells[c].mappedLeafCapabilityCount] = [c \in K |-> Cardinality(In(L \cap M, c))]
  BY <1>1, <1>2
<1>6. /\ Total([c \in DOMAIN cells |-> cells[c].capabilityCount]) = Cardinality(S)
      /\ Total([c \in DOMAIN cells |-> cells[c].mappedCapabilityCount]) = Cardinality(M)
      /\ Total([c \in DOMAIN cells |-> cells[c].mappedLeafCapabilityCount]) = Cardinality(L \cap M)
  BY <1>4, <1>5
<1> QED
  BY <1>6 DEF cells, M, L

\* Only capabilities that were returned are counted as mapped.
LEMMA MappedAreReturned ==
    ASSUME NEW S
    PROVE  MappedIds(S) \subseteq S /\ ActiveMappedIds(S) \subseteq MappedIds(S)
<1>1. \A m \in FilteredMappings(S) : mapping[m].capability \in S
  BY DEF FilteredMappings
<1>2. InState(FilteredMappings(S), "ACTIVE") \subseteq FilteredMappings(S)
  BY DEF InState
<1> QED
  BY <1>1, <1>2 DEF MappedIds, ActiveMappedIds

\* The numbers of every report agree, on whatever rows it was made of.
LEMMA TablesAddUp == TypeOK => ReportsAddUp
<1> SUFFICES ASSUME TypeOK, NEW S \in SUBSET Capabilities, NEW row \in [S -> ReportRows]
             PROVE  NumbersAgree(S, row)
  BY DEF ReportsAddUp
<1> DEFINE health == ModelHealth(S, row)
           coverage == MappingCoverage(S, row)
           steward == StewardshipCoverage(S, row)
           cells == Heatmap(S, row)
           M == MappedIds(S)
           L == LeavesOf(S, row)
<1>1. IsFiniteSet(S)
  BY TablesAssumption, FS_Subset
<1>2. \A c \in S : row[c].status \in ReportStatus
  BY ReportRowsAssumption
<1>3. M \subseteq S /\ ActiveMappedIds(S) \subseteq M
  BY MappedAreReturned
<1>4. /\ Total([k \in DOMAIN health.domains |-> health.domains[k].mappedCapabilityCount])
           = health.total.mappedCapabilityCount
      /\ Total([k \in DOMAIN health.domains |-> health.domains[k].leafCapabilityCount])
           = health.total.leafCapabilityCount
      /\ health.total.mappedLeafCapabilityCount = Cardinality(L \cap M)
      /\ health.total.stewardshipCoverageCount = Cardinality(FullyCovered(S, row))
      /\ health.totalMappings = Cardinality(FilteredMappings(S))
  BY <1>1, <1>3, HealthAdds
<1>5. Total([k \in DOMAIN steward.domains |-> steward.domains[k].fullyCoveredCount])
        = Cardinality(FullyCovered(S, row))
  BY <1>1, StewardshipAdds
<1>6. /\ Total([k \in DOMAIN coverage.domains |-> coverage.domains[k].mappedLeafCapabilities])
           = Cardinality(L \cap M)
      /\ Total(coverage.mappingStateCounts) = Cardinality(FilteredMappings(S))
      /\ coverage.mappedCapabilities = Cardinality(M)
      /\ coverage.total.mappedLeafCapabilities = Cardinality(L \cap M)
      /\ coverage.total.activeMappedLeafCapabilities = Cardinality(L \cap ActiveMappedIds(S))
  BY <1>1, CoverageAdds
<1>7. /\ Total([c \in DOMAIN cells |-> cells[c].capabilityCount]) = Cardinality(S)
      /\ Total([c \in DOMAIN cells |-> cells[c].mappedCapabilityCount]) = Cardinality(M)
      /\ Total([c \in DOMAIN cells |-> cells[c].mappedLeafCapabilityCount]) = Cardinality(L \cap M)
  BY <1>1, <1>2, <1>3, HeatmapAdds
<1>8. /\ Cardinality(L \cap ActiveMappedIds(S)) <= Cardinality(L \cap M)
      /\ Cardinality(M) <= Cardinality(S)
  <2>1. IsFiniteSet(L \cap M)
    BY <1>1, <1>3, FS_Subset
  <2>2. L \cap ActiveMappedIds(S) \subseteq L \cap M
    BY <1>3
  <2> QED
    BY <1>1, <1>3, <2>1, <2>2, FS_Subset
<1> HIDE DEF health, coverage, steward, cells, M, L
<1>9. /\ Total([k \in DOMAIN coverage.domains |-> coverage.domains[k].mappedLeafCapabilities])
           = health.total.mappedLeafCapabilityCount
      /\ Total(coverage.mappingStateCounts) = health.totalMappings
      /\ Total([k \in DOMAIN steward.domains |-> steward.domains[k].fullyCoveredCount])
           = health.total.stewardshipCoverageCount
      /\ Total([c \in DOMAIN cells |-> cells[c].mappedCapabilityCount]) = coverage.mappedCapabilities
      /\ Total([c \in DOMAIN cells |-> cells[c].mappedLeafCapabilityCount])
           = coverage.total.mappedLeafCapabilities
      /\ coverage.total.activeMappedLeafCapabilities <= coverage.total.mappedLeafCapabilities
      /\ coverage.mappedCapabilities <= Cardinality(S)
  BY <1>4, <1>5, <1>6, <1>7, <1>8
<1> QED
  BY <1>4, <1>7, <1>9 DEF health, coverage, steward, cells, NumbersAgree

\* What is impacted by a change of one capability.
LEMMA SeverityOfOne ==
    ASSUME NEW c \in exists
    PROVE  /\ Analyse({c}, "UPDATE").severity = "LOW" <=> c \notin MappedIds(exists)
           /\ Analyse({c}, "RETIRE").severity = "HIGH" <=> c \in ActiveMappedIds(exists)
<1> DEFINE F == FilteredMappings({c})
           A == InState(F, "ACTIVE")
<1>1. /\ Analyse({c}, "UPDATE").severity = ComputeSeverity(Cardinality(A), Cardinality(F), "UPDATE")
      /\ Analyse({c}, "RETIRE").severity = ComputeSeverity(Cardinality(A), Cardinality(F), "RETIRE")
  BY DEF Analyse
<1>2. IsFiniteSet(F) /\ IsFiniteSet(A)
  <2>1. F \subseteq Mappings /\ A \subseteq F
    BY DEF FilteredMappings, InState
  <2> QED
    BY <2>1, TablesAssumption, FS_Subset
<1>3. A \subseteq F
  BY DEF InState
<1>4. (F = {} <=> c \notin MappedIds(exists)) /\ (A = {} <=> c \notin ActiveMappedIds(exists))
  BY DEF FilteredMappings, MappedIds, ActiveMappedIds, InState
<1> HIDE DEF F, A
<1>5. /\ Cardinality(F) \in Nat /\ Cardinality(A) \in Nat
      /\ Cardinality(F) = 0 <=> F = {}
      /\ Cardinality(A) = 0 <=> A = {}
  BY <1>2, FS_CardinalityType, FS_EmptySet
<1>6. ComputeSeverity(Cardinality(A), Cardinality(F), "UPDATE") = "LOW" <=> F = {}
  BY <1>3, <1>5 DEF ComputeSeverity, HighSeverityTypes
<1>7. ComputeSeverity(Cardinality(A), Cardinality(F), "RETIRE") = "HIGH" <=> A # {}
  BY <1>5 DEF ComputeSeverity, HighSeverityTypes
<1> QED
  BY <1>1, <1>4, <1>6, <1>7

\* The gaps are what the impact analysis of each capability says.
LEMMA GapsTell == GapsMatchImpact
<1> SUFFICES ASSUME NEW row \in [exists -> ReportRows], NEW domain \in {NoDomain} \cup DomainKeys(exists, row),
                    NEW c \in IF domain = NoDomain THEN exists ELSE InDomain(exists, row, domain)
             PROVE  /\ c \in GapAnalysis(exists, row, domain).unmapped <=>
                         /\ row[c].type = "LEAF" /\ row[c].status = "ACTIVE"
                         /\ Analyse({c}, "UPDATE").severity = "LOW"
                    /\ c \in GapAnalysis(exists, row, domain).deprecated <=>
                         row[c].status = "DEPRECATED" /\ Analyse({c}, "RETIRE").severity = "HIGH"
  BY Zenon DEF GapsMatchImpact
<1> DEFINE scope == IF DomainKey(domain) = NoDomain THEN exists ELSE InDomain(exists, row, DomainKey(domain))
           asked == IF domain = NoDomain THEN exists ELSE InDomain(exists, row, domain)
<1>1. scope = asked
  <2>1. CASE domain = NoDomain
    BY <2>1 DEF DomainKey
  <2>2. CASE domain # NoDomain
    <3>1. DomainKey(domain) = domain
      BY <2>2 DEF DomainKeys, DomainKey
    <3> QED
      BY <2>2, <3>1
  <2> QED
    BY <2>1, <2>2
<1>2. c \in scope /\ c \in exists
  BY <1>1 DEF InDomain
<1>3. /\ GapAnalysis(exists, row, domain).unmapped = UnmappedActiveLeaves(exists, row) \cap scope
      /\ GapAnalysis(exists, row, domain).deprecated = DeprecatedWithActiveMappings(exists, row) \cap scope
  BY DEF GapAnalysis
<1> HIDE DEF scope, asked
<1>4. /\ c \in UnmappedActiveLeaves(exists, row) <=>
           row[c].type = "LEAF" /\ row[c].status = "ACTIVE" /\ c \notin MappedIds(exists)
      /\ c \in DeprecatedWithActiveMappings(exists, row) <=>
           row[c].status = "DEPRECATED" /\ c \in ActiveMappedIds(exists)
  BY <1>2 DEF UnmappedActiveLeaves, DeprecatedWithActiveMappings, LeavesOf, OfType, WithStatus
<1>5. /\ Analyse({c}, "UPDATE").severity = "LOW" <=> c \notin MappedIds(exists)
      /\ Analyse({c}, "RETIRE").severity = "HIGH" <=> c \in ActiveMappedIds(exists)
  BY <1>2, SeverityOfOne
<1> QED
  BY <1>2, <1>3, <1>4, <1>5

\* Whatever writers and reads are at work: the numbers of every report agree with one
\* another, whichever of the capabilities it returned and whatever is in their
\* columns, and its gaps are what the impact analysis of a change request says.
THEOREM ReportsCorrect == ReadsSpec => [](ReportsAreRight /\ ReportsAddUp /\ GapsMatchImpact)
<1>1. ReadsInit => TypeOK
  BY InitTypes DEF ReadsInit
<1>2. TypeOK /\ [ReadsNext]_readVars => TypeOK'
  <2>1. [ReadsNext]_readVars => [Next]_vars
    BY DEF ReadsNext, Commit, ReadStep, readVars, vars
  <2> QED
    BY <2>1, TypeStep
<1>3. TypeOK => ReportsAreRight /\ ReportsAddUp /\ GapsMatchImpact
  BY TablesAddUp, GapsTell DEF ReportsAreRight
<1> QED
  BY <1>1, <1>2, <1>3, PTL DEF ReadsSpec
=============================================================================
