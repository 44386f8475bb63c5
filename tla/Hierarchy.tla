----------------------------- MODULE Hierarchy ------------------------------
(***************************************************************************)
(* The capability hierarchy and the mappings on it: the six structural     *)
(* operations a change request applies, and the endpoints that write the   *)
(* same tables directly.  Source: apps/api/src/structural-ops,             *)
(* capability, mapping.                                                    *)
(*                                                                         *)
(* A writer reads and validates, then writes and commits.  At READ         *)
(* COMMITTED other writers commit in between, whether or not both steps    *)
(* are in one transaction.  Of the locks of change requests the module     *)
(* keeps what ChangeRequest shows: two structural operations at a time     *)
(* have no affected capability in common.  The direct endpoints do not     *)
(* look at them; only a hard delete runs into their foreign key.  Left out *)
(* is what does not bear on the hierarchy: names, descriptive columns and  *)
(* the version history.                                                    *)
(***************************************************************************)
EXTENDS FiniteSets

CONSTANTS
    Capabilities,    \* capability ids
    Mappings,        \* mapping ids
    Tags,            \* tags, aliases and source references
    Handlers,        \* writers running at a time
    Bodies,          \* what the writers are asked to do
    NoParent,        \* parent_id NULL
    NoBody,          \* of an idle handler
    NoMapping        \* a mapping that does not exist

LifecycleStatus == {"DRAFT", "ACTIVE", "RETIRED"}
CapabilityType == {"ABSTRACT", "LEAF"}
Parents == Capabilities \cup {NoParent}

Row == [parentId : Parents, type : CapabilityType, lifecycleStatus : LifecycleStatus,
        isErroneous : BOOLEAN, tags : SUBSET Tags]

Fields == {"parentId", "type", "lifecycleStatus", "isErroneous", "tags"}

\* target: the new parent of a REPARENT, the survivor of a MERGE.
\* row, fields: the columns of a CREATE, and those an UPDATE sets.
Body ==
    [op : {"REPARENT", "PROMOTE", "DEMOTE", "MERGE", "RETIRE", "DELETE",
           "CREATE", "UPDATE", "REMOVE", "MAP"},
     affected : (SUBSET Capabilities) \ {{}}, target : Parents, fields : SUBSET Fields, row : Row]

\* Only a merge and a retirement have several capabilities, and a merge has a survivor.
WellFormed ==
    {b \in Body :
       /\ b.op \notin {"MERGE", "RETIRE"} => \E c \in Capabilities : b.affected = {c}
       /\ b.op = "MERGE" => b.target \in Capabilities}

ASSUME NullsAssumption == NoParent \notin Capabilities /\ NoBody \notin Body
ASSUME MappingAssumption ==
    NoMapping \notin [capability : Capabilities, state : {"ACTIVE", "INACTIVE"}]
ASSUME BodiesAssumption == Bodies \subseteq WellFormed

VARIABLES
    exists,       \* capabilities that exist
    capability,   \* their rows
    mapping,      \* each mapping's capability and state, or NoMapping
    open,         \* each handler's body, between its reads and its writes
    mergedTags    \* what applyMerge has collected for the survivor

vars == <<exists, capability, mapping, open, mergedTags>>

NewRow == [parentId |-> NoParent, type |-> "ABSTRACT", lifecycleStatus |-> "DRAFT",
           isErroneous |-> FALSE, tags |-> {}]

Init ==
    /\ exists = {}
    /\ capability = [c \in Capabilities |-> NewRow]
    /\ mapping = [m \in Mappings |-> NoMapping]
    /\ open = [h \in Handlers |-> NoBody]
    /\ mergedTags = [h \in Handlers |-> {}]

-----------------------------------------------------------------------------
(* What the reads establish *)

Parent(c) == capability[c].parentId

Children(S) == {c \in exists : Parent(c) \in S}

Status(c) == capability[c].lifecycleStatus
Mapped(c) == {m \in Mappings : mapping[m] # NoMapping /\ mapping[m].capability = c}

\* What the loops that follow parentId from c visit.
Upward(S) == \A x \in S : Parent(x) \in S \cup {NoParent}
Visited(c) == {x \in exists : \A S \in SUBSET exists : c \in S /\ Upward(S) => x \in S}

\* Mutant: only the direct parent is looked at.
NotParentOf(c, start) == start # c /\ Parent(start) # c

\* assertNotDescendant and the loop of validateParent: start is neither c nor
\* below it, and the loop ends at a root.
NotDescendant(c, start) ==
    /\ c \notin Visited(start)
    /\ \E x \in Visited(start) : Parent(x) = NoParent

Target(b) == CHOOSE c \in Capabilities : b.affected = {c}

ReparentAllowed(b) ==
    /\ Target(b) \in exists
    /\ b.target # NoParent =>
         b.target # Target(b) /\ b.target \in exists /\ NotDescendant(Target(b), b.target)

PromoteAllowed(b) == Target(b) \in exists /\ capability[Target(b)].type = "LEAF"

DemoteAllowed(b) ==
    /\ Target(b) \in exists
    /\ capability[Target(b)].type = "ABSTRACT"
    /\ Children(b.affected) = {}

Sources(b) == b.affected \ {b.target}

MergeAllowed(b) ==
    /\ Sources(b) # {}
    /\ Sources(b) \cup {b.target} \subseteq exists
    /\ Status(b.target) # "RETIRED"
    /\ \A s \in Sources(b) : NotDescendant(s, b.target)

RetireAllowed(b) ==
    /\ b.affected \subseteq exists
    /\ \A c \in b.affected : Status(c) # "RETIRED"
    /\ Children(b.affected) = {}

\* Mutant: the erroneous flag alone decides about drafts too.
DeleteAnyStatus(b) == Target(b) \in exists /\ Children(b.affected) = {}

DeleteAllowed(b) ==
    /\ Target(b) \in exists
    /\ Status(Target(b)) = "DRAFT" \/ capability[Target(b)].isErroneous
    /\ Children(b.affected) = {}

CreateAllowed(b) ==
    /\ Target(b) \notin exists
    /\ b.row.parentId \in exists \cup {NoParent}

UpdateAllowed(b) ==
    /\ Target(b) \in exists
    /\ "parentId" \in b.fields /\ b.row.parentId # NoParent =>
         /\ b.row.parentId # Target(b) /\ b.row.parentId \in exists
         /\ NotDescendant(Target(b), b.row.parentId)

RemoveAllowed(b) ==
    Target(b) \in exists /\ Status(Target(b)) = "DRAFT" /\ Children(b.affected) = {}

MapAllowed(b) == Target(b) \in exists /\ Status(Target(b)) # "RETIRED"

Allowed(b) ==
    CASE b.op = "REPARENT" -> ReparentAllowed(b)
      [] b.op = "PROMOTE" -> PromoteAllowed(b)
      [] b.op = "DEMOTE" -> DemoteAllowed(b)
      [] b.op = "MERGE" -> MergeAllowed(b)
      [] b.op = "RETIRE" -> RetireAllowed(b)
      [] b.op = "DELETE" -> DeleteAllowed(b)
      [] b.op = "CREATE" -> CreateAllowed(b)
      [] b.op = "UPDATE" -> UpdateAllowed(b)
      [] b.op = "REMOVE" -> RemoveAllowed(b)
      [] b.op = "MAP" -> MapAllowed(b)

CollectedTags(b) == UNION {capability[c].tags : c \in Sources(b) \cup {b.target}}

\* capability_lock: no two requests that are executing share a capability.
StructuralOps == {"REPARENT", "PROMOTE", "DEMOTE", "MERGE", "RETIRE", "DELETE"}
HeldLocks ==
    UNION {open[h].affected : h \in {g \in Handlers : open[g] # NoBody /\ open[g].op \in StructuralOps}}

\* Mutant: requests that share a capability apply at the same time.
NeverLocked(b) == FALSE

Locked(b) == b.op \in StructuralOps /\ b.affected \cap HeldLocks # {}

Begin(h, b) ==
    /\ open[h] = NoBody
    /\ ~Locked(b)
    /\ Allowed(b)
    /\ open' = [open EXCEPT ![h] = b]
    /\ mergedTags' = [mergedTags EXCEPT ![h] = IF b.op = "MERGE" THEN CollectedTags(b) ELSE {}]
    /\ UNCHANGED <<exists, capability, mapping>>

-----------------------------------------------------------------------------
(* What the writes do.  A missing row or a foreign key makes them fail. *)

Close(h) ==
    /\ open' = [open EXCEPT ![h] = NoBody]
    /\ mergedTags' = [mergedTags EXCEPT ![h] = {}]

Abort(h) ==
    /\ open[h] # NoBody
    /\ Close(h)
    /\ UNCHANGED <<exists, capability, mapping>>

Applying(h, op) == open[h] # NoBody /\ open[h].op = op

ApplyReparent(h) ==
    /\ Applying(h, "REPARENT")
    /\ LET b == open[h] IN
         /\ Target(b) \in exists /\ b.target \in exists \cup {NoParent}
         /\ capability' = [capability EXCEPT ![Target(b)].parentId = b.target]
    /\ Close(h)
    /\ UNCHANGED <<exists, mapping>>

ApplyType(h, op, type) ==
    /\ Applying(h, op)
    /\ Target(open[h]) \in exists
    /\ capability' = [capability EXCEPT ![Target(open[h])].type = type]
    /\ Close(h)
    /\ UNCHANGED <<exists, mapping>>

ApplyPromote(h) == ApplyType(h, "PROMOTE", "ABSTRACT")
ApplyDemote(h) == ApplyType(h, "DEMOTE", "LEAF")

MappingMoved(m, b) ==
    IF mapping[m] # NoMapping /\ mapping[m].capability \in Sources(b)
    THEN [mapping[m] EXCEPT !.capability = b.target] ELSE mapping[m]

\* The children and the mappings of the sources go to the survivor.
ApplyMerge(h) ==
    /\ Applying(h, "MERGE")
    /\ LET b == open[h] IN
         /\ Sources(b) \cup {b.target} \subseteq exists
         /\ capability' = [c \in Capabilities |->
              [capability[c] EXCEPT
                 !.parentId = IF c \in exists /\ @ \in Sources(b) THEN b.target ELSE @,
                 !.lifecycleStatus = IF c \in Sources(b) THEN "RETIRED" ELSE @,
                 !.tags = IF c = b.target THEN mergedTags[h] ELSE @]]
         /\ mapping' = [m \in Mappings |-> MappingMoved(m, b)]
    /\ Close(h)
    /\ UNCHANGED exists

ApplyRetire(h) ==
    /\ Applying(h, "RETIRE")
    /\ LET b == open[h] IN
         /\ b.affected \subseteq exists
         /\ capability' = [c \in Capabilities |->
              [capability[c] EXCEPT !.lifecycleStatus = IF c \in b.affected THEN "RETIRED" ELSE @]]
         /\ mapping' = [m \in Mappings |->
              IF mapping[m] # NoMapping /\ mapping[m].capability \in b.affected
              THEN [mapping[m] EXCEPT !.state = "INACTIVE"] ELSE mapping[m]]
    /\ Close(h)
    /\ UNCHANGED exists

\* Mutant: the foreign key leaves the children's parent_id alone.
KeepParent(p, c) == p

\* Capability_parentId_fkey: ON DELETE SET NULL.
SetNull(p, c) == IF p = c THEN NoParent ELSE p

\* The row of the capability is reset, so that its id can stand for another.
Delete(c) ==
    /\ c \in exists
    /\ exists' = exists \ {c}
    /\ capability' = [x \in Capabilities |->
         IF x = c THEN NewRow ELSE [capability[x] EXCEPT !.parentId = SetNull(@, c)]]

ApplyDelete(h) ==
    /\ Applying(h, "DELETE")
    /\ Delete(Target(open[h]))
    /\ mapping' = [m \in Mappings |-> IF m \in Mapped(Target(open[h])) THEN NoMapping ELSE mapping[m]]
    /\ Close(h)

CreateCapability(h) ==
    /\ Applying(h, "CREATE")
    /\ LET b == open[h] IN
         /\ Target(b) \notin exists /\ b.row.parentId \in exists \cup {NoParent}
         /\ exists' = exists \cup b.affected
         /\ capability' = [capability EXCEPT ![Target(b)] = b.row]
    /\ Close(h)
    /\ UNCHANGED mapping

\* Only the columns in the request are written.
UpdateCapability(h) ==
    /\ Applying(h, "UPDATE")
    /\ LET b == open[h]
           c == Target(b)
           New(field) == IF field \in b.fields THEN b.row[field] ELSE capability[c][field] IN
         /\ c \in exists /\ New("parentId") \in exists \cup {NoParent}
         /\ capability' = [capability EXCEPT ![c] =
              [parentId |-> New("parentId"), type |-> New("type"),
               lifecycleStatus |-> New("lifecycleStatus"), isErroneous |-> New("isErroneous"),
               tags |-> New("tags")]]
    /\ Close(h)
    /\ UNCHANGED <<exists, mapping>>

\* DELETE /capabilities/:id: mappings and locks have foreign keys that refuse it.
RemoveCapability(h) ==
    /\ Applying(h, "REMOVE")
    /\ Mapped(Target(open[h])) = {} /\ Target(open[h]) \notin HeldLocks
    /\ Delete(Target(open[h]))
    /\ Close(h)
    /\ UNCHANGED mapping

CreateMapping(h, m) ==
    /\ Applying(h, "MAP")
    /\ Target(open[h]) \in exists
    /\ mapping[m] = NoMapping
    /\ \E s \in {"ACTIVE", "INACTIVE"} :
         mapping' = [mapping EXCEPT ![m] = [capability |-> Target(open[h]), state |-> s]]
    /\ Close(h)
    /\ UNCHANGED <<exists, capability>>

\* update and delete of a mapping are one statement each.
UpdateMapping(m) ==
    /\ mapping[m] # NoMapping
    /\ \E s \in {"ACTIVE", "INACTIVE"} : mapping' = [mapping EXCEPT ![m].state = s]
    /\ UNCHANGED <<exists, capability, open, mergedTags>>

DeleteMapping(m) ==
    /\ mapping[m] # NoMapping
    /\ mapping' = [mapping EXCEPT ![m] = NoMapping]
    /\ UNCHANGED <<exists, capability, open, mergedTags>>

Structural(h) ==
    \/ ApplyReparent(h) \/ ApplyPromote(h) \/ ApplyDemote(h)
    \/ ApplyMerge(h) \/ ApplyRetire(h) \/ ApplyDelete(h)

\* The writers, of whom B is asked.
Writers(B) ==
    \/ \E h \in Handlers :
         \/ \E b \in B : Begin(h, b)
         \/ Structural(h)
         \/ CreateCapability(h) \/ UpdateCapability(h) \/ RemoveCapability(h)
         \/ \E m \in Mappings : CreateMapping(h, m)
         \/ Abort(h)
    \/ \E m \in Mappings : UpdateMapping(m) \/ DeleteMapping(m)

Next == Writers(Bodies)

Spec == Init /\ [][Next]_vars

-----------------------------------------------------------------------------
(* Properties *)

TypeOK ==
    /\ exists \subseteq Capabilities
    /\ capability \in [Capabilities -> Row]
    /\ \A c \in exists : Parent(c) \in exists \cup {NoParent}
    /\ mapping \in [Mappings -> [capability : Capabilities, state : {"ACTIVE", "INACTIVE"}]
                                \cup {NoMapping}]
    /\ \A m \in Mappings : mapping[m] # NoMapping => mapping[m].capability \in exists
    /\ open \in [Handlers -> Bodies \cup {NoBody}]
    /\ mergedTags \in [Handlers -> SUBSET Tags]

\* The parents form a forest: no set of capabilities has all its parents in
\* itself.  Breadcrumbs, subtrees and the walks of every later check start from
\* it.  It holds while one writer runs at a time.  (assertNotDescendant,
\* applyMerge, validateParent.)
Forest ==
    \A S \in (SUBSET exists) \ {{}} : \E c \in S : Parent(c) \notin S

\* A structural operation drops no tag, alias or reference of a capability that
\* remains and no mapping but those of the deleted one; what a merge retires
\* lives on in the survivor, and no active mapping is left on what an operation
\* has retired.  (applyMerge, applyRetire, applyDelete.)
Keeps(h) ==
    /\ \A c \in exists \cap exists' : capability[c].tags \subseteq capability'[c].tags
    /\ \A m \in Mappings : mapping[m] # NoMapping /\ mapping[m].capability \in exists' =>
         /\ mapping'[m] # NoMapping
         /\ Status(mapping[m].capability) # "RETIRED" /\ mapping'[m].state = "ACTIVE" =>
              capability'[mapping'[m].capability].lifecycleStatus # "RETIRED"
    /\ ApplyMerge(h) => \A s \in Sources(open[h]) :
         capability[s].tags \subseteq capability'[open[h].target].tags

NothingDropped == [][\A h \in Handlers : Structural(h) => Keeps(h)]_vars

\* What is hard-deleted is, at that moment, a draft or marked erroneous, and has
\* no children, which would become roots.  (applyDelete, CapabilityService.delete.)
ControlledDeletion ==
    [][\A c \in exists \ exists' :
         (Status(c) = "DRAFT" \/ capability[c].isErroneous) /\ \A x \in exists : Parent(x) # c]_vars
=============================================================================
