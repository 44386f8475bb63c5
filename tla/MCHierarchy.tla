---------------------------- MODULE MCHierarchy -----------------------------
(* Small instances of Hierarchy and Reports for TLC. *)
EXTENDS Reports, TLC

CONSTANTS c1, c2, c3, m1, t1, h1, h2, d1

Request(op, affected, target, fields, row) ==
    [op |-> op, affected |-> affected, target |-> target, fields |-> fields, row |-> row]

On(op, x) == Request(op, {x}, NoParent, {}, NewRow)
Reparent(x, p) == Request("REPARENT", {x}, p, {}, NewRow)
Merge(S, survivor) == Request("MERGE", S, survivor, {}, NewRow)
Create(x, row) == Request("CREATE", {x}, NoParent, {}, row)
Update(x, fields, row) == Request("UPDATE", {x}, NoParent, fields, row)

RowOf(p, tags) == [NewRow EXCEPT !.parentId = p, !.tags = tags]

\* One writer: everything that moves, retires or deletes a capability.
TreeBodies ==
    {Create(x, RowOf(p, {})) : x \in Capabilities, p \in Parents}
    \cup {Reparent(x, p) : x \in Capabilities, p \in Parents}
    \cup {Update(x, {"parentId"}, RowOf(p, {})) : x \in Capabilities, p \in Parents}
    \cup {Update(x, {"lifecycleStatus"}, [NewRow EXCEPT !.lifecycleStatus = s]) :
            x \in Capabilities, s \in LifecycleStatus}
    \cup {Update(x, {"isErroneous"}, [NewRow EXCEPT !.isErroneous = e]) :
            x \in Capabilities, e \in BOOLEAN}
    \cup {Merge(S, x) : S \in (SUBSET Capabilities) \ {{}}, x \in Capabilities}
    \cup {Request("RETIRE", S, NoParent, {}, NewRow) : S \in (SUBSET Capabilities) \ {{}}}
    \cup {On(op, x) : op \in {"DELETE", "REMOVE", "PROMOTE", "DEMOTE"}, x \in Capabilities}

\* Two writers at a time over two capabilities, where a merge locks its survivor too.
Raced == {c1, c2}

RaceBodies ==
    {Create(x, RowOf(p, T)) : x \in Raced, p \in Raced \cup {NoParent}, T \in SUBSET {t1}}
    \cup UNION {{Merge(S, x) : x \in S} : S \in (SUBSET Raced) \ {{}}}
    \cup {Update(x, {"lifecycleStatus"}, NewRow) : x \in Raced}
    \cup {On(op, x) : op \in {"DELETE", "REMOVE", "RETIRE", "MAP"}, x \in Raced}

\* A merge whose rows are updated at the same time.
TagBodies ==
    {Create(x, NewRow) : x \in Capabilities}
    \cup {Update(x, {"tags"}, RowOf(NoParent, T)) : x \in Capabilities, T \in SUBSET Tags}
    \cup {Merge({x}, y) : x \in Capabilities, y \in Capabilities}

\* Two moves at a time.
MoveBodies ==
    {Create(x, NewRow) : x \in Capabilities} \cup {Reparent(x, p) : x \in Capabilities, p \in Capabilities}

\* Capabilities as the reports tell them apart.
SomeRows ==
    {[domain |-> BlankDomain, type |-> "LEAF", status |-> "ACTIVE", steward |-> {"PERSON"}],
     [domain |-> NoDomain, type |-> "LEAF", status |-> "DEPRECATED", steward |-> {"PERSON", "DEPARTMENT"}],
     [domain |-> d1, type |-> "LEAF", status |-> "ACTIVE", steward |-> {"PERSON", "DEPARTMENT"}],
     [domain |-> d1, type |-> "ABSTRACT", status |-> "DEPRECATED", steward |-> {"DEPARTMENT"}],
     [domain |-> d1, type |-> "ABSTRACT", status |-> "DRAFT", steward |-> {}]}

Symmetry == Permutations(Capabilities) \cup Permutations(Mappings)
=============================================================================
