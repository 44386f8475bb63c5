-------------------------- MODULE MCChangeRequest --------------------------
(* Small instances of ChangeRequest for TLC. *)
EXTENDS ChangeRequest, TLC

CONSTANTS c1, c2, a1, a2, h1, h2, h3

Body(type, affected, plan, text) ==
    [type |-> type, affected |-> affected, plan |-> plan, summary |-> text]

\* One request with every kind of body the gates tell apart.
GateDtos ==
    {Body("MERGE", <<a1>>, FALSE, "null"), Body("RETIRE", <<a1>>, TRUE, "null"),
     Body("UPDATE", <<a1>>, FALSE, "manual"), Body("REPARENT", <<a1, a2>>, FALSE, "null")}

\* Two requests that compete for a capability.
LockDtos ==
    {Body("REPARENT", <<a1>>, FALSE, "manual"), Body("MERGE", <<a1, a2>>, FALSE, "manual")}

\* affectedCapabilityIds is validated as a non-empty array, not as a set.
RepeatedDtos == {Body("MERGE", <<a1, a1>>, FALSE, "manual")}

EffectDtos == {Body("REPARENT", <<a1>>, FALSE, "manual")}

\* Change requests are interchangeable, and so are handlers.
HandlerSymmetry == Permutations(Handlers)
Symmetry == Permutations(ChangeRequests) \cup Permutations(Handlers)
=============================================================================
