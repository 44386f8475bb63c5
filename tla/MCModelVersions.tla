-------------------------- MODULE MCModelVersions ---------------------------
(* Small instances of ModelVersions for TLC. *)
EXTENDS ModelVersions, TLC

CONSTANTS c1, c2, h1, h2, r1, r2, x, y

Symmetry == Permutations(Handlers) \cup Permutations(Contents) \cup Permutations(Labels)
            \cup Permutations(Capabilities)
=============================================================================
