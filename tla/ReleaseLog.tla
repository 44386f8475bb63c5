----------------------------- MODULE ReleaseLog -----------------------------
(* What publication promises: an append-only log of releases whose last entry *)
(* is the published one.  Source: apps/api/src/versioning.                    *)
EXTENDS Sequences

CONSTANTS Labels, NoRelease

VARIABLES releases, published

Init == releases = << >> /\ published = NoRelease

\* A label is used once; what was published before is archived, not removed.
Release(label) ==
    /\ \A i \in DOMAIN releases : releases[i] # label
    /\ releases' = Append(releases, label)
    /\ published' = label

Next == \E label \in Labels : Release(label)

Spec == Init /\ [][Next]_<<releases, published>>
=============================================================================
