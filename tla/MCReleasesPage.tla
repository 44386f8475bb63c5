---------------------------- MODULE MCReleasesPage ----------------------------
(* Small instances of ReleasesPage for TLC.  A visit stays on the dashboard with   *)
(* no comparison and publishes up to twice, or does everything in fewer clicks.    *)
EXTENDS ReleasesPage, TLC

CONSTANTS u1, u2, c1, r1, r2, r3, k1

VARIABLE visit

VisitInit == PageInit /\ visit \in {"status", "branches"}

VisitNext ==
    /\ PageNext
    /\ UNCHANGED visit
    /\ visit = "status" => place' = "releases" /\ UNCHANGED compare
    /\ visit = "branches" => clicks' < MaxClicks /\ Len(versions') < MaxVersions

\* The first label is that of the release there is to begin with.
Symmetry == Permutations({r2, r3})

VisitSpec == VisitInit /\ [][VisitNext]_<<visit, pageVars>>
=============================================================================
