-------------------------- MODULE MCCapabilityReads -------------------------
(* Small instances of Hierarchy, Reports and CapabilityReads for TLC.  A behaviour  *)
(* either has one writer at a time, which creates, moves, retires and removes       *)
(* capabilities under a read, or two writers at a time and no read.                 *)
EXTENDS MCHierarchy, CapabilityReads

VARIABLE visit

ReadBodies ==
    {Create(x, RowOf(p, {})) : x \in Capabilities, p \in Parents}
    \cup {Reparent(x, p) : x \in Capabilities, p \in Parents}
    \cup {On(op, x) : op \in {"RETIRE", "REMOVE"}, x \in Capabilities}

AllBodies == ReadBodies \cup RaceBodies

VisitInit == ReadsInit /\ visit \in {"reads", "races"}

VisitNext ==
    /\ UNCHANGED visit
    /\ \/ visit = "reads" /\ ReadsNext /\ open' \in [Handlers -> {NoBody} \cup ReadBodies] /\ open'[h2] = NoBody
       \/ visit = "races" /\ Writers(RaceBodies) /\ UNCHANGED walk

VisitSpec == VisitInit /\ [][VisitNext]_<<visit, readVars>> /\ WF_readVars(ReadStep)
=============================================================================
