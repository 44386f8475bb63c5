----------------------- MODULE MCChangeRequestPage -----------------------
EXTENDS ChangeRequestPage, TLC
CONSTANTS t1, u1, u2

AccountOf(role) == [role |-> role, active |-> TRUE]
Snapshot(structural, status, decision) ==
    [version |-> 0, structural |-> structural, status |-> status, curator |-> decision, board |-> decision]

NoAccount == [role |-> "none", active |-> TRUE]
Accounts == {u1 :> AccountOf(r) @@ u2 :> NoAccount : r \in {"CURATOR", "GOVERNANCE_APPROVER", "ADMIN"}}
SomeStarts == {Snapshot(FALSE, "SUBMITTED", "none"), Snapshot(FALSE, "PENDING_APPROVAL", "none"),
               Snapshot(TRUE, "APPROVED", "approve"), Snapshot(FALSE, "APPROVED", "approve")}
=============================================================================
