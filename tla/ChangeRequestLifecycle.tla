----------------------- MODULE ChangeRequestLifecycle -----------------------
(***************************************************************************)
(* What the change request workflow promises, with no request in flight:   *)
(* every endpoint is one atomic step on the current state, decisions come  *)
(* in order, and an executing request owns all of its capabilities while   *)
(* no other request does.  ChangeRequest, where every endpoint works from  *)
(* a read that may be stale when it commits, implements this.              *)
(* Source: the status machine of change-request.service.ts.                *)
(***************************************************************************)
CONSTANTS ChangeRequests, Capabilities, NoOwner

VARIABLES
    status,      \* the state of each change request
    scope,       \* the capabilities it affects, fixed when it is drafted
    curator,     \* the curator's decision
    board,       \* the governance board's decision
    owner        \* the executing change request that owns a capability

vars == <<status, scope, curator, board, owner>>

Init ==
    /\ status = [c \in ChangeRequests |-> "NONE"]
    /\ scope = [c \in ChangeRequests |-> {}]
    /\ curator = [c \in ChangeRequests |-> "none"]
    /\ board = [c \in ChangeRequests |-> "none"]
    /\ owner = [a \in Capabilities |-> NoOwner]

Move(c, from, to) ==
    /\ status[c] = from
    /\ status' = [status EXCEPT ![c] = to]

Draft(c) ==
    /\ Move(c, "NONE", "DRAFT")
    /\ \E s \in (SUBSET Capabilities) \ {{}} : scope' = [scope EXCEPT ![c] = s]
    /\ UNCHANGED <<curator, board, owner>>

\* Submission, the request for approval, and withdrawal before it.
Advance(c) ==
    /\ \/ Move(c, "DRAFT", "SUBMITTED")
       \/ Move(c, "SUBMITTED", "PENDING_APPROVAL")
       \/ Move(c, "DRAFT", "CANCELLED")
       \/ Move(c, "SUBMITTED", "CANCELLED")
    /\ UNCHANGED <<scope, curator, board, owner>>

CuratorDecides(c, outcome) ==
    /\ status[c] = "PENDING_APPROVAL"
    /\ curator[c] = "none"
    /\ curator' = [curator EXCEPT ![c] = outcome]
    /\ status' = IF outcome = "REJECTED" THEN [status EXCEPT ![c] = "REJECTED"] ELSE status
    /\ UNCHANGED <<scope, board, owner>>

BoardDecides(c, outcome) ==
    /\ curator[c] = "APPROVED"
    /\ board[c] = "none"
    /\ Move(c, "PENDING_APPROVAL", outcome)
    /\ board' = [board EXCEPT ![c] = outcome]
    /\ UNCHANGED <<scope, curator, owner>>

Start(c) ==
    /\ Move(c, "APPROVED", "EXECUTING")
    /\ \A a \in scope[c] : owner[a] = NoOwner
    /\ owner' = [a \in Capabilities |-> IF a \in scope[c] THEN c ELSE owner[a]]
    /\ UNCHANGED <<scope, curator, board>>

Finish(c) ==
    /\ \/ Move(c, "EXECUTING", "COMPLETED")
       \/ Move(c, "EXECUTING", "APPROVED")
    /\ owner' = [a \in Capabilities |-> IF a \in scope[c] THEN NoOwner ELSE owner[a]]
    /\ UNCHANGED <<scope, curator, board>>

Next ==
    \E c \in ChangeRequests :
        \/ Draft(c)
        \/ Advance(c)
        \/ \E outcome \in {"APPROVED", "REJECTED"} :
              CuratorDecides(c, outcome) \/ BoardDecides(c, outcome)
        \/ Start(c)
        \/ Finish(c)

Spec == Init /\ [][Next]_vars
=============================================================================
