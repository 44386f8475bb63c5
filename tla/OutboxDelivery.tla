--------------------------- MODULE OutboxDelivery ---------------------------
(***************************************************************************)
(* What the outbox promises about each publish event: it is attempted, one *)
(* attempt after the other, until one succeeds or the last one has failed, *)
(* and then it rests.  Outbox, where several workers claim, lose and       *)
(* repeat events, implements this.                                         *)
(* Source: apps/api/src/integration/publish-event-delivery-worker.         *)
(***************************************************************************)
EXTENDS Naturals

CONSTANTS Events, MaxAttempts

VARIABLES
    state,       \* "none", "waiting", "delivered" or "failed"
    attempts     \* completed attempts

vars == <<state, attempts>>

Init ==
    /\ state = [e \in Events |-> "none"]
    /\ attempts = [e \in Events |-> 0]

Record(e) ==
    /\ state[e] = "none"
    /\ state' = [state EXCEPT ![e] = "waiting"]
    /\ UNCHANGED attempts

Attempt(e, outcome) ==
    /\ state[e] = "waiting"
    /\ attempts' = [attempts EXCEPT ![e] = @ + 1]
    /\ state' = [state EXCEPT ![e] = outcome]

Succeed(e) == Attempt(e, "delivered")
Retry(e) == attempts[e] + 1 < MaxAttempts /\ Attempt(e, "waiting")
GiveUp(e) == attempts[e] + 1 >= MaxAttempts /\ Attempt(e, "failed")

Next == \E e \in Events : Record(e) \/ Succeed(e) \/ Retry(e) \/ GiveUp(e)

Spec == Init /\ [][Next]_vars
=============================================================================
