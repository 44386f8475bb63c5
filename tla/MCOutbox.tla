------------------------------ MODULE MCOutbox ------------------------------
(* Small instances of Outbox and InboxPage for TLC: what is told to other systems  *)
(* and what is told to users.  The two share neither tables nor requests: a        *)
(* behaviour is a visit to the one or to the other.                                *)
EXTENDS Outbox, InboxPage, TLC

CONSTANTS e1, e2, k1, k2, w1, w2, n1, n2, Visits

VARIABLE visit

visitVars == <<visit, vars, inboxVars>>

List(onStatus, type, limit) == [status |-> onStatus, eventType |-> type, limit |-> limit]

BellList == List(NoFilter, NoFilter, 1)
PageLists == {List("UNREAD", "TASK_ASSIGNED", 2)}
TwoTypes == <<"TASK_ASSIGNED", "MODEL_PUBLISHED">>

VisitInit ==
    /\ Init /\ InboxInit
    /\ visit \in Visits
    /\ visit = "outbox" => status = << >>
    /\ visit = "inbox" => health = [k \in Consumers |-> "HEALTHY"]

VisitNext ==
    \/ visit = "outbox" /\ Next /\ UNCHANGED <<visit, inboxVars>>
    \/ visit = "inbox" /\ InboxNext /\ UNCHANGED <<visit, vars>>

VisitSpec == VisitInit /\ [][VisitNext]_visitVars

FairVisitSpec == VisitSpec /\ Fairness

Symmetry == Permutations(Workers) \cup Permutations(Handlers)
=============================================================================
