---------------------------- MODULE Notifications -----------------------------
(***************************************************************************)
(* The notifications of one recipient and the endpoints that change and    *)
(* list them.  Source: apps/api/src/notification.                          *)
(*                                                                         *)
(* A notification is a number: later ones are larger, and lists are newest *)
(* first.  Requests of other users find no notification of this recipient  *)
(* and change nothing, so that only the recipient's requests are modelled: *)
(* those of the inbox page, and those of other devices.                    *)
(***************************************************************************)
EXTENDS Integers, FiniteSets

CONSTANTS
    MaxNotifications,  \* how many are created
    EventType,         \* the event type of each
    Handlers,          \* requests under way at a time
    NoRequest,         \* a free slot
    NoFilter           \* a filter that is not set

Ids == 1..MaxNotifications
NotificationStatus == {"UNREAD", "READ", "DISMISSED"}

Kinds == {"read", "dismiss", "readAll"}
Steps == {"received", "checked", "done", "refused"}
Requests == [kind : Kinds, id : 0..MaxNotifications, step : Steps, seen : NotificationStatus]

ASSUME NotificationsAssumption ==
    /\ MaxNotifications \in Nat
    /\ DOMAIN EventType = Ids
    /\ NoFilter \notin NotificationStatus /\ NoRequest \notin Requests

VARIABLES
    status,    \* of the notifications created so far
    request    \* the PATCH requests under way: kind, notification, how far, status seen

serverVars == <<status, request>>

Created == DOMAIN status

ServerInit ==
    /\ status \in UNION {[1..n -> {"UNREAD"}] : n \in 0..MaxNotifications}
    /\ request = [h \in Handlers |-> NoRequest]

\* NotificationService.create: called after a workflow event.
Create ==
    /\ Cardinality(Created) < MaxNotifications
    /\ status' = [n \in 1..(Cardinality(Created) + 1) |-> IF n \in Created THEN status[n] ELSE "UNREAD"]
    /\ UNCHANGED request

Receive(h, kind, n) ==
    /\ request[h] = NoRequest
    /\ request' = [request EXCEPT ![h] = [kind |-> kind, id |-> n, step |-> "received", seen |-> "UNREAD"]]
    /\ UNCHANGED status

Release(h) == request' = [request EXCEPT ![h] = NoRequest] /\ UNCHANGED status

RequestAt(h, kinds, step) == request[h] # NoRequest /\ request[h].kind \in kinds /\ request[h].step = step
Finished(h) == RequestAt(h, Kinds, "done") \/ RequestAt(h, Kinds, "refused")

To(h, step) == request' = [request EXCEPT ![h].step = step]

\* Mutant: the status is not looked at.
ReadableAlways(s) == "checked"

\* What markRead makes of the status it finds.
Readable(s) ==
    CASE s = "DISMISSED" -> "refused"
      [] s = "READ" -> "done"
      [] OTHER -> "checked"

\* findOwned, and the check of markRead.
Check(h) ==
    /\ RequestAt(h, {"read", "dismiss"}, "received")
    /\ LET s == status[request[h].id] IN
         request' = [request EXCEPT ![h] =
           IF @.kind = "dismiss" THEN [@ EXCEPT !.step = "checked"]
           ELSE [@ EXCEPT !.step = Readable(s), !.seen = s]]
    /\ UNCHANGED status

\* The update by id, whatever the status is by now.
Update(h) ==
    /\ RequestAt(h, {"read", "dismiss"}, "checked")
    /\ status' = [status EXCEPT ![request[h].id] =
                    IF request[h].kind = "dismiss" THEN "DISMISSED" ELSE "READ"]
    /\ To(h, "done")

MarkAllRead(h) ==
    /\ RequestAt(h, {"readAll"}, "received")
    /\ status' = [n \in Created |-> IF status[n] = "UNREAD" THEN "READ" ELSE status[n]]
    /\ To(h, "done")

Writes(h) == Update(h) \/ MarkAllRead(h)

-----------------------------------------------------------------------------
(* listForRecipient: three statements *)

\* A list query: status and event type, each a value or NoFilter, and a limit.
Matches(n, s, q) == q.status \in {NoFilter, s} /\ q.eventType \in {NoFilter, EventType[n]}

Matching(q) == {n \in Created : Matches(n, status[n], q)}

\* The newest ones, as many as the limit allows.
Items(q) ==
    [n \in {m \in Matching(q) : Cardinality({k \in Matching(q) : k > m}) < q.limit} |-> status[n]]

Total(q) == Cardinality(Matching(q))
UnreadCount == Cardinality({n \in Created : status[n] = "UNREAD"})
=============================================================================
