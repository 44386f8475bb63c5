------------------------------ MODULE InboxPage -------------------------------
(***************************************************************************)
(* The inbox page and the bell in the header: lists kept in the query      *)
(* cache, changed in advance of the answer to a request, put back when it  *)
(* fails, and fetched anew when it is settled.                             *)
(* Source: web api/notifications.ts, NotificationsPage.tsx,                *)
(* NotificationBell.tsx.                                                   *)
(*                                                                         *)
(* A list is one entry of the cache.  Of the query library: a cancelled    *)
(* fetch is forgotten; data that is set counts as fresh; invalidation      *)
(* fetches the lists on screen again, abandoning a fetch under way unless  *)
(* it is the first one, and marks the others as stale.  Entries that have  *)
(* not been on screen for long stay in the cache.                          *)
(***************************************************************************)
EXTENDS Notifications

CONSTANTS
    Bell,       \* the list behind the bell
    Filters,    \* the lists the page can show
    NoData,     \* a list that has not been fetched
    NotFetching,  \* no fetch under way
    NoMutation,
    MaxClicks,  \* changes made on the page
    MaxEvents   \* new notifications, requests of other devices, failures

VARIABLES
    cache,      \* the data of each list, and whether it is stale
    fetch,      \* the fetch of each list under way
    shown,      \* the list the page shows; Bell: the page is not open
    mutation,   \* what the page keeps of the request in a slot
    foreign,    \* of the specification: changes that are not the page's
    overlaps,   \* of the specification: changes begun before another was settled
    clicks,     \* how many of each have happened
    happened

bounds == <<clicks, happened>>
pageVars == <<cache, fetch, shown, mutation, foreign, overlaps, bounds>>
inboxVars == <<serverVars, pageVars>>

Queries == {Bell} \cup Filters
Active == {Bell, shown}
Event == happened < MaxEvents /\ happened' = happened + 1 /\ UNCHANGED clicks
Pending == {h \in Handlers : mutation[h] # NoMutation}

\* What a list query returns.
ListForRecipient(q) == [items |-> Items(q), total |-> Total(q), unreadCount |-> UnreadCount]

Lists ==
    [items : UNION {[S -> NotificationStatus] : S \in SUBSET Ids}, total : Nat, unreadCount : Nat]
Entries == [show : Lists, stale : BOOLEAN, since : Int, calm : Int]
Fetches == [answer : Lists, since : Int, calm : Int]
Mutations == [snapshot : [Queries -> Entries \cup {NoData}], mounted : BOOLEAN]

\* Queries filter by a status and have a limit, and what stands for an entry, a fetch
\* or a mutation that is not there is none.
ASSUME InboxAssumption ==
    /\ Queries \subseteq [status : NotificationStatus \cup {NoFilter},
                          eventType : {EventType[n] : n \in Ids} \cup {NoFilter}, limit : Nat]
    /\ NoData \notin Entries /\ NotFetching \notin Fetches /\ NoMutation \notin Mutations

\* A fetch that begins; since and calm: between which changes (-1: during one).
Begin(q) == [answer |-> ListForRecipient(q), since |-> foreign,
             calm |-> IF Pending = {} THEN overlaps ELSE -1]

InFlight == {q \in Queries : fetch[q] # NotFetching}

\* After a change: the statements that had not been executed yet see it.
ReadOn ==
    \E items \in SUBSET InFlight, totals \in SUBSET InFlight, counts \in SUBSET InFlight :
        fetch' = [q \in Queries |->
            IF q \notin InFlight THEN NotFetching
            ELSE [fetch[q] EXCEPT !.answer =
                    [items |-> IF q \in items THEN Items(q)' ELSE @.items,
                     total |-> IF q \in totals THEN Total(q)' ELSE @.total,
                     unreadCount |-> IF q \in counts THEN UnreadCount' ELSE @.unreadCount]]]

Stale(q) == IF cache[q] = NoData THEN TRUE ELSE cache[q].stale

InboxInit ==
    /\ ServerInit
    /\ cache = [q \in Queries |-> NoData]
    /\ shown = Bell
    /\ mutation = [h \in Handlers |-> NoMutation]
    /\ foreign = 0 /\ overlaps = 0 /\ clicks = 0 /\ happened = 0
    /\ fetch = [q \in Queries |-> IF q = Bell THEN Begin(q) ELSE NotFetching]

\* The page is opened, left, or shows another filter: a stale list is fetched.  Who
\* comes back to the page finds its buttons enabled.
Show(q) ==
    /\ q # shown
    /\ shown' = q
    /\ fetch' = IF fetch[q] = NotFetching /\ Stale(q) THEN [fetch EXCEPT ![q] = Begin(q)] ELSE fetch
    /\ mutation' = IF q # Bell THEN mutation
                   ELSE [h \in Handlers |-> IF h \in Pending THEN [mutation[h] EXCEPT !.mounted = FALSE]
                                            ELSE NoMutation]
    /\ UNCHANGED <<serverVars, cache, foreign, overlaps, bounds>>

FetchAnswered(q) ==
    /\ q \in InFlight
    /\ cache' = [cache EXCEPT ![q] = [show |-> fetch[q].answer, stale |-> FALSE,
                                      since |-> fetch[q].since, calm |-> fetch[q].calm]]
    /\ fetch' = [fetch EXCEPT ![q] = NotFetching]
    /\ UNCHANGED <<serverVars, shown, mutation, foreign, overlaps, bounds>>

\* A list that could not be fetched is shown as an error, with a retry.
FetchFails(q) ==
    /\ Event
    /\ q \in InFlight
    /\ fetch' = [fetch EXCEPT ![q] = NotFetching]
    /\ UNCHANGED <<serverVars, cache, shown, mutation, foreign, overlaps>>

Refetch(q) ==
    /\ q \in Active /\ fetch[q] = NotFetching /\ Stale(q)
    /\ fetch' = [fetch EXCEPT ![q] = Begin(q)]
    /\ UNCHANGED <<serverVars, cache, shown, mutation, foreign, overlaps, bounds>>

-----------------------------------------------------------------------------
(* Changes ahead of the answer *)

Decrement(n) == IF n > 0 THEN n - 1 ELSE 0

FilterItems(items, q) ==
    [n \in {m \in DOMAIN items : q.status \in {NoFilter, items[m]}} |-> items[n]]

ApplyStatusUpdate(d, q, n, next) ==
    IF n \notin DOMAIN d.items THEN d
    ELSE LET items == FilterItems([d.items EXCEPT ![n] = next], q) IN
           [items |-> items,
            total |-> IF n \in DOMAIN items THEN d.total ELSE Decrement(d.total),
            unreadCount |-> IF d.items[n] = "UNREAD" THEN Decrement(d.unreadCount) ELSE d.unreadCount]

ApplyMarkAllRead(d, q) ==
    LET items == FilterItems([n \in DOMAIN d.items |->
                                IF d.items[n] = "UNREAD" THEN "READ" ELSE d.items[n]], q) IN
      [items |-> items, total |-> Cardinality(DOMAIN items), unreadCount |-> 0]

Apply(kind, n, d, q) ==
    CASE kind = "read" -> ApplyStatusUpdate(d, q, n, "READ")
      [] kind = "dismiss" -> ApplyStatusUpdate(d, q, n, "DISMISSED")
      [] kind = "readAll" -> ApplyMarkAllRead(d, q)

\* The buttons of the list that is shown.
Enabled(kind, n) ==
    /\ shown # Bell /\ cache[shown] # NoData
    /\ ~\E h \in Pending : mutation[h].mounted
    /\ IF kind = "readAll" THEN n = 0 /\ cache[shown].show.unreadCount > 0
       ELSE n \in DOMAIN cache[shown].show.items /\ (kind = "read" => cache[shown].show.items[n] = "UNREAD")

\* setQueryData
SetData(data, show) == [data EXCEPT !.show = show, !.stale = FALSE]

\* updateNotificationQueries: the lists that have data.
Ahead(kind, n) ==
    [q \in Queries |-> IF cache[q] = NoData THEN NoData
                       ELSE SetData(cache[q], Apply(kind, n, cache[q].show, q))]

\* onMutate: fetches are cancelled, the lists are kept and changed.
Click(h, kind, n) ==
    /\ clicks < MaxClicks /\ clicks' = clicks + 1
    /\ Enabled(kind, n)
    /\ Receive(h, kind, n)
    /\ mutation' = [mutation EXCEPT ![h] = [snapshot |-> cache, mounted |-> TRUE]]
    /\ fetch' = [q \in Queries |-> NotFetching]
    /\ cache' = Ahead(kind, n)
    /\ overlaps' = IF Pending = {} THEN overlaps ELSE overlaps + 1
    /\ UNCHANGED <<shown, foreign, happened>>

\* onError
Restore(h) ==
    [q \in Queries |-> IF mutation[h].snapshot[q] = NoData THEN cache[q]
                       ELSE SetData(mutation[h].snapshot[q], mutation[h].snapshot[q].show)]

\* The list q shows what the request of h changes, and was not cut off at its limit.
Covers(q, h) ==
    LET before == mutation[h].snapshot[q] IN
      /\ before # NoData
      /\ before.show.total <= q.limit
      /\ IF request[h].kind = "readAll" THEN q.status # "READ" ELSE request[h].id \in DOMAIN before.show.items

\* After a success the lists stay as they are; the others are not followed any more.
Confirmed(h) ==
    [q \in Queries |-> IF cache[q] # NoData /\ ~Covers(q, h) THEN [cache[q] EXCEPT !.calm = -1] ELSE cache[q]]

\* Mutant: only what is on screen is fetched again.
InvalidateActive(data) == data

\* onSettled: invalidateQueries.
MarkStale(data) == [q \in Queries |-> IF data[q] = NoData THEN NoData ELSE [data[q] EXCEPT !.stale = TRUE]]

Settle(h, data) ==
    /\ mutation' = [mutation EXCEPT ![h] = NoMutation]
    /\ cache' = MarkStale(data)
    /\ fetch' = [q \in Queries |->
            IF q \in Active /\ (fetch[q] = NotFetching \/ data[q] # NoData)
            THEN [Begin(q) EXCEPT !.calm = IF Pending \ {h} = {} THEN overlaps ELSE -1]
            ELSE IF fetch[q] = NotFetching THEN NotFetching
            ELSE [fetch[q] EXCEPT !.since = -1]]

Answered(h) ==
    /\ h \in Pending /\ Finished(h)
    /\ Release(h)
    /\ Settle(h, IF request[h].step = "done" THEN Confirmed(h) ELSE Restore(h))
    /\ UNCHANGED <<shown, foreign, overlaps, bounds>>

\* The connection fails before the request has been served, or before its answer
\* has come back; what the server still does is then nobody's change.
RequestLost(h) ==
    /\ Event
    /\ h \in Pending /\ request[h].step = "received"
    /\ Release(h)
    /\ Settle(h, Restore(h))
    /\ UNCHANGED <<shown, foreign, overlaps>>

AnswerLost(h) ==
    /\ Event
    /\ h \in Pending
    /\ foreign' = foreign + 1
    /\ Settle(h, Restore(h))
    /\ UNCHANGED <<serverVars, shown, overlaps>>

-----------------------------------------------------------------------------

\* Another device of the recipient, which shows a list of its own.
OtherDevice(h, kind, n) ==
    /\ Event
    /\ n \in (IF kind = "readAll" THEN {0} ELSE Created)
    /\ Receive(h, kind, n)
    /\ UNCHANGED <<cache, fetch, shown, mutation, foreign, overlaps>>

AnswerDropped(h) ==
    /\ h \notin Pending /\ Finished(h)
    /\ Release(h)
    /\ UNCHANGED pageVars

Write(h) ==
    /\ Writes(h)
    /\ foreign' = IF h \in Pending THEN foreign ELSE foreign + 1
    /\ ReadOn
    /\ UNCHANGED <<cache, shown, mutation, overlaps, bounds>>

Notify ==
    /\ Event
    /\ Create
    /\ foreign' = foreign + 1
    /\ ReadOn
    /\ UNCHANGED <<cache, shown, mutation, overlaps>>

InboxNext ==
    \/ \E q \in Queries :
         Show(q) \/ FetchAnswered(q) \/ FetchFails(q) \/ Refetch(q)
    \/ \E h \in Handlers, kind \in Kinds, n \in 0..MaxNotifications :
         Click(h, kind, n) \/ OtherDevice(h, kind, n)
    \/ \E h \in Handlers :
         \/ Answered(h) \/ RequestLost(h) \/ AnswerLost(h) \/ AnswerDropped(h) \/ Write(h)
         \/ Check(h) /\ UNCHANGED pageVars
    \/ Notify

InboxSpec == InboxInit /\ [][InboxNext]_inboxVars

-----------------------------------------------------------------------------
(* Properties *)

\* Statuses and counts are what they can be: no list shows a negative count, though
\* its items and its counts were read at different times.
InboxTypeOK ==
    /\ \A n \in Created : status[n] \in NotificationStatus
    /\ shown \in Queries
    /\ \A h \in Handlers : request[h] = NoRequest \/ (request[h].kind \in Kinds /\ request[h].step \in Steps)
    /\ \A q \in Queries : cache[q] # NoData =>
         /\ DOMAIN cache[q].show.items \subseteq Created
         /\ cache[q].show.total \in Nat /\ cache[q].show.unreadCount \in Nat

\* Ahead of the answer, after it, and after a failure has put them back, the lists
\* show what the server would answer, as long as the page makes one change at a time
\* and nobody else makes any; a list that does not show what is changed, or not all
\* there is, only until the server has made the change.
\* (applyNotificationStatusUpdate, applyMarkAllNotificationsRead,
\* restoreNotificationQueries.)
AheadOfAnswerIsRight ==
    \A q \in Queries :
      /\ cache[q] # NoData /\ cache[q].since = foreign /\ cache[q].calm = overlaps
      /\ \A h \in Pending : request[h].step = "done" /\ Covers(q, h)
      => cache[q].show = ListForRecipient(q)

\* Once everything is settled a list that counts as fresh is what the server has,
\* however the page's own changes overlapped and failed, unless somebody else has
\* changed something since it was asked for.
\* (onSettled of the three mutations.)
SettledListIsCurrent ==
    \A q \in Queries :
      /\ Pending = {} /\ fetch[q] = NotFetching
      /\ ~Stale(q) /\ cache[q].since = foreign
      => cache[q].show = ListForRecipient(q)

\* A dismissed notification stays dismissed, except for a request to mark it read
\* that had seen it before.  (markRead, dismiss, markAllRead.)
DismissalSticks ==
    [][\A n \in Created :
         /\ status[n] = "DISMISSED"
         /\ ~\E h \in Handlers : RequestAt(h, {"read"}, "checked") /\ request[h].id = n /\ request[h].seen = "UNREAD"
         => status'[n] = "DISMISSED"]_inboxVars

\* The lists of page and bell, before and after the answers.
ListsAreRight == InboxTypeOK /\ AheadOfAnswerIsRight /\ SettledListIsCurrent
=============================================================================
