------------------------------ MODULE InboxProofs ------------------------------
(***************************************************************************)
(* Theorems about InboxPage, for any numbers of notifications, lists and   *)
(* requests under way: page and bell show what the server has, ahead of    *)
(* its answers and once all is settled, and a dismissal sticks.            *)
(*                                                                         *)
(* Why the lists end up right: a fetch that begins during a change of the  *)
(* page is begun again, or marked, when the change is settled, and then    *)
(* all that was read before is stale.  Why they are right ahead of the     *)
(* answer: as long as nobody else makes a change, the copies are what the  *)
(* server has, and the change applied to a copy is what it will have.      *)
(***************************************************************************)
EXTENDS InboxPage, FiniteSetTheorems, TLAPS

-----------------------------------------------------------------------------
(* What is typed *)

Statuses == UNION {[1..n -> NotificationStatus] : n \in 0..MaxNotifications}

\* A list names notifications that exist.
ListOK(list) == list \in Lists /\ DOMAIN list.items \subseteq Created
EntryOK(d) == d \in Entries /\ ListOK(d.show) /\ d.since <= foreign /\ d.calm <= overlaps

RequestOK(h) ==
    request[h] # NoRequest =>
      /\ request[h] \in Requests
      /\ request[h].kind # "readAll" => request[h].id \in Created
      /\ request[h].kind = "read" /\ request[h].step = "checked" => request[h].seen = "UNREAD"

ServerOK ==
    /\ status \in Statuses
    /\ request \in [Handlers -> Requests \cup {NoRequest}]
    /\ \A h \in Handlers : RequestOK(h)

ListsOK ==
    /\ shown \in Queries /\ foreign \in Nat /\ overlaps \in Nat
    /\ cache \in [Queries -> Entries \cup {NoData}]
    /\ \A q \in Queries : cache[q] # NoData => EntryOK(cache[q])
    /\ fetch \in [Queries -> Fetches \cup {NotFetching}]
    /\ \A q \in InFlight : ListOK(fetch[q].answer) /\ fetch[q].since <= foreign /\ fetch[q].calm <= overlaps

\* A change of the page is known to the server, or was.
ChangesOK ==
    /\ mutation \in [Handlers -> Mutations \cup {NoMutation}]
    /\ \A h \in Pending : /\ request[h] # NoRequest
                          /\ \A q \in Queries : mutation[h].snapshot[q] # NoData => EntryOK(mutation[h].snapshot[q])

-----------------------------------------------------------------------------
(* What the lists tell *)

\* Nobody else has changed anything since it was read, and the page made one change
\* after the other.
Followed(d) == d # NoData /\ d.since = foreign /\ d.calm = overlaps

Alone(h) == Pending = {h}

\* The copy of a list is what the server has until it makes the change.
CopyRight(h, q) ==
    LET before == mutation[h].snapshot[q] IN
      Followed(before) =>
        /\ Alone(h)
        /\ request[h].step # "done" => before.show = ListForRecipient(q)

\* The list is its copy with the change applied, until the server has made it.
AheadRight(h, q) ==
    /\ Followed(mutation[h].snapshot[q])
    /\ request[h].step # "done" =>
         cache[q].show = Apply(request[h].kind, request[h].id, mutation[h].snapshot[q].show, q)
    /\ request[h].step = "done" /\ Covers(q, h) => cache[q].show = ListForRecipient(q)

CacheRight(q) ==
    /\ Followed(cache[q]) =>
         /\ Pending = {} => cache[q].show = ListForRecipient(q)
         /\ \A h \in Pending : AheadRight(h, q)
    /\ Pending = {} /\ ~Stale(q) /\ cache[q].since = foreign => cache[q].show = ListForRecipient(q)

FetchRight(q) ==
    fetch[q] # NotFetching /\ fetch[q].since = foreign =>
      /\ Pending = {} => fetch[q].answer = ListForRecipient(q)
      /\ fetch[q].calm = overlaps => Pending = {}

IInv ==
    /\ ServerOK /\ ListsOK /\ ChangesOK
    /\ \A q \in Queries : CacheRight(q) /\ FetchRight(q) /\ \A h \in Pending : CopyRight(h, q)

-----------------------------------------------------------------------------
(* The table and its lists *)

LEMMA CreatedFinite ==
    ASSUME ServerOK
    PROVE  /\ Created \subseteq Ids /\ IsFiniteSet(Created) /\ Cardinality(Created) \in Nat
           /\ Created = 1..Cardinality(Created)
           /\ \A n \in Created : status[n] \in NotificationStatus
           /\ status = [n \in Created |-> status[n]]
<1>1. PICK k \in 0..MaxNotifications : status \in [1..k -> NotificationStatus]
  BY DEF ServerOK, Statuses
<1>2. Created = 1..k /\ k \in Nat
  BY <1>1, NotificationsAssumption DEF Created
<1>3. IsFiniteSet(Created) /\ Cardinality(Created) = k
  BY <1>2, FS_Interval
<1>4. QED
  BY <1>1, <1>2, <1>3, NotificationsAssumption DEF Ids

\* A set of notifications has a number of elements, and one less without one of them.
LEMMA SomeOfCreated ==
    ASSUME ServerOK, NEW S \in SUBSET Created
    PROVE  /\ IsFiniteSet(S) /\ Cardinality(S) \in Nat
           /\ \A T \in SUBSET S : Cardinality(T) \in Nat /\ Cardinality(T) <= Cardinality(S)
           /\ \A n \in S : Cardinality(S \ {n}) = Cardinality(S) - 1
<1>1. IsFiniteSet(S)
  BY CreatedFinite, FS_Subset
<1>2. \A T \in SUBSET S : IsFiniteSet(T) /\ Cardinality(T) <= Cardinality(S)
  BY <1>1, FS_Subset
<1>3. QED
  BY <1>1, <1>2, FS_CardinalityType, FS_RemoveElement

LEMMA MatchingCreated ==
    ASSUME NEW q
    PROVE  Matching(q) \in SUBSET Created
  BY DEF Matching

LEMMA ListType ==
    ASSUME ServerOK, NEW q \in Queries
    PROVE  ListOK(ListForRecipient(q))
<1> DEFINE S == {m \in Matching(q) : Cardinality({k \in Matching(q) : k > m}) < q.limit}
<1>1. S \in SUBSET Ids /\ S \subseteq Created
  BY CreatedFinite, MatchingCreated
<1>2. Items(q) = [n \in S |-> status[n]]
  BY DEF Items
<1>3. Items(q) \in [S -> NotificationStatus]
  BY <1>1, <1>2, CreatedFinite
<1>4. Total(q) \in Nat
  BY SomeOfCreated, MatchingCreated DEF Total
<1>5. UnreadCount \in Nat
  BY SomeOfCreated DEF UnreadCount
<1>6. DOMAIN Items(q) \subseteq Created
  BY <1>1, <1>2
<1>7. Items(q) \in UNION {[R -> NotificationStatus] : R \in SUBSET Ids}
  BY <1>1, <1>3
<1> HIDE DEF S
<1>8. QED
  BY <1>4, <1>5, <1>6, <1>7 DEF ListOK, Lists, ListForRecipient

\* Not more than the limit are all shown.
LEMMA NotCutOff ==
    ASSUME NEW S \in SUBSET Int, IsFiniteSet(S), NEW limit \in Nat, Cardinality(S) <= limit
    PROVE  {m \in S : Cardinality({k \in S : k > m}) < limit} = S
<1>1. SUFFICES ASSUME NEW m \in S
               PROVE  Cardinality({k \in S : k > m}) < limit
  OBVIOUS
<1>2. {k \in S : k > m} \in SUBSET (S \ {m})
  OBVIOUS
<1>3. IsFiniteSet(S \ {m}) /\ Cardinality(S \ {m}) = Cardinality(S) - 1
  BY FS_RemoveElement
<1>4. IsFiniteSet({k \in S : k > m}) /\ Cardinality({k \in S : k > m}) <= Cardinality(S \ {m})
  BY <1>2, <1>3, FS_Subset
<1>5. Cardinality({k \in S : k > m}) \in Nat /\ Cardinality(S) \in Nat
  BY <1>4, FS_CardinalityType
<1>6. QED
  BY <1>3, <1>4, <1>5

\* A list that is not cut off has all that match.
LEMMA UncutList ==
    ASSUME ServerOK, NEW q \in Queries, Total(q) <= q.limit
    PROVE  Items(q) = [n \in Matching(q) |-> status[n]]
<1>1. Matching(q) \in SUBSET Int /\ IsFiniteSet(Matching(q))
  BY MatchingCreated, SomeOfCreated, CreatedFinite DEF Ids
<1>2. q.limit \in Nat
  BY InboxAssumption
<1>3. QED
  BY <1>1, <1>2, NotCutOff DEF Total, Items

LEMMA SameLists ==
    ASSUME UNCHANGED status, NEW q
    PROVE  ListForRecipient(q)' = ListForRecipient(q)
  BY DEF ListForRecipient, Items, Total, UnreadCount, Matching, Created

-----------------------------------------------------------------------------
(* The change applied to a list *)

\* A list stays one.
LEMMA ApplyType ==
    ASSUME ServerOK, NEW q \in Queries, NEW kind \in Kinds, NEW n, NEW d, ListOK(d)
    PROVE  ListOK(Apply(kind, n, d, q))
<1>1. PICK S \in SUBSET Ids : d.items \in [S -> NotificationStatus]
  BY DEF ListOK, Lists
<1>2. S \subseteq Created /\ d.total \in Nat /\ d.unreadCount \in Nat
  BY <1>1 DEF ListOK, Lists
<1>3. ASSUME NEW f \in [S -> NotificationStatus]
      PROVE  /\ FilterItems(f, q) \in UNION {[R -> NotificationStatus] : R \in SUBSET Ids}
             /\ DOMAIN FilterItems(f, q) \subseteq Created
             /\ Cardinality(DOMAIN FilterItems(f, q)) \in Nat
  <2> DEFINE R == {m \in DOMAIN f : q.status \in {NoFilter, f[m]}}
  <2>1. FilterItems(f, q) = [m \in R |-> f[m]]
    BY DEF FilterItems
  <2>2. R \in SUBSET Ids /\ R \in SUBSET Created /\ \A m \in R : f[m] \in NotificationStatus
    BY <1>2
  <2> HIDE DEF R
  <2>3. FilterItems(f, q) \in [R -> NotificationStatus] /\ DOMAIN FilterItems(f, q) = R
    BY <2>1, <2>2
  <2>4. QED
    BY <2>2, <2>3, SomeOfCreated
<1>4. ASSUME NEW next \in NotificationStatus
      PROVE  ListOK(ApplyStatusUpdate(d, q, n, next))
  <2>1. CASE n \notin DOMAIN d.items
    BY <2>1 DEF ApplyStatusUpdate
  <2>2. CASE n \in DOMAIN d.items
    <3> DEFINE items == FilterItems([d.items EXCEPT ![n] = next], q)
               total == IF n \in DOMAIN items THEN d.total ELSE Decrement(d.total)
               unread == IF d.items[n] = "UNREAD" THEN Decrement(d.unreadCount) ELSE d.unreadCount
    <3>1. [d.items EXCEPT ![n] = next] \in [S -> NotificationStatus]
      BY <1>1
    <3>2. items \in UNION {[R -> NotificationStatus] : R \in SUBSET Ids} /\ DOMAIN items \subseteq Created
      BY <1>3, <3>1
    <3>3. Decrement(d.total) \in Nat /\ Decrement(d.unreadCount) \in Nat
      BY <1>2 DEF Decrement
    <3>4. total \in Nat /\ unread \in Nat
      BY <1>2, <3>3
    <3>5. ApplyStatusUpdate(d, q, n, next) = [items |-> items, total |-> total, unreadCount |-> unread]
      BY <2>2 DEF ApplyStatusUpdate
    <3> HIDE DEF items, total, unread
    <3>6. QED
      BY <3>2, <3>4, <3>5 DEF ListOK, Lists
  <2>3. QED
    BY <2>1, <2>2
<1>5. ListOK(ApplyMarkAllRead(d, q))
  <2> DEFINE f == [m \in DOMAIN d.items |-> IF d.items[m] = "UNREAD" THEN "READ" ELSE d.items[m]]
  <2>1. f \in [S -> NotificationStatus]
    BY <1>1 DEF NotificationStatus
  <2>2. ApplyMarkAllRead(d, q) = [items |-> FilterItems(f, q), total |-> Cardinality(DOMAIN FilterItems(f, q)),
                                  unreadCount |-> 0]
    BY DEF ApplyMarkAllRead
  <2> HIDE DEF f
  <2>3. QED
    BY <1>3, <2>1, <2>2 DEF ListOK, Lists
<1>6. QED
  BY <1>4, <1>5 DEF Apply, Kinds, NotificationStatus

\* A list that shows the notification and all there is becomes what the server has.
LEMMA UpdateRight ==
    ASSUME ServerOK, NEW q \in Queries, Total(q) <= q.limit,
           NEW id \in DOMAIN Items(q), NEW next \in {"READ", "DISMISSED"},
           status' = [status EXCEPT ![id] = next]
    PROVE  ApplyStatusUpdate(ListForRecipient(q), q, id, next) = ListForRecipient(q)'
<1> DEFINE M == Matching(q)
           U == {n \in Created : status[n] = "UNREAD"}
           f == [n \in M |-> status'[n]]
           N == {m \in M : q.status \in {NoFilter, status'[m]}}
<1>1. Items(q) = [n \in M |-> status[n]] /\ id \in M /\ M \in SUBSET Created
  BY UncutList, MatchingCreated
<1>2. Created' = Created /\ status'[id] = next /\ \A n \in Created \ {id} : status'[n] = status[n]
  BY <1>1 DEF Created
<1>3. Matching(q)' = N
  <2>1. ASSUME NEW n \in Created
        PROVE  Matches(n, status'[n], q) <=> n \in N
    <3>1. CASE n = id
      BY <3>1, <1>1, <1>2 DEF Matching, Matches
    <3>2. CASE n # id
      BY <3>2, <1>2 DEF Matching, Matches
    <3>3. QED
      BY <3>1, <3>2
  <2>2. Matching(q)' = {n \in Created : Matches(n, status'[n], q)}
    BY <1>2 DEF Matching
  <2>3. N \subseteq Created
    BY <1>1
  <2> HIDE DEF N
  <2>4. QED
    BY <2>1, <2>2, <2>3
<1>4. [Items(q) EXCEPT ![id] = next] = f
  BY <1>1, <1>2
<1>5. FilterItems(f, q) = [n \in N |-> status'[n]]
  BY DEF FilterItems
<1>6. IF id \in N THEN N = M ELSE N = M \ {id}
  BY <1>1, <1>2 DEF Matching, Matches
<1>7. Cardinality(M) \in Nat /\ Cardinality(N) \in Nat /\ Cardinality(M \ {id}) = Cardinality(M) - 1
      /\ Cardinality(N) <= Cardinality(M)
  <2>1. N \in SUBSET M
    OBVIOUS
  <2> HIDE DEF N
  <2>2. QED
    BY <1>1, <2>1, SomeOfCreated
<1>8. Total(q)' = IF id \in N THEN Total(q) ELSE Decrement(Total(q))
  <2>1. Total(q)' = Cardinality(N) /\ Total(q) = Cardinality(M)
    BY <1>3 DEF Total
  <2> HIDE DEF N, M
  <2>2. Cardinality(N) = IF id \in N THEN Cardinality(M) ELSE Cardinality(M) - 1
    BY <1>6, <1>7
  <2>3. QED
    BY <2>1, <2>2, <1>7 DEF Decrement
<1>9. Items(q)' = [n \in N |-> status'[n]]
  <2>1. N \in SUBSET Int /\ IsFiniteSet(N) /\ q.limit \in Nat /\ Cardinality(N) <= q.limit
    <3>1. N \in SUBSET Created
      BY <1>1
    <3> HIDE DEF N
    <3>2. QED
      BY <3>1, <1>7, SomeOfCreated, CreatedFinite, InboxAssumption DEF Ids, Total
  <2>2. {m \in N : Cardinality({k \in N : k > m}) < q.limit} = N
    BY <2>1, NotCutOff
  <2>3. Items(q)' = [n \in {m \in Matching(q)' : Cardinality({k \in Matching(q)' : k > m}) < q.limit} |-> status'[n]]
    BY DEF Items
  <2> HIDE DEF N
  <2>4. QED
    BY <1>3, <2>2, <2>3
<1>10. UnreadCount' = IF status[id] = "UNREAD" THEN Decrement(UnreadCount) ELSE UnreadCount
  <2>1. {n \in Created' : status'[n] = "UNREAD"} = U \ {id}
    BY <1>2
  <2>2. UnreadCount' = Cardinality(U \ {id})
    BY <2>1 DEF UnreadCount
  <2>3. U \in SUBSET Created /\ UnreadCount = Cardinality(U)
    BY DEF UnreadCount
  <2>4. CASE status[id] = "UNREAD"
    <3>1. id \in U /\ U \ {id} \in SUBSET U
      BY <2>4, <1>1
    <3> HIDE DEF U
    <3>2. Cardinality(U \ {id}) = Cardinality(U) - 1 /\ Cardinality(U \ {id}) \in Nat /\ Cardinality(U) \in Nat
      BY <2>3, <3>1, SomeOfCreated
    <3>3. QED
      BY <2>2, <2>3, <2>4, <3>2 DEF Decrement
  <2>5. CASE status[id] # "UNREAD"
    <3>1. U \ {id} = U
      BY <2>5
    <3>2. QED
      BY <2>2, <2>3, <2>5, <3>1
  <2>6. QED
    BY <2>4, <2>5
<1>11. Items(q)[id] = status[id]
  BY <1>1
<1> HIDE DEF M, N, f, U
<1>12. FilterItems([Items(q) EXCEPT ![id] = next], q) = Items(q)' /\ DOMAIN Items(q)' = N
  BY <1>4, <1>5, <1>9
<1>13. ApplyStatusUpdate(ListForRecipient(q), q, id, next)
         = [items |-> Items(q)', total |-> IF id \in N THEN Total(q) ELSE Decrement(Total(q)),
            unreadCount |-> IF status[id] = "UNREAD" THEN Decrement(UnreadCount) ELSE UnreadCount]
  BY <1>11, <1>12 DEF ApplyStatusUpdate, ListForRecipient
<1>14. QED
  BY <1>8, <1>10, <1>13 DEF ListForRecipient

\* So does a list of those that are not read, when all are marked read.
LEMMA AllReadRight ==
    ASSUME ServerOK, NEW q \in Queries, Total(q) <= q.limit, q.status # "READ",
           status' = [n \in Created |-> IF status[n] = "UNREAD" THEN "READ" ELSE status[n]]
    PROVE  ApplyMarkAllRead(ListForRecipient(q), q) = ListForRecipient(q)'
<1> DEFINE M == Matching(q)
           f == [n \in M |-> status'[n]]
           N == {m \in M : q.status \in {NoFilter, status'[m]}}
<1>1. Items(q) = [n \in M |-> status[n]] /\ M \in SUBSET Created
  BY UncutList, MatchingCreated
<1>2. Created' = Created /\ \A n \in Created : status'[n] = IF status[n] = "UNREAD" THEN "READ" ELSE status[n]
  BY DEF Created
<1>3. Matching(q)' = N
  <2>1. ASSUME NEW n \in Created
        PROVE  Matches(n, status'[n], q) <=> n \in N
    BY <1>2 DEF Matching, Matches
  <2>2. Matching(q)' = {n \in Created : Matches(n, status'[n], q)}
    BY <1>2 DEF Matching
  <2>3. N \subseteq Created
    BY <1>1
  <2> HIDE DEF N
  <2>4. QED
    BY <2>1, <2>2, <2>3
<1>4. [n \in DOMAIN Items(q) |-> IF Items(q)[n] = "UNREAD" THEN "READ" ELSE Items(q)[n]] = f
  BY <1>1, <1>2
<1>5. FilterItems(f, q) = [n \in N |-> status'[n]]
  BY DEF FilterItems
<1>6. Items(q)' = [n \in N |-> status'[n]]
  <2>1. N \in SUBSET M
    OBVIOUS
  <2> HIDE DEF N
  <2>2. N \in SUBSET Int /\ IsFiniteSet(N) /\ q.limit \in Nat /\ Cardinality(N) <= q.limit
    <3>1. N \in SUBSET Created /\ Cardinality(N) \in Nat /\ Cardinality(M) \in Nat /\ Cardinality(N) <= Cardinality(M)
      BY <1>1, <2>1, SomeOfCreated
    <3>2. QED
      BY <3>1, SomeOfCreated, CreatedFinite, InboxAssumption DEF Ids, Total
  <2>3. {m \in N : Cardinality({k \in N : k > m}) < q.limit} = N
    BY <2>2, NotCutOff
  <2>4. Items(q)' = [n \in {m \in Matching(q)' : Cardinality({k \in Matching(q)' : k > m}) < q.limit} |-> status'[n]]
    BY DEF Items
  <2>5. QED
    BY <1>3, <2>3, <2>4
<1>7. UnreadCount' = 0
  <2>1. {n \in Created' : status'[n] = "UNREAD"} = {}
    BY <1>2
  <2>2. QED
    BY <2>1, FS_EmptySet DEF UnreadCount
<1> HIDE DEF M, N, f
<1>8. Total(q)' = Cardinality(N) /\ DOMAIN Items(q)' = N
  BY <1>3, <1>6 DEF Total
<1>9. ApplyMarkAllRead(ListForRecipient(q), q)
        = [items |-> Items(q)', total |-> Cardinality(N), unreadCount |-> 0]
  BY <1>4, <1>5, <1>6, <1>8 DEF ApplyMarkAllRead, ListForRecipient
<1>10. QED
  BY <1>7, <1>8, <1>9 DEF ListForRecipient

\* To mark as read what is read changes no list.
LEMMA AlreadyRead ==
    ASSUME ServerOK, NEW q \in Queries, NEW id \in Created, status[id] = "READ"
    PROVE  ApplyStatusUpdate(ListForRecipient(q), q, id, "READ") = ListForRecipient(q)
<1> DEFINE S == DOMAIN Items(q)
<1>1. Items(q) = [n \in S |-> status[n]] /\ S \subseteq Matching(q)
  BY DEF Items
<1>2. CASE id \notin S
  BY <1>2 DEF ApplyStatusUpdate, ListForRecipient
<1>3. CASE id \in S
  <2>1. [Items(q) EXCEPT ![id] = "READ"] = Items(q) /\ Items(q)[id] = "READ"
    BY <1>1, <1>3
  <2>2. \A m \in S : q.status \in {NoFilter, Items(q)[m]}
    BY <1>1 DEF Matching, Matches
  <2>3. FilterItems(Items(q), q) = Items(q)
    <3>1. {m \in DOMAIN Items(q) : q.status \in {NoFilter, Items(q)[m]}} = S
      BY <2>2
    <3>2. FilterItems(Items(q), q) = [n \in S |-> Items(q)[n]]
      BY <3>1 DEF FilterItems
    <3>3. QED
      BY <3>2, <1>1
  <2>4. QED
    BY <1>3, <2>1, <2>3 DEF ApplyStatusUpdate, ListForRecipient
<1>4. QED
  BY <1>2, <1>3

-----------------------------------------------------------------------------
(* Each action keeps the invariant *)

LEMMA ListTypes == ServerOK => \A q \in Queries : ListOK(ListForRecipient(q))
  BY ListType

LEMMA NextListTypes == ServerOK' => \A q \in Queries : ListOK(ListForRecipient(q))'
<1>1. (ServerOK => \A q \in Queries : ListOK(ListForRecipient(q)))'
  BY ListTypes, PTL
<1>2. QED
  BY <1>1

LEMMA BeginRight ==
    ASSUME ServerOK, ListsOK, NEW q \in Queries
    PROVE  /\ Begin(q) \in Fetches /\ Begin(q) # NotFetching /\ ListOK(Begin(q).answer)
           /\ Begin(q).since = foreign /\ Begin(q).calm <= overlaps
           /\ Begin(q).answer = ListForRecipient(q)
           /\ Begin(q).calm = overlaps => Pending = {}
<1>1. ListOK(ListForRecipient(q)) /\ ListForRecipient(q) \in Lists
  BY ListType DEF ListOK
<1>2. foreign \in Nat /\ overlaps \in Nat /\ NotFetching \notin Fetches
  BY InboxAssumption DEF ListsOK
<1> HIDE DEF ListOK, ListForRecipient, Lists
<1>3. QED
  BY <1>1, <1>2 DEF Begin, Fetches

LEMMA ServerSame ==
    ASSUME ServerOK, UNCHANGED serverVars
    PROVE  ServerOK'
  BY DEF ServerOK, serverVars, RequestOK, Created

\* With the table and the requests what they are, the conditions are about the same
\* lists and changes.
LEMMA SameServer ==
    ASSUME UNCHANGED <<serverVars, foreign, overlaps>>
    PROVE  /\ \A q \in Queries : ListForRecipient(q)' = ListForRecipient(q)
           /\ \A d : Followed(d)' <=> Followed(d)
           /\ \A d : EntryOK(d)' <=> EntryOK(d)
           /\ \A d : ListOK(d)' <=> ListOK(d)
  BY SameLists DEF serverVars, Followed, EntryOK, ListOK, Created

\* Fetches begin and fail; the lists and the copies are what they were.
LEMMA OnlyFetches ==
    ASSUME IInv, NEW q \in Queries,
           UNCHANGED <<serverVars, cache, foreign, overlaps>>, shown' \in Queries,
           \/ fetch' = fetch
           \/ fetch' = [fetch EXCEPT ![q] = Begin(q)]
           \/ fetch' = [fetch EXCEPT ![q] = NotFetching],
           mutation' \in [Handlers -> Mutations \cup {NoMutation}], Pending' = Pending,
           \A h \in Pending : mutation'[h].snapshot = mutation[h].snapshot
    PROVE  IInv'
<1>1. ServerOK'
  BY ServerSame DEF IInv
<1>2. /\ \A p \in Queries : ListForRecipient(p)' = ListForRecipient(p)
      /\ cache' = cache /\ request' = request /\ status' = status /\ foreign' = foreign /\ overlaps' = overlaps
  BY SameServer DEF serverVars
<1>3. \A p \in Queries : fetch'[p] \in {fetch[p], Begin(p), NotFetching} /\ fetch' \in [Queries -> Fetches \cup {NotFetching}]
  BY BeginRight DEF IInv, ListsOK
<1>4. ListsOK'
  <2>1. ASSUME NEW p \in Queries, fetch'[p] # NotFetching
        PROVE  ListOK(fetch'[p].answer) /\ fetch'[p].since <= foreign /\ fetch'[p].calm <= overlaps
    <3>1. CASE fetch'[p] = fetch[p]
      BY <2>1, <3>1 DEF IInv, ListsOK, InFlight
    <3>2. CASE fetch'[p] = Begin(p)
      BY <3>2, BeginRight DEF IInv, ListsOK
    <3>3. QED
      BY <2>1, <3>1, <3>2, <1>3
  <2>2. QED
    BY <1>2, <1>3, <2>1 DEF IInv, ListsOK, EntryOK, ListOK, Created, InFlight
<1>5. ChangesOK'
  BY <1>2 DEF IInv, ChangesOK, EntryOK, ListOK, Created
<1>6. ASSUME NEW p \in Queries
      PROVE  FetchRight(p)'
  <2>1. CASE fetch'[p] = fetch[p]
    BY <2>1, <1>2 DEF IInv, FetchRight
  <2>2. CASE fetch'[p] = Begin(p)
    BY <2>2, <1>2, BeginRight DEF IInv, FetchRight
  <2>3. CASE fetch'[p] = NotFetching
    BY <2>3 DEF FetchRight
  <2>4. QED
    BY <1>3, <2>1, <2>2, <2>3
<1>7. ASSUME NEW p \in Queries
      PROVE  CacheRight(p)'
  <2>1. CacheRight(p)
    BY DEF IInv
  <2>2. \A h \in Pending : AheadRight(h, p) => AheadRight(h, p)'
    BY <1>2 DEF AheadRight, Covers, Followed
  <2>3. QED
    BY <1>2, <2>1, <2>2 DEF CacheRight, Stale, Followed
<1>8. ASSUME NEW p \in Queries, NEW h \in Pending'
      PROVE  CopyRight(h, p)'
  <2>1. CopyRight(h, p)
    BY DEF IInv
  <2>2. QED
    BY <1>2, <2>1 DEF CopyRight, Followed, Alone
<1>9. QED
  BY <1>1, <1>4, <1>5, <1>6, <1>7, <1>8 DEF IInv

LEMMA ShowKeeps ==
    ASSUME IInv, NEW q \in Queries, Show(q)
    PROVE  IInv'
<1>1. /\ mutation' \in [Handlers -> Mutations \cup {NoMutation}] /\ Pending' = Pending
      /\ \A h \in Pending : mutation'[h].snapshot = mutation[h].snapshot
  <2>1. CASE q # Bell
    BY <2>1 DEF Show, IInv, ChangesOK, Pending
  <2>2. CASE q = Bell
    <3>1. \A h \in Handlers : mutation'[h] = IF h \in Pending THEN [mutation[h] EXCEPT !.mounted = FALSE] ELSE NoMutation
      BY <2>2 DEF Show
    <3>2. \A h \in Pending : mutation[h] \in Mutations
      BY DEF IInv, ChangesOK, Pending
    <3>3. \A h \in Pending : /\ [mutation[h] EXCEPT !.mounted = FALSE] \in Mutations
                             /\ [mutation[h] EXCEPT !.mounted = FALSE].snapshot = mutation[h].snapshot
      BY <3>2 DEF Mutations
    <3>4. mutation' \in [Handlers -> Mutations \cup {NoMutation}]
      BY <2>2, <3>1, <3>3 DEF Show
    <3>5. Pending' = Pending
      BY <3>1, <3>3, InboxAssumption DEF Pending
    <3>6. QED
      BY <3>1, <3>3, <3>4, <3>5 DEF Pending
  <2>3. QED
    BY <2>1, <2>2
<1>2. QED
  BY <1>1, OnlyFetches DEF Show

LEMMA FetchFailsKeeps ==
    ASSUME IInv, NEW q \in Queries, FetchFails(q) \/ Refetch(q)
    PROVE  IInv'
<1>1. /\ mutation' \in [Handlers -> Mutations \cup {NoMutation}] /\ Pending' = Pending
      /\ \A h \in Pending : mutation'[h].snapshot = mutation[h].snapshot
      /\ shown' \in Queries
  BY DEF FetchFails, Refetch, IInv, ChangesOK, ListsOK, Pending
<1>2. QED
  BY <1>1, OnlyFetches DEF FetchFails, Refetch

\* The answer of a fetch is put into the cache.
LEMMA FetchAnsweredKeeps ==
    ASSUME IInv, NEW q \in Queries, FetchAnswered(q)
    PROVE  IInv'
<1> DEFINE entry == [show |-> fetch[q].answer, stale |-> FALSE, since |-> fetch[q].since, calm |-> fetch[q].calm]
<1>1. ServerOK'
  BY ServerSame DEF IInv, FetchAnswered
<1>2. /\ \A p \in Queries : ListForRecipient(p)' = ListForRecipient(p)
      /\ mutation' = mutation /\ request' = request /\ status' = status /\ shown' = shown
      /\ foreign' = foreign /\ overlaps' = overlaps
      /\ Pending' = Pending
  BY SameServer DEF serverVars, FetchAnswered, Pending
<1>3. fetch[q] \in Fetches /\ ListOK(fetch[q].answer) /\ fetch[q].since <= foreign /\ fetch[q].calm <= overlaps
  BY DEF IInv, ListsOK, FetchAnswered, InFlight
<1>4. entry \in Entries /\ EntryOK(entry) /\ entry # NoData
  <2>1. fetch[q].answer \in Lists /\ fetch[q].since \in Int /\ fetch[q].calm \in Int
    BY <1>3 DEF ListOK, Fetches
  <2> HIDE DEF Lists
  <2>2. entry \in Entries
    BY <2>1 DEF Entries
  <2>3. entry.show = fetch[q].answer /\ entry.since = fetch[q].since /\ entry.calm = fetch[q].calm
    OBVIOUS
  <2> HIDE DEF entry
  <2>4. QED
    BY <1>3, <2>2, <2>3, InboxAssumption DEF EntryOK
<1>5. /\ \A p \in Queries : cache'[p] = IF p = q THEN entry ELSE cache[p]
      /\ \A p \in Queries : fetch'[p] = IF p = q THEN NotFetching ELSE fetch[p]
      /\ cache' \in [Queries -> Entries \cup {NoData}] /\ fetch' \in [Queries -> Fetches \cup {NotFetching}]
  <2>1. cache' = [cache EXCEPT ![q] = entry] /\ fetch' = [fetch EXCEPT ![q] = NotFetching]
    BY DEF FetchAnswered
  <2>2. cache \in [Queries -> Entries \cup {NoData}] /\ fetch \in [Queries -> Fetches \cup {NotFetching}]
    BY DEF IInv, ListsOK
  <2> HIDE DEF entry
  <2>3. QED
    BY <1>4, <2>1, <2>2
<1> HIDE DEF entry
<1>6. ListsOK'
  <2>1. \A p \in Queries : cache'[p] # NoData => EntryOK(cache'[p])
    BY <1>4, <1>5 DEF IInv, ListsOK
  <2>2. \A p \in Queries : fetch'[p] # NotFetching =>
          ListOK(fetch'[p].answer) /\ fetch'[p].since <= foreign /\ fetch'[p].calm <= overlaps
    BY <1>5 DEF IInv, ListsOK, InFlight
  <2>3. shown \in Queries /\ foreign \in Nat /\ overlaps \in Nat
    BY DEF IInv, ListsOK
  <2>4. QED
    BY <1>2, <1>5, <2>1, <2>2, <2>3 DEF ListsOK, EntryOK, ListOK, Created, InFlight
<1>7. ChangesOK'
  BY <1>2 DEF IInv, ChangesOK, EntryOK, ListOK, Created
<1>8. ASSUME NEW p \in Queries
      PROVE  FetchRight(p)'
  BY <1>2, <1>5 DEF IInv, FetchRight
<1>9. ASSUME NEW p \in Queries
      PROVE  CacheRight(p)'
  <2>1. CASE p = q
    <3>1. FetchRight(q) /\ fetch[q] # NotFetching
      BY DEF IInv, FetchAnswered, InFlight
    <3>2. entry.show = fetch[q].answer /\ entry.since = fetch[q].since /\ entry.calm = fetch[q].calm
      BY DEF entry
    <3>3. QED
      BY <1>2, <1>5, <2>1, <3>1, <3>2 DEF FetchRight, CacheRight, Followed
  <2>2. CASE p # q
    <3>1. CacheRight(p)
      BY DEF IInv
    <3>2. cache'[p] = cache[p]
      BY <1>5, <2>2
    <3>3. \A h \in Pending : AheadRight(h, p) => AheadRight(h, p)'
      BY <1>2, <3>2 DEF AheadRight, Covers, Followed
    <3>4. QED
      BY <1>2, <3>1, <3>2, <3>3 DEF CacheRight, Stale, Followed
  <2>3. QED
    BY <2>1, <2>2
<1>10. ASSUME NEW p \in Queries, NEW h \in Pending'
       PROVE  CopyRight(h, p)'
  <2>1. CopyRight(h, p)
    BY <1>2 DEF IInv
  <2>2. QED
    BY <1>2, <2>1 DEF CopyRight, Followed, Alone
<1>11. QED
  BY <1>1, <1>6, <1>7, <1>8, <1>9, <1>10 DEF IInv

\* A request of nobody's, or a free slot: the page has nothing to do with it.
LEMMA OthersRequest ==
    ASSUME IInv, NEW h \in Handlers, h \notin Pending, NEW r \in Requests \cup {NoRequest},
           request' = [request EXCEPT ![h] = r], RequestOK(h)',
           UNCHANGED <<status, cache, fetch, shown, mutation, foreign, overlaps>>
    PROVE  IInv'
<1>1. \A g \in Handlers \ {h} : request'[g] = request[g]
  BY DEF IInv, ServerOK
<1>2. ServerOK'
  <2>1. \A g \in Handlers \ {h} : RequestOK(g)'
    BY <1>1 DEF IInv, ServerOK, RequestOK, Created
  <2>2. QED
    BY <2>1 DEF IInv, ServerOK
<1>3. \A p \in Queries : ListForRecipient(p)' = ListForRecipient(p)
  BY SameLists
<1>4. Pending' = Pending
  BY DEF Pending
<1>5. ListsOK'
  BY DEF IInv, ListsOK, EntryOK, ListOK, Created, InFlight
<1>6. ChangesOK'
  <2>1. \A g \in Pending : request'[g] # NoRequest
    BY <1>1 DEF IInv, ChangesOK, Pending
  <2>2. QED
    BY <1>4, <2>1 DEF IInv, ChangesOK, EntryOK, ListOK, Created
<1>7. ASSUME NEW p \in Queries
      PROVE  CacheRight(p)' /\ FetchRight(p)' /\ \A g \in Pending' : CopyRight(g, p)'
  <2>1. CacheRight(p) /\ FetchRight(p) /\ \A g \in Pending : CopyRight(g, p)
    BY DEF IInv
  <2>2. \A g \in Pending : request'[g] = request[g]
    BY <1>1 DEF Pending
  <2>3. \A g \in Pending : AheadRight(g, p) => AheadRight(g, p)'
    BY <1>3, <2>2 DEF AheadRight, Covers, Followed
  <2>4. CacheRight(p)'
    BY <1>3, <1>4, <2>1, <2>3 DEF CacheRight, Stale, Followed
  <2>5. FetchRight(p)'
    BY <1>3, <1>4, <2>1 DEF FetchRight
  <2>6. \A g \in Pending : CopyRight(g, p)'
    BY <1>3, <1>4, <2>1, <2>2 DEF CopyRight, Followed, Alone
  <2>7. QED
    BY <1>4, <2>4, <2>5, <2>6
<1>8. QED
  BY <1>2, <1>5, <1>6, <1>7 DEF IInv

LEMMA OtherDeviceKeeps ==
    ASSUME IInv, NEW h \in Handlers, NEW kind \in Kinds, NEW n \in 0..MaxNotifications, OtherDevice(h, kind, n)
    PROVE  IInv'
<1> DEFINE r == [kind |-> kind, id |-> n, step |-> "received", seen |-> "UNREAD"]
<1>1. r \in Requests
  BY DEF Requests, Steps, NotificationStatus
<1>2. request[h] = NoRequest /\ request' = [request EXCEPT ![h] = r] /\ request'[h] = r
  BY DEF OtherDevice, Receive, IInv, ServerOK
<1>3. h \notin Pending
  BY <1>2 DEF IInv, ChangesOK
<1>4. RequestOK(h)'
  BY <1>1, <1>2 DEF RequestOK, OtherDevice, Receive, Created
<1>5. QED
  BY <1>1, <1>2, <1>3, <1>4, OthersRequest DEF OtherDevice, Receive

LEMMA AnswerDroppedKeeps ==
    ASSUME IInv, NEW h \in Handlers, AnswerDropped(h)
    PROVE  IInv'
<1>1. request' = [request EXCEPT ![h] = NoRequest] /\ request'[h] = NoRequest
  BY DEF AnswerDropped, Release, IInv, ServerOK
<1>2. RequestOK(h)'
  BY <1>1 DEF RequestOK
<1>3. QED
  BY <1>1, <1>2, OthersRequest DEF AnswerDropped, Release, pageVars

\* A change begins: the lists are kept, and changed ahead of the answer.
LEMMA ClickKeeps ==
    ASSUME IInv, NEW h \in Handlers, NEW kind \in Kinds, NEW n \in 0..MaxNotifications, Click(h, kind, n)
    PROVE  IInv'
<1> DEFINE r == [kind |-> kind, id |-> n, step |-> "received", seen |-> "UNREAD"]
           m == [snapshot |-> cache, mounted |-> TRUE]
<1>1. r \in Requests
  BY DEF Requests, Steps, NotificationStatus
<1>2. /\ request[h] = NoRequest /\ request' = [request EXCEPT ![h] = r] /\ request'[h] = r
      /\ \A g \in Handlers \ {h} : request'[g] = request[g]
  BY DEF Click, Receive, IInv, ServerOK
<1>3. h \notin Pending
  BY <1>2 DEF IInv, ChangesOK
<1>4. kind # "readAll" => n \in Created
  <2>1. ListOK(cache[shown].show)
    BY DEF IInv, ListsOK, EntryOK, Click, Enabled
  <2>2. QED
    BY <2>1 DEF ListOK, Click, Enabled
<1>5. ServerOK'
  <2>1. RequestOK(h)'
    BY <1>1, <1>2, <1>4 DEF RequestOK, Click, Receive, Created
  <2>2. \A g \in Handlers \ {h} : RequestOK(g)'
    BY <1>2 DEF IInv, ServerOK, RequestOK, Created, Click, Receive
  <2>3. request' \in [Handlers -> Requests \cup {NoRequest}]
    BY <1>1, <1>2 DEF IInv, ServerOK
  <2>4. QED
    BY <2>1, <2>2, <2>3 DEF IInv, ServerOK, Click, Receive
<1>6. /\ status' = status /\ foreign' = foreign /\ shown' = shown
      /\ overlaps' = IF Pending = {} THEN overlaps ELSE overlaps + 1
      /\ \A p \in Queries : ListForRecipient(p)' = ListForRecipient(p)
      /\ foreign \in Nat /\ overlaps \in Nat /\ shown \in Queries
  BY SameLists DEF Click, Receive, IInv, ListsOK
<1>7. m \in Mutations /\ m # NoMutation
  <2>1. cache \in [Queries -> Entries \cup {NoData}]
    BY DEF IInv, ListsOK
  <2> HIDE DEF Entries
  <2>2. m \in Mutations
    BY <2>1 DEF Mutations
  <2>3. QED
    BY <2>2, InboxAssumption
<1>8. /\ mutation' = [mutation EXCEPT ![h] = m] /\ mutation'[h] = m /\ m.snapshot = cache
      /\ \A g \in Handlers \ {h} : mutation'[g] = mutation[g]
      /\ mutation' \in [Handlers -> Mutations \cup {NoMutation}]
  BY <1>7 DEF Click, IInv, ChangesOK
<1>9. Pending' = Pending \cup {h}
  BY <1>7, <1>8 DEF Pending
<1> HIDE DEF m
<1>10. ASSUME NEW p \in Queries, cache[p] # NoData
       PROVE  /\ cache'[p] # NoData /\ cache'[p] \in Entries /\ ListOK(cache'[p].show)
              /\ cache'[p].show = Apply(kind, n, cache[p].show, p)
              /\ cache'[p].since = cache[p].since /\ cache'[p].calm = cache[p].calm
  <2>1. cache[p] \in Entries /\ ListOK(cache[p].show)
    BY <1>10 DEF IInv, ListsOK, EntryOK
  <2> DEFINE list == Apply(kind, n, cache[p].show, p)
  <2>2. ListOK(list) /\ list \in Lists
    BY <2>1, ApplyType DEF IInv, ListOK
  <2>3. cache'[p] = SetData(cache[p], list)
    BY <1>10 DEF Click, Ahead
  <2> HIDE DEF list, Lists
  <2>4. SetData(cache[p], list) \in Entries
    BY <2>1, <2>2 DEF SetData, Entries
  <2>5. SetData(cache[p], list).show = list /\ SetData(cache[p], list).since = cache[p].since
        /\ SetData(cache[p], list).calm = cache[p].calm
    BY <2>1 DEF SetData, Entries
  <2>6. QED
    BY <2>2, <2>3, <2>4, <2>5, InboxAssumption DEF list
<1>11. ASSUME NEW p \in Queries, cache[p] = NoData
       PROVE  cache'[p] = NoData
  BY <1>11 DEF Click, Ahead
<1>12. \A d : EntryOK(d) => d \in Entries /\ d.show \in Lists /\ DOMAIN d.show.items \subseteq Created'
                            /\ d.since <= foreign' /\ d.calm <= overlaps'
  <2>1. SUFFICES ASSUME NEW d, EntryOK(d)
                 PROVE  d.show \in Lists /\ DOMAIN d.show.items \subseteq Created'
                        /\ d.since <= foreign' /\ d.calm <= overlaps'
    BY DEF EntryOK
  <2>2. d.calm \in Int /\ d.calm <= overlaps /\ d.since <= foreign
    BY <2>1 DEF EntryOK, Entries
  <2>3. d.calm <= overlaps'
    BY <2>2, <1>6
  <2>4. QED
    BY <2>1, <2>2, <2>3, <1>6 DEF EntryOK, ListOK, Created
<1>13. ListsOK'
  <2>1. cache' \in [Queries -> Entries \cup {NoData}]
    <3>1. cache' = [p \in Queries |-> cache'[p]]
      BY DEF Click, Ahead
    <3>2. QED
      BY <3>1, <1>10, <1>11
  <2>2. \A p \in Queries : cache'[p] # NoData => EntryOK(cache'[p])
    BY <1>10, <1>11 DEF IInv, ListsOK, EntryOK
  <2>3. fetch' = [p \in Queries |-> NotFetching]
    BY DEF Click
  <2>4. \A p \in Queries : cache'[p] # NoData => EntryOK(cache[p])'
    BY <2>2, <1>12 DEF EntryOK, ListOK
  <2>5. overlaps' \in Nat
    BY <1>6
  <2>6. QED
    BY <1>6, <2>1, <2>3, <2>4, <2>5 DEF ListsOK, InFlight
<1>14. ChangesOK'
  <2>1. ASSUME NEW g \in Pending', NEW p \in Queries, mutation'[g].snapshot[p] # NoData
        PROVE  EntryOK(mutation'[g].snapshot[p])
    BY <2>1, <1>8, <1>9 DEF IInv, ListsOK, ChangesOK
  <2>2. \A g \in Pending' : request'[g] # NoRequest
    BY <1>1, <1>2, <1>3, <1>9, NotificationsAssumption DEF IInv, ChangesOK, Pending
  <2>3. \A g \in Pending', p \in Queries : mutation'[g].snapshot[p] # NoData => EntryOK(mutation[g].snapshot[p])'
    BY <2>1, <1>12 DEF EntryOK, ListOK
  <2>4. QED
    BY <1>8, <2>2, <2>3 DEF ChangesOK
<1>15. ASSUME NEW p \in Queries
       PROVE  CacheRight(p)' /\ \A g \in Pending' : CopyRight(g, p)'
  <2>1. Pending' # {}
    BY <1>9
  <2>2. CASE Pending = {}
    <3>1. Pending' = {h} /\ overlaps' = overlaps
      BY <2>2, <1>6, <1>9
    <3>2. Followed(cache[p]) => cache[p].show = ListForRecipient(p)
      BY <2>2 DEF IInv, CacheRight
    <3>3. CopyRight(h, p)'
      BY <3>1, <3>2, <1>6, <1>8 DEF CopyRight, Followed, Alone
    <3>4. AheadRight(h, p)' \/ ~Followed(cache[p])'
      <4>1. Followed(cache[p])' => Followed(mutation[h].snapshot[p])' /\ cache[p] # NoData
        BY <3>1, <1>6, <1>8, <1>10, <1>11 DEF Followed
      <4>2. request'[h].step = "received" /\ request'[h].kind = kind /\ request'[h].id = n
        BY <1>2
      <4>3. cache[p] # NoData => cache'[p].show = Apply(kind, n, cache[p].show, p)
        BY <1>10
      <4>4. QED
        BY <4>1, <4>2, <4>3, <1>8 DEF AheadRight
    <3>5. QED
      BY <2>1, <3>1, <3>3, <3>4 DEF CacheRight
  <2>3. CASE Pending # {}
    <3>1. overlaps' = overlaps + 1
      BY <2>3, <1>6
    <3>2. \A d : EntryOK(d) => d.calm <= overlaps /\ d.calm \in Int
      BY DEF EntryOK, Entries
    <3>3. ~Followed(cache[p])'
      <4>1. cache[p] # NoData => EntryOK(cache[p])
        BY DEF IInv, ListsOK
      <4>2. QED
        BY <3>1, <3>2, <4>1, <1>6, <1>10, <1>11 DEF Followed
    <3>4. \A g \in Pending' : ~Followed(mutation[g].snapshot[p])'
      <4>1. \A g \in Pending' : mutation'[g].snapshot[p] # NoData => EntryOK(mutation'[g].snapshot[p])
        BY <1>8, <1>9 DEF IInv, ListsOK, ChangesOK
      <4>2. QED
        BY <3>1, <3>2, <4>1, <1>6 DEF Followed
    <3>5. QED
      BY <2>1, <3>3, <3>4 DEF CacheRight, CopyRight
  <2>4. QED
    BY <2>2, <2>3
<1>16. ASSUME NEW p \in Queries
       PROVE  FetchRight(p)'
  BY DEF Click, FetchRight
<1>17. QED
  BY <1>5, <1>13, <1>14, <1>15, <1>16 DEF IInv

\* A change is settled: every list is marked, and what was read before is stale.
LEMMA SettleKeeps ==
    ASSUME IInv, NEW h \in Pending, NEW data, Settle(h, data),
           data \in [Queries -> Entries \cup {NoData}],
           \A q \in Queries : data[q] # NoData => EntryOK(data[q]),
           ServerOK', UNCHANGED <<status, shown, overlaps>>,
           \A g \in Pending \ {h} : request'[g] = request[g],
           \/ foreign' = foreign + 1
           \/ /\ foreign' = foreign
              /\ \A q \in Queries : Followed(data[q]) => Alone(h) /\ data[q].show = ListForRecipient(q)
    PROVE  IInv'
<1>1. /\ \A p \in Queries : ListForRecipient(p)' = ListForRecipient(p)
      /\ foreign \in Nat /\ foreign' \in Nat /\ foreign <= foreign' /\ overlaps \in Nat
      /\ shown \in Queries
  BY SameLists DEF IInv, ListsOK
<1>2. /\ \A g \in Handlers : mutation'[g] = IF g = h THEN NoMutation ELSE mutation[g]
      /\ mutation' \in [Handlers -> Mutations \cup {NoMutation}]
      /\ Pending' = Pending \ {h}
  <2>1. mutation' = [mutation EXCEPT ![h] = NoMutation] /\ mutation \in [Handlers -> Mutations \cup {NoMutation}]
    BY DEF Settle, IInv, ChangesOK
  <2>2. QED
    BY <2>1 DEF Pending
<1>3. \A d : EntryOK(d) => d \in Entries /\ d.show \in Lists /\ DOMAIN d.show.items \subseteq Created'
                           /\ d.since \in Int /\ d.since <= foreign /\ d.since <= foreign' /\ d.calm <= overlaps
  <2>1. SUFFICES ASSUME NEW d, EntryOK(d)
                 PROVE  d.show \in Lists /\ DOMAIN d.show.items \subseteq Created'
                        /\ d.since \in Int /\ d.since <= foreign /\ d.since <= foreign' /\ d.calm <= overlaps
    BY DEF EntryOK
  <2>2. d.since \in Int /\ d.calm <= overlaps /\ d.since <= foreign
    BY <2>1 DEF EntryOK, Entries
  <2>3. d.since <= foreign'
    BY <2>2, <1>1
  <2>4. QED
    BY <2>1, <2>2, <2>3, <1>1 DEF EntryOK, ListOK, Created
<1>4. ASSUME NEW p \in Queries, data[p] # NoData
      PROVE  /\ cache'[p] \in Entries /\ cache'[p] # NoData /\ cache'[p].stale = TRUE
             /\ cache'[p].show = data[p].show /\ cache'[p].since = data[p].since /\ cache'[p].calm = data[p].calm
  <2>1. cache'[p] = [data[p] EXCEPT !.stale = TRUE] /\ data[p] \in Entries
    BY <1>4 DEF Settle, MarkStale
  <2>2. [data[p] EXCEPT !.stale = TRUE] \in Entries
    BY <2>1 DEF Entries
  <2>3. QED
    BY <2>1, <2>2, InboxAssumption DEF Entries
<1>5. \A p \in Queries : data[p] = NoData => cache'[p] = NoData
  BY DEF Settle, MarkStale
<1>6. ASSUME NEW p \in Queries
      PROVE  fetch'[p] = NotFetching \/ (/\ fetch'[p] \in Fetches
                                         /\ fetch'[p].answer \in Lists /\ DOMAIN fetch'[p].answer.items \subseteq Created'
                                         /\ fetch'[p].since <= foreign' /\ fetch'[p].calm <= overlaps
                                         /\ fetch'[p].since = foreign' =>
                                              fetch'[p].answer = ListForRecipient(p)
                                              /\ (fetch'[p].calm = overlaps => Pending' = {}))
  <2>1. CASE p \in Active /\ (fetch[p] = NotFetching \/ data[p] # NoData)
    <3> DEFINE calm == IF Pending \ {h} = {} THEN overlaps ELSE -1
    <3>1. fetch'[p] = [Begin(p) EXCEPT !.calm = calm]
      BY <2>1 DEF Settle
    <3>2. Begin(p) = [answer |-> ListForRecipient(p), since |-> foreign, calm |-> Begin(p).calm]
      BY DEF Begin
    <3>3. ListForRecipient(p) \in Lists /\ DOMAIN ListForRecipient(p).items \subseteq Created'
      BY ListType DEF IInv, ListOK, Created
    <3>4. calm \in Int /\ calm <= overlaps /\ (calm = overlaps => Pending' = {})
      BY <1>1, <1>2
    <3> HIDE DEF calm, ListForRecipient, Lists
    <3>5. fetch'[p] = [answer |-> ListForRecipient(p), since |-> foreign, calm |-> calm]
      BY <3>1, <3>2
    <3>6. foreign \in Int /\ foreign <= foreign'
      BY <1>1
    <3>7. fetch'[p] \in Fetches
      BY <3>3, <3>4, <3>5, <3>6 DEF Fetches
    <3>8. fetch'[p].answer = ListForRecipient(p) /\ fetch'[p].since = foreign /\ fetch'[p].calm = calm
      BY <3>5
    <3>9. QED
      BY <3>3, <3>4, <3>6, <3>7, <3>8
  <2>2. CASE fetch[p] = NotFetching /\ fetch'[p] = NotFetching
    BY <2>2
  <2>3. CASE fetch[p] # NotFetching /\ fetch'[p] = [fetch[p] EXCEPT !.since = -1]
    <3>1. fetch[p] \in Fetches /\ ListOK(fetch[p].answer) /\ fetch[p].calm <= overlaps
      BY <2>3 DEF IInv, ListsOK, InFlight
    <3>2. fetch'[p] \in Fetches /\ fetch'[p].answer = fetch[p].answer /\ fetch'[p].since = -1
          /\ fetch'[p].calm = fetch[p].calm
      BY <2>3, <3>1 DEF Fetches
    <3>3. DOMAIN fetch[p].answer.items \subseteq Created' /\ fetch[p].answer \in Lists
      BY <3>1 DEF ListOK, Created
    <3>4. QED
      BY <1>1, <3>1, <3>2, <3>3
  <2>4. QED
    BY <2>1, <2>2, <2>3 DEF Settle
<1>7. ListsOK'
  <2>1. cache' \in [Queries -> Entries \cup {NoData}]
    <3>1. cache' = [p \in Queries |-> cache'[p]]
      BY DEF Settle, MarkStale
    <3>2. QED
      BY <3>1, <1>4, <1>5
  <2>2. fetch' \in [Queries -> Fetches \cup {NotFetching}]
    <3>1. fetch' = [p \in Queries |-> fetch'[p]]
      BY DEF Settle
    <3>2. QED
      BY <3>1, <1>6
  <2>3. \A p \in Queries : cache'[p] # NoData => EntryOK(cache[p])'
    BY <1>1, <1>3, <1>4, <1>5 DEF EntryOK, ListOK
  <2>4. \A p \in Queries : fetch'[p] # NotFetching =>
          ListOK(fetch[p].answer)' /\ fetch'[p].since <= foreign' /\ fetch'[p].calm <= overlaps'
    BY <1>1, <1>6 DEF ListOK
  <2>5. QED
    BY <1>1, <2>1, <2>2, <2>3, <2>4 DEF ListsOK, InFlight
<1>8. ChangesOK'
  <2>1. \A g \in Pending' : g \in Pending /\ g # h /\ mutation'[g] = mutation[g] /\ request'[g] = request[g]
    BY <1>2 DEF Pending
  <2>2. \A g \in Pending', p \in Queries : mutation'[g].snapshot[p] # NoData => EntryOK(mutation[g].snapshot[p])'
    BY <1>3, <2>1 DEF IInv, ChangesOK, EntryOK, ListOK
  <2>3. \A g \in Pending' : request'[g] # NoRequest
    BY <2>1 DEF IInv, ChangesOK
  <2>4. QED
    BY <1>2, <2>2, <2>3 DEF ChangesOK
<1>9. ASSUME NEW p \in Queries
      PROVE  CacheRight(p)'
  <2>1. Followed(cache[p])' => /\ Followed(data[p]) /\ Alone(h) /\ data[p].show = ListForRecipient(p)
                               /\ cache'[p].show = data[p].show
    <3>1. CASE foreign' = foreign + 1
      <4>1. data[p] # NoData => data[p].since \in Int /\ data[p].since <= foreign
        BY <1>3
      <4>2. cache'[p] # NoData => data[p] # NoData /\ cache'[p].since = data[p].since
        BY <1>4, <1>5
      <4>3. foreign \in Nat
        BY <1>1
      <4>4. cache'[p] # NoData => cache'[p].since # foreign'
        BY <3>1, <4>1, <4>2, <4>3
      <4>5. QED
        BY <4>4 DEF Followed
    <3>2. CASE foreign' # foreign + 1
      BY <3>2, <1>4, <1>5 DEF Followed
    <3>3. QED
      BY <3>1, <3>2
  <2>2. Stale(p)'
    BY <1>4, <1>5 DEF Stale
  <2>3. Alone(h) => Pending' = {}
    BY <1>2 DEF Alone
  <2>4. QED
    BY <1>1, <2>1, <2>2, <2>3 DEF CacheRight
<1>10. ASSUME NEW p \in Queries
       PROVE  FetchRight(p)'
  BY <1>1, <1>6 DEF FetchRight
<1>11. ASSUME NEW p \in Queries, NEW g \in Pending'
       PROVE  CopyRight(g, p)'
  <2>1. g \in Pending /\ g # h /\ mutation'[g] = mutation[g]
    BY <1>2 DEF Pending
  <2>2. ~Followed(mutation[g].snapshot[p])'
    <3>1. CASE foreign' = foreign + 1
      <4>1. mutation[g].snapshot[p] # NoData => EntryOK(mutation[g].snapshot[p])
        BY <2>1 DEF IInv, ChangesOK
      <4>2. QED
        BY <3>1, <4>1, <2>1, <1>1, <1>3 DEF Followed
    <3>2. CASE foreign' = foreign
      <4>1. ~Alone(g)
        BY <2>1 DEF Alone
      <4>2. QED
        BY <3>2, <4>1, <2>1 DEF IInv, CopyRight, Followed
    <3>3. QED
      BY <3>1, <3>2
  <2>3. QED
    BY <2>2 DEF CopyRight
<1>12. QED
  BY <1>7, <1>8, <1>9, <1>10, <1>11 DEF IInv

LEMMA RestoreRight ==
    ASSUME IInv, NEW h \in Pending
    PROVE  /\ Restore(h) \in [Queries -> Entries \cup {NoData}]
           /\ \A q \in Queries : Restore(h)[q] # NoData => EntryOK(Restore(h)[q])
           /\ request[h].step # "done" =>
                \A q \in Queries : Followed(Restore(h)[q]) => Alone(h) /\ Restore(h)[q].show = ListForRecipient(q)
<1>1. Restore(h) = [q \in Queries |-> Restore(h)[q]]
  BY DEF Restore
<1>2. ASSUME NEW q \in Queries
      PROVE  IF mutation[h].snapshot[q] = NoData THEN Restore(h)[q] = cache[q]
             ELSE /\ EntryOK(Restore(h)[q])
                  /\ Restore(h)[q].show = mutation[h].snapshot[q].show
                  /\ Restore(h)[q].since = mutation[h].snapshot[q].since
                  /\ Restore(h)[q].calm = mutation[h].snapshot[q].calm
  <2>1. CASE mutation[h].snapshot[q] = NoData
    BY <2>1 DEF Restore
  <2>2. CASE mutation[h].snapshot[q] # NoData
    <3> DEFINE d == mutation[h].snapshot[q]
    <3>1. EntryOK(d) /\ d \in Entries
      BY <2>2 DEF IInv, ChangesOK, EntryOK
    <3>2. Restore(h)[q] = SetData(d, d.show)
      BY <2>2 DEF Restore
    <3> HIDE DEF d
    <3>3. /\ SetData(d, d.show) \in Entries /\ SetData(d, d.show).show = d.show
          /\ SetData(d, d.show).since = d.since /\ SetData(d, d.show).calm = d.calm
      BY <3>1 DEF SetData, Entries
    <3>4. QED
      BY <2>2, <3>1, <3>2, <3>3 DEF EntryOK, d
  <2>3. QED
    BY <2>1, <2>2
<1>3. \A q \in Queries : cache[q] \in Entries \cup {NoData} /\ (cache[q] # NoData => EntryOK(cache[q]))
  BY DEF IInv, ListsOK
<1>4. \A q \in Queries : Restore(h)[q] \in Entries \cup {NoData} /\ (Restore(h)[q] # NoData => EntryOK(Restore(h)[q]))
  BY <1>2, <1>3 DEF EntryOK
<1>5. ASSUME request[h].step # "done", NEW q \in Queries, Followed(Restore(h)[q])
      PROVE  Alone(h) /\ Restore(h)[q].show = ListForRecipient(q)
  <2>1. CASE mutation[h].snapshot[q] = NoData
    <3>1. Followed(cache[q])
      BY <1>2, <1>5, <2>1
    <3>2. AheadRight(h, q)
      BY <3>1 DEF IInv, CacheRight
    <3>3. QED
      BY <2>1, <3>2 DEF AheadRight, Followed
  <2>2. CASE mutation[h].snapshot[q] # NoData
    <3>1. Followed(mutation[h].snapshot[q])
      BY <1>2, <1>5, <2>2 DEF Followed
    <3>2. QED
      BY <1>2, <1>5, <2>2, <3>1 DEF IInv, CopyRight
  <2>3. QED
    BY <2>1, <2>2
<1>6. QED
  BY <1>1, <1>4, <1>5

LEMMA ConfirmedRight ==
    ASSUME IInv, NEW h \in Pending
    PROVE  /\ Confirmed(h) \in [Queries -> Entries \cup {NoData}]
           /\ \A q \in Queries : Confirmed(h)[q] # NoData => EntryOK(Confirmed(h)[q])
           /\ request[h].step = "done" =>
                \A q \in Queries : Followed(Confirmed(h)[q]) => Alone(h) /\ Confirmed(h)[q].show = ListForRecipient(q)
<1>1. Confirmed(h) = [q \in Queries |-> Confirmed(h)[q]]
  BY DEF Confirmed
<1>2. \A q \in Queries : cache[q] \in Entries \cup {NoData} /\ (cache[q] # NoData => EntryOK(cache[q]))
  BY DEF IInv, ListsOK
<1>3. overlaps \in Nat
  BY DEF IInv, ListsOK
<1>4. ASSUME NEW q \in Queries
      PROVE  \/ Confirmed(h)[q] = cache[q] /\ (cache[q] = NoData \/ Covers(q, h))
             \/ EntryOK(Confirmed(h)[q]) /\ ~Followed(Confirmed(h)[q])
  <2>1. CASE cache[q] # NoData /\ ~Covers(q, h)
    <3> DEFINE d == cache[q]
    <3>1. Confirmed(h)[q] = [d EXCEPT !.calm = -1]
      BY <2>1 DEF Confirmed
    <3>2. d \in Entries /\ EntryOK(d)
      BY <1>2, <2>1
    <3> HIDE DEF d
    <3>3. /\ [d EXCEPT !.calm = -1] \in Entries /\ [d EXCEPT !.calm = -1].show = d.show
          /\ [d EXCEPT !.calm = -1].since = d.since /\ [d EXCEPT !.calm = -1].calm = -1
      BY <3>2 DEF Entries
    <3>4. QED
      BY <1>3, <3>1, <3>2, <3>3 DEF EntryOK, Followed
  <2>2. CASE cache[q] = NoData \/ Covers(q, h)
    BY <2>2 DEF Confirmed
  <2>3. QED
    BY <2>1, <2>2
<1>5. \A q \in Queries :
        Confirmed(h)[q] \in Entries \cup {NoData} /\ (Confirmed(h)[q] # NoData => EntryOK(Confirmed(h)[q]))
  BY <1>2, <1>4 DEF EntryOK
<1>6. ASSUME request[h].step = "done", NEW q \in Queries, Followed(Confirmed(h)[q])
      PROVE  Alone(h) /\ Confirmed(h)[q].show = ListForRecipient(q)
  <2>1. Confirmed(h)[q] = cache[q] /\ Followed(cache[q]) /\ Covers(q, h)
    BY <1>4, <1>6 DEF Followed
  <2>2. AheadRight(h, q)
    BY <2>1 DEF IInv, CacheRight
  <2>3. Followed(mutation[h].snapshot[q]) /\ cache[q].show = ListForRecipient(q)
    BY <1>6, <2>1, <2>2 DEF AheadRight
  <2>4. QED
    BY <2>1, <2>3 DEF IInv, CopyRight
<1>7. QED
  BY <1>1, <1>5, <1>6

LEMMA ReleaseKeeps ==
    ASSUME ServerOK, NEW h \in Handlers, Release(h)
    PROVE  ServerOK' /\ status' = status /\ \A g \in Handlers \ {h} : request'[g] = request[g]
<1>1. /\ request'[h] = NoRequest /\ status' = status
      /\ \A g \in Handlers \ {h} : request'[g] = request[g]
      /\ request' \in [Handlers -> Requests \cup {NoRequest}]
  BY DEF ServerOK, Release
<1>2. \A g \in Handlers : RequestOK(g)'
  BY <1>1 DEF ServerOK, RequestOK, Created
<1>3. QED
  BY <1>1, <1>2 DEF ServerOK

LEMMA AnsweredKeeps ==
    ASSUME IInv, NEW h \in Handlers, Answered(h) \/ RequestLost(h)
    PROVE  IInv'
<1>1. h \in Pending /\ Release(h) /\ UNCHANGED <<shown, overlaps>> /\ foreign' = foreign
  BY DEF Answered, RequestLost
<1>2. ServerOK' /\ status' = status /\ \A g \in Pending \ {h} : request'[g] = request[g]
  BY <1>1, ReleaseKeeps DEF IInv, Pending
<1>3. CASE request[h].step = "done" /\ Settle(h, Confirmed(h))
  BY <1>1, <1>2, <1>3, ConfirmedRight, SettleKeeps
<1>4. CASE request[h].step # "done" /\ Settle(h, Restore(h))
  BY <1>1, <1>2, <1>4, RestoreRight, SettleKeeps
<1>5. QED
  BY <1>3, <1>4 DEF Answered, RequestLost

LEMMA AnswerLostKeeps ==
    ASSUME IInv, NEW h \in Handlers, AnswerLost(h)
    PROVE  IInv'
<1>1. ServerOK' /\ status' = status /\ request' = request
  BY ServerSame DEF IInv, AnswerLost, serverVars
<1>2. h \in Pending /\ Settle(h, Restore(h)) /\ foreign' = foreign + 1 /\ UNCHANGED <<shown, overlaps>>
  BY DEF AnswerLost
<1>3. QED
  BY <1>1, <1>2, RestoreRight, SettleKeeps

\* After a change a fetch under way has read each part before or after it.
LEMMA ReadOnRight ==
    ASSUME ServerOK', ListsOK, ReadOn, Created \subseteq Created'
    PROVE  /\ fetch' \in [Queries -> Fetches \cup {NotFetching}]
           /\ \A q \in Queries : fetch'[q] # NotFetching =>
                /\ q \in InFlight /\ ListOK(fetch[q].answer)'
                /\ fetch'[q].since = fetch[q].since /\ fetch'[q].calm = fetch[q].calm
<1>1. PICK items \in SUBSET InFlight, totals \in SUBSET InFlight, counts \in SUBSET InFlight :
        fetch' = [q \in Queries |->
            IF q \notin InFlight THEN NotFetching
            ELSE [fetch[q] EXCEPT !.answer =
                    [items |-> IF q \in items THEN Items(q)' ELSE @.items,
                     total |-> IF q \in totals THEN Total(q)' ELSE @.total,
                     unreadCount |-> IF q \in counts THEN UnreadCount' ELSE @.unreadCount]]]
  BY DEF ReadOn
<1>2. ASSUME NEW q \in InFlight
      PROVE  /\ fetch'[q] \in Fetches /\ ListOK(fetch[q].answer)'
             /\ fetch'[q].since = fetch[q].since /\ fetch'[q].calm = fetch[q].calm
  <2> DEFINE old == fetch[q].answer
             i == IF q \in items THEN Items(q)' ELSE old.items
             t == IF q \in totals THEN Total(q)' ELSE old.total
             u == IF q \in counts THEN UnreadCount' ELSE old.unreadCount
             all == UNION {[S -> NotificationStatus] : S \in SUBSET Ids}
  <2>1. q \in Queries /\ fetch[q] \in Fetches /\ ListOK(old)
    BY DEF ListsOK, InFlight
  <2>2. fetch'[q] = [fetch[q] EXCEPT !.answer = [items |-> i, total |-> t, unreadCount |-> u]]
    BY <1>1, <2>1
  <2>3. Items(q)' \in all /\ DOMAIN Items(q)' \subseteq Created' /\ Total(q)' \in Nat /\ UnreadCount' \in Nat
    <3>1. ListOK(ListForRecipient(q))'
      BY <2>1, NextListTypes
    <3> HIDE DEF all
    <3>2. ListForRecipient(q)' \in [items : all, total : Nat, unreadCount : Nat]
          /\ DOMAIN ListForRecipient(q).items' \subseteq Created'
      BY <3>1 DEF ListOK, Lists, all
    <3>3. ListForRecipient(q)' = [items |-> Items(q)', total |-> Total(q)', unreadCount |-> UnreadCount']
      BY DEF ListForRecipient
    <3>4. QED
      BY <3>2, <3>3
  <2>4. old.items \in all /\ DOMAIN old.items \subseteq Created' /\ old.total \in Nat /\ old.unreadCount \in Nat
    <3> HIDE DEF all, old
    <3>1. old \in [items : all, total : Nat, unreadCount : Nat] /\ DOMAIN old.items \subseteq Created
      BY <2>1 DEF ListOK, Lists, all
    <3>2. QED
      BY <3>1
  <2> HIDE DEF all
  <2>5. i \in all /\ t \in Nat /\ u \in Nat /\ DOMAIN i \subseteq Created'
    BY <2>3, <2>4
  <2> HIDE DEF i, t, u, old
  <2> DEFINE new == [items |-> i, total |-> t, unreadCount |-> u]
  <2>6. new \in [items : all, total : Nat, unreadCount : Nat] /\ new.items = i
    BY <2>5
  <2>7. new \in Lists /\ DOMAIN new.items \subseteq Created'
    BY <2>5, <2>6 DEF Lists, all
  <2>8. fetch'[q] = [fetch[q] EXCEPT !.answer = new]
    BY <2>2
  <2> HIDE DEF new, Lists
  <2>9. /\ fetch'[q] \in Fetches /\ fetch'[q].answer = new
        /\ fetch'[q].since = fetch[q].since /\ fetch'[q].calm = fetch[q].calm
    BY <2>1, <2>7, <2>8 DEF Fetches
  <2>10. QED
    BY <2>7, <2>9 DEF ListOK
<1>3. \A q \in Queries : q \notin InFlight => fetch'[q] = NotFetching
  BY <1>1
<1>4. fetch' = [q \in Queries |-> fetch'[q]]
  BY <1>1
<1>5. QED
  BY <1>2, <1>3, <1>4

\* Somebody else makes a change: no list is followed any more.
LEMMA ForeignChange ==
    ASSUME IInv, ServerOK', ReadOn, Created \subseteq Created', foreign' = foreign + 1,
           UNCHANGED <<cache, shown, mutation, overlaps>>,
           \A g \in Pending : request'[g] # NoRequest
    PROVE  IInv'
<1>1. foreign \in Nat /\ foreign' \in Nat /\ overlaps \in Nat /\ shown \in Queries
  BY DEF IInv, ListsOK
<1>2. \A d : EntryOK(d) => /\ d \in Entries /\ d.show \in Lists /\ DOMAIN d.show.items \subseteq Created'
                           /\ d.since <= foreign' /\ d.since # foreign' /\ d.calm <= overlaps
  <2>1. SUFFICES ASSUME NEW d, EntryOK(d)
                 PROVE  d.show \in Lists /\ DOMAIN d.show.items \subseteq Created'
                        /\ d.since <= foreign' /\ d.since # foreign' /\ d.calm <= overlaps
    BY DEF EntryOK
  <2>2. d.since \in Int /\ d.calm <= overlaps /\ d.since <= foreign
    BY <2>1 DEF EntryOK, Entries
  <2>3. d.since <= foreign' /\ d.since # foreign'
    BY <2>2, <1>1
  <2>4. QED
    BY <2>1, <2>2, <2>3 DEF EntryOK, ListOK
<1>3. \A q \in InFlight : fetch[q].since <= foreign /\ fetch[q].since \in Int /\ fetch[q].calm <= overlaps
  BY DEF IInv, ListsOK, InFlight, Fetches
<1>4. /\ fetch' \in [Queries -> Fetches \cup {NotFetching}]
      /\ \A q \in Queries : fetch'[q] # NotFetching =>
           ListOK(fetch[q].answer)' /\ fetch'[q].since <= foreign /\ fetch'[q].since \in Int /\ fetch'[q].calm <= overlaps
  BY <1>3, ReadOnRight DEF IInv
<1>5. ListsOK'
  <2>1. \A p \in Queries : cache'[p] # NoData => EntryOK(cache[p])'
    BY <1>2 DEF IInv, ListsOK, EntryOK, ListOK
  <2>2. \A q \in Queries : fetch'[q] # NotFetching =>
          ListOK(fetch[q].answer)' /\ fetch'[q].since <= foreign' /\ fetch'[q].calm <= overlaps
    BY <1>1, <1>4
  <2>3. cache' \in [Queries -> Entries \cup {NoData}]
    BY DEF IInv, ListsOK
  <2>4. QED
    BY <1>1, <1>4, <2>1, <2>2, <2>3 DEF ListsOK, InFlight
<1>6. Pending' = Pending
  BY DEF Pending
<1>7. ChangesOK'
  <2>1. \A g \in Pending, p \in Queries : mutation'[g].snapshot[p] # NoData => EntryOK(mutation[g].snapshot[p])'
    BY <1>2 DEF IInv, ChangesOK, EntryOK, ListOK
  <2>2. QED
    BY <1>6, <2>1 DEF IInv, ChangesOK
<1>8. ASSUME NEW p \in Queries
      PROVE  CacheRight(p)' /\ FetchRight(p)' /\ \A g \in Pending' : CopyRight(g, p)'
  <2>1. cache'[p] # NoData => cache'[p].since # foreign'
    BY <1>2 DEF IInv, ListsOK
  <2>2. fetch'[p] # NotFetching => fetch'[p].since # foreign'
    BY <1>1, <1>4
  <2>3. \A g \in Pending : mutation'[g].snapshot[p] # NoData => mutation'[g].snapshot[p].since # foreign'
    BY <1>2 DEF IInv, ChangesOK
  <2>4. CacheRight(p)'
    BY <2>1 DEF CacheRight, Followed, Stale
  <2>5. FetchRight(p)'
    BY <2>2 DEF FetchRight
  <2>6. \A g \in Pending : CopyRight(g, p)'
    BY <2>3 DEF CopyRight, Followed
  <2>7. QED
    BY <1>6, <2>4, <2>5, <2>6
<1>9. QED
  BY <1>5, <1>7, <1>8 DEF IInv

LEMMA NotifyKeeps ==
    ASSUME IInv, Notify
    PROVE  IInv'
<1>1. PICK k \in 0..MaxNotifications : status \in [1..k -> NotificationStatus]
  BY DEF IInv, ServerOK, Statuses
<1>2. Created = 1..k /\ k \in Nat /\ Cardinality(Created) = k /\ k < MaxNotifications
  BY <1>1, NotificationsAssumption, FS_Interval DEF Created, Notify, Create
<1>3. status' = [n \in 1..(k + 1) |-> IF n \in Created THEN status[n] ELSE "UNREAD"] /\ request' = request
  BY <1>2 DEF Notify, Create
<1>4. status' \in [1..(k + 1) -> NotificationStatus] /\ k + 1 \in 0..MaxNotifications
  BY <1>1, <1>2, <1>3, NotificationsAssumption DEF NotificationStatus
<1>5. Created \subseteq Created'
  <2>1. Created' = 1..(k + 1)
    BY <1>3 DEF Created
  <2>2. QED
    BY <1>2, <2>1
<1>6. ServerOK'
  <2>1. status' \in Statuses
    BY <1>4 DEF Statuses
  <2>2. \A g \in Handlers : RequestOK(g)'
    BY <1>3, <1>5 DEF IInv, ServerOK, RequestOK
  <2>3. QED
    BY <1>3, <2>1, <2>2 DEF IInv, ServerOK
<1>7. \A g \in Pending : request'[g] # NoRequest
  BY <1>3 DEF IInv, ChangesOK
<1>8. QED
  BY <1>5, <1>6, <1>7, ForeignChange DEF Notify

\* The request is done, and the table is still one.
LEMMA WriteServer ==
    ASSUME ServerOK, NEW h \in Handlers, Writes(h)
    PROVE  /\ ServerOK' /\ Created' = Created
           /\ request[h] # NoRequest /\ request[h].step # "done"
           /\ request'[h] # NoRequest /\ request'[h].step = "done"
           /\ request'[h].kind = request[h].kind /\ request'[h].id = request[h].id
           /\ \A g \in Handlers \ {h} : request'[g] = request[g]
<1>1. request[h] # NoRequest /\ request[h] \in Requests /\ request[h].step # "done" /\ To(h, "done")
  BY DEF Writes, Update, MarkAllRead, RequestAt, ServerOK
<1>2. request' = [request EXCEPT ![h].step = "done"] /\ request \in [Handlers -> Requests \cup {NoRequest}]
  BY <1>1 DEF To, ServerOK
<1>3. /\ request'[h] = [request[h] EXCEPT !.step = "done"]
      /\ \A g \in Handlers \ {h} : request'[g] = request[g]
  BY <1>2
<1>4. /\ [request[h] EXCEPT !.step = "done"] \in Requests
      /\ [request[h] EXCEPT !.step = "done"].kind = request[h].kind
      /\ [request[h] EXCEPT !.step = "done"].id = request[h].id
      /\ [request[h] EXCEPT !.step = "done"].step = "done"
  BY <1>1 DEF Requests, Steps
<1>5. request' \in [Handlers -> Requests \cup {NoRequest}]
  BY <1>2, <1>3, <1>4
<1>6. status' \in Statuses /\ Created' = Created
  <2>1. PICK k \in 0..MaxNotifications : status \in [1..k -> NotificationStatus]
    BY DEF ServerOK, Statuses
  <2>2. CASE Update(h)
    <3>1. status' = [status EXCEPT ![request[h].id] = IF request[h].kind = "dismiss" THEN "DISMISSED" ELSE "READ"]
      BY <2>2 DEF Update
    <3>2. status' \in [1..k -> NotificationStatus]
      BY <2>1, <3>1 DEF NotificationStatus
    <3>3. QED
      BY <2>1, <3>2 DEF Statuses, Created
  <2>3. CASE MarkAllRead(h)
    <3>1. status' = [n \in 1..k |-> IF status[n] = "UNREAD" THEN "READ" ELSE status[n]]
      BY <2>1, <2>3 DEF MarkAllRead, Created
    <3>2. status' \in [1..k -> NotificationStatus]
      BY <2>1, <3>1 DEF NotificationStatus
    <3>3. QED
      BY <2>1, <3>2 DEF Statuses, Created
  <2>4. QED
    BY <2>2, <2>3 DEF Writes
<1>7. \A g \in Handlers : RequestOK(g)'
  <2>1. RequestOK(h)'
    <3>1. RequestOK(h)
      BY DEF ServerOK
    <3>2. QED
      BY <1>1, <1>3, <1>4, <1>6, <3>1 DEF RequestOK
  <2>2. \A g \in Handlers \ {h} : RequestOK(g)'
    BY <1>3, <1>6 DEF ServerOK, RequestOK
  <2>3. QED
    BY <2>1, <2>2
<1>8. QED
  BY <1>1, <1>3, <1>4, <1>5, <1>6, <1>7, NotificationsAssumption DEF ServerOK

\* What the page did ahead of the answer to a list is what the request does to it.
LEMMA DoneAhead ==
    ASSUME ServerOK, NEW h \in Handlers, Writes(h), NEW q \in Queries, Covers(q, h),
           mutation[h].snapshot[q].show = ListForRecipient(q)
    PROVE  Apply(request[h].kind, request[h].id, ListForRecipient(q), q) = ListForRecipient(q)'
<1>1. ListForRecipient(q).items = Items(q) /\ ListForRecipient(q).total = Total(q)
  BY DEF ListForRecipient
<1>2. /\ Total(q) <= q.limit
      /\ IF request[h].kind = "readAll" THEN q.status # "READ" ELSE request[h].id \in DOMAIN Items(q)
  BY <1>1 DEF Covers
<1>3. CASE Update(h)
  <2> DEFINE next == IF request[h].kind = "dismiss" THEN "DISMISSED" ELSE "READ"
  <2>1. request[h].kind \in {"read", "dismiss"} /\ request[h].id \in DOMAIN Items(q)
        /\ status' = [status EXCEPT ![request[h].id] = next] /\ next \in {"READ", "DISMISSED"}
    BY <1>2, <1>3 DEF Update, RequestAt
  <2>2. ApplyStatusUpdate(ListForRecipient(q), q, request[h].id, next) = ListForRecipient(q)'
    <3> HIDE DEF next
    <3>1. QED
      BY <1>2, <2>1, UpdateRight
  <2>3. QED
    BY <2>1, <2>2 DEF Apply
<1>4. CASE MarkAllRead(h)
  <2>1. request[h].kind = "readAll"
        /\ status' = [n \in Created |-> IF status[n] = "UNREAD" THEN "READ" ELSE status[n]]
    BY <1>4 DEF MarkAllRead, RequestAt
  <2>2. ApplyMarkAllRead(ListForRecipient(q), q) = ListForRecipient(q)'
    BY <1>2, <2>1, AllReadRight
  <2>3. QED
    BY <2>1, <2>2 DEF Apply
<1>5. QED
  BY <1>3, <1>4 DEF Writes

LEMMA WriteKeeps ==
    ASSUME IInv, NEW h \in Handlers, Write(h)
    PROVE  IInv'
<1>1. /\ ServerOK' /\ Created' = Created
      /\ request[h] # NoRequest /\ request[h].step # "done"
      /\ request'[h] # NoRequest /\ request'[h].step = "done"
      /\ request'[h].kind = request[h].kind /\ request'[h].id = request[h].id
      /\ \A g \in Handlers \ {h} : request'[g] = request[g]
  BY WriteServer DEF IInv, Write
<1>2. \A g \in Pending : request'[g] # NoRequest
  BY <1>1 DEF IInv, ChangesOK, Pending
<1>3. CASE h \notin Pending
  BY <1>1, <1>2, <1>3, ForeignChange DEF Write
<1>4. CASE h \in Pending
  <2>1. /\ cache' = cache /\ shown' = shown /\ mutation' = mutation /\ overlaps' = overlaps /\ foreign' = foreign
        /\ Pending' = Pending /\ Pending # {} /\ ReadOn /\ Writes(h)
    BY <1>4 DEF Write, Pending
  <2>2. /\ fetch' \in [Queries -> Fetches \cup {NotFetching}]
        /\ \A q \in Queries : fetch'[q] # NotFetching =>
             /\ q \in InFlight /\ ListOK(fetch[q].answer)'
             /\ fetch'[q].since = fetch[q].since /\ fetch'[q].calm = fetch[q].calm
    BY <1>1, <2>1, ReadOnRight DEF IInv
  <2>3. ListsOK'
    <3>1. \A p \in Queries : cache'[p] # NoData => EntryOK(cache[p])'
      BY <1>1, <2>1 DEF IInv, ListsOK, EntryOK, ListOK
    <3>2. \A q \in Queries : fetch'[q] # NotFetching =>
            ListOK(fetch[q].answer)' /\ fetch'[q].since <= foreign' /\ fetch'[q].calm <= overlaps'
      BY <2>1, <2>2 DEF IInv, ListsOK
    <3>3. /\ shown \in Queries /\ foreign \in Nat /\ overlaps \in Nat
          /\ cache \in [Queries -> Entries \cup {NoData}]
      BY DEF IInv, ListsOK
    <3>4. QED
      BY <2>1, <2>2, <3>1, <3>2, <3>3 DEF ListsOK, InFlight
  <2>4. ChangesOK'
    BY <1>1, <1>2, <2>1 DEF IInv, ChangesOK, EntryOK, ListOK
  <2>5. ASSUME NEW p \in Queries
        PROVE  FetchRight(p)'
    BY <2>1, <2>2 DEF IInv, FetchRight, InFlight
  <2>6. ASSUME NEW p \in Queries, NEW g \in Pending
        PROVE  CopyRight(g, p)'
    <3>1. CopyRight(g, p)
      BY DEF IInv
    <3>2. CASE g = h
      BY <1>1, <2>1, <3>1, <3>2 DEF CopyRight, Followed, Alone
    <3>3. CASE g # h
      BY <1>4, <2>1, <3>1, <3>3 DEF CopyRight, Followed, Alone
    <3>4. QED
      BY <3>2, <3>3
  <2>7. ASSUME NEW p \in Queries
        PROVE  CacheRight(p)'
    <3>1. SUFFICES ASSUME Followed(cache[p])
                   PROVE  \A g \in Pending : AheadRight(g, p)'
      BY <2>1 DEF CacheRight, Followed
    <3>2. \A g \in Pending : AheadRight(g, p) /\ CopyRight(g, p)
      BY <3>1 DEF IInv, CacheRight
    <3>3. \A g \in Pending : g = h
      BY <3>2, <1>4 DEF AheadRight, CopyRight, Alone
    <3>4. Followed(mutation[h].snapshot[p]) /\ mutation[h].snapshot[p].show = ListForRecipient(p)
          /\ cache[p].show = Apply(request[h].kind, request[h].id, ListForRecipient(p), p)
      BY <1>1, <1>4, <3>2 DEF AheadRight, CopyRight
    <3>5. Covers(p, h)' <=> Covers(p, h)
      BY <1>1, <2>1 DEF Covers
    <3>6. Covers(p, h) => cache[p].show = ListForRecipient(p)'
      BY <2>1, <3>4, DoneAhead DEF IInv
    <3>7. AheadRight(h, p)'
      BY <1>1, <2>1, <3>4, <3>5, <3>6 DEF AheadRight, Followed
    <3>8. QED
      BY <3>3, <3>7
  <2>8. QED
    BY <1>1, <2>1, <2>3, <2>4, <2>5, <2>6, <2>7 DEF IInv
<1>5. QED
  BY <1>3, <1>4

LEMMA CheckKeeps ==
    ASSUME IInv, NEW h \in Handlers, Check(h), UNCHANGED pageVars
    PROVE  IInv'
<1> DEFINE r == request[h]
           s == status[request[h].id]
<1>1. /\ r # NoRequest /\ r \in Requests /\ r.kind \in {"read", "dismiss"} /\ r.step = "received"
      /\ r.id \in Created /\ s \in NotificationStatus
  <2>1. r # NoRequest /\ r \in Requests /\ r.kind \in {"read", "dismiss"} /\ r.step = "received"
    BY DEF Check, RequestAt, IInv, ServerOK
  <2>2. r.id \in Created
    BY <2>1 DEF IInv, ServerOK, RequestOK
  <2>3. QED
    BY <2>1, <2>2, CreatedFinite DEF IInv
<1>2. /\ request'[h] \in Requests /\ request'[h].kind = r.kind /\ request'[h].id = r.id
      /\ request'[h].step = "done" => r.kind = "read" /\ s = "READ"
      /\ r.kind = "read" /\ request'[h].step = "checked" => request'[h].seen = "UNREAD"
  <2>1. CASE r.kind = "dismiss"
    <3>1. request'[h] = [r EXCEPT !.step = "checked"]
      BY <2>1 DEF Check, IInv, ServerOK
    <3>2. QED
      BY <1>1, <2>1, <3>1 DEF Requests, Steps
  <2>2. CASE r.kind = "read"
    <3>1. request'[h] = [r EXCEPT !.step = Readable(s), !.seen = s]
      BY <2>2 DEF Check, IInv, ServerOK
    <3>2. Readable(s) \in Steps /\ (Readable(s) = "done" => s = "READ") /\ (Readable(s) = "checked" => s = "UNREAD")
      BY <1>1 DEF Readable, Steps, NotificationStatus
    <3> HIDE DEF s
    <3>3. QED
      BY <1>1, <2>2, <3>1, <3>2 DEF Requests
  <2>3. QED
    BY <1>1, <2>1, <2>2
<1>3. /\ status' = status /\ \A g \in Handlers \ {h} : request'[g] = request[g]
      /\ request' \in [Handlers -> Requests \cup {NoRequest}]
  BY <1>2 DEF Check, IInv, ServerOK
<1> HIDE DEF r, s
<1>4. /\ cache' = cache /\ fetch' = fetch /\ shown' = shown /\ mutation' = mutation
      /\ overlaps' = overlaps /\ foreign' = foreign /\ Pending' = Pending
      /\ \A p \in Queries : ListForRecipient(p)' = ListForRecipient(p)
  BY <1>3, SameLists DEF pageVars, Pending
<1>5. ServerOK'
  <2>1. RequestOK(h)'
    BY <1>1, <1>2, <1>3 DEF RequestOK, Created
  <2>2. \A g \in Handlers \ {h} : RequestOK(g)'
    BY <1>3 DEF IInv, ServerOK, RequestOK, Created
  <2>3. QED
    BY <1>3, <2>1, <2>2 DEF IInv, ServerOK
<1>6. ListsOK'
  BY <1>3, <1>4 DEF IInv, ListsOK, EntryOK, ListOK, Created, InFlight
<1>7. ChangesOK'
  <2>1. \A g \in Pending : request'[g] # NoRequest
    BY <1>2, <1>3, NotificationsAssumption DEF IInv, ChangesOK, Pending
  <2>2. QED
    BY <1>3, <1>4, <2>1 DEF IInv, ChangesOK, EntryOK, ListOK, Created
<1>8. ASSUME NEW p \in Queries, NEW g \in Pending
      PROVE  CopyRight(g, p)'
  <2>1. CopyRight(g, p)
    BY DEF IInv
  <2>2. request'[g].step # "done" => request[g].step # "done"
    BY <1>1, <1>3 DEF r, Pending
  <2>3. QED
    BY <1>4, <2>1, <2>2 DEF CopyRight, Followed, Alone
<1>9. ASSUME NEW p \in Queries, NEW g \in Pending, AheadRight(g, p)
      PROVE  AheadRight(g, p)'
  <2>1. request'[g].kind = request[g].kind /\ request'[g].id = request[g].id
    BY <1>2, <1>3 DEF r, Pending
  <2>2. Covers(p, g)' <=> Covers(p, g)
    BY <1>4, <2>1 DEF Covers
  <2>3. CASE request'[g].step = request[g].step
    BY <1>4, <1>9, <2>1, <2>2, <2>3 DEF AheadRight, Followed
  <2>4. CASE request'[g].step # request[g].step
    <3>1. g = h /\ request[g].step # "done"
      BY <1>1, <1>3, <2>4 DEF r, Pending
    <3>2. Followed(mutation[g].snapshot[p]) /\ mutation[g].snapshot[p].show = ListForRecipient(p)
      BY <1>9, <3>1 DEF AheadRight, IInv, CopyRight
    <3>3. cache[p].show = Apply(request[g].kind, request[g].id, ListForRecipient(p), p)
      BY <1>9, <3>1, <3>2 DEF AheadRight
    <3>4. CASE request'[g].step = "done"
      <4>1. request[g].kind = "read" /\ status[request[g].id] = "READ" /\ request[g].id \in Created
        BY <1>1, <1>2, <3>1, <3>4 DEF r, s
      <4>2. cache[p].show = ListForRecipient(p)
        BY <3>3, <4>1, AlreadyRead DEF Apply, IInv
      <4>3. QED
        BY <1>4, <3>2, <3>4, <4>2 DEF AheadRight, Followed
    <3>5. CASE request'[g].step # "done"
      BY <1>4, <2>1, <3>2, <3>3, <3>5 DEF AheadRight, Followed
    <3>6. QED
      BY <3>4, <3>5
  <2>5. QED
    BY <2>3, <2>4
<1>10. ASSUME NEW p \in Queries
       PROVE  CacheRight(p)' /\ FetchRight(p)'
  <2>1. CacheRight(p) /\ FetchRight(p)
    BY DEF IInv
  <2>2. CacheRight(p)'
    BY <1>4, <1>9, <2>1 DEF CacheRight, Stale, Followed
  <2>3. FetchRight(p)'
    BY <1>4, <2>1 DEF FetchRight
  <2>4. QED
    BY <2>2, <2>3
<1>11. QED
  BY <1>4, <1>5, <1>6, <1>7, <1>8, <1>10 DEF IInv

-----------------------------------------------------------------------------
(* Theorems *)

LEMMA InitKeeps ==
    ASSUME InboxInit
    PROVE  IInv
<1>1. /\ status \in UNION {[1..n -> {"UNREAD"}] : n \in 0..MaxNotifications}
      /\ request = [h \in Handlers |-> NoRequest] /\ cache = [q \in Queries |-> NoData] /\ shown = Bell
      /\ mutation = [h \in Handlers |-> NoMutation] /\ foreign = 0 /\ overlaps = 0
      /\ fetch = [q \in Queries |-> IF q = Bell THEN Begin(q) ELSE NotFetching]
  BY DEF InboxInit, ServerInit
<1>2. ServerOK
  <2>1. status \in Statuses
    BY <1>1 DEF Statuses, NotificationStatus
  <2>2. QED
    BY <1>1, <2>1 DEF ServerOK, RequestOK
<1>3. Pending = {}
  BY <1>1 DEF Pending
<1>4. ASSUME NEW q \in Queries
      PROVE  /\ Begin(q) \in Fetches /\ ListOK(Begin(q).answer) /\ Begin(q).answer = ListForRecipient(q)
             /\ Begin(q).since = 0 /\ Begin(q).calm = 0
  <2>1. ListOK(ListForRecipient(q)) /\ ListForRecipient(q) \in Lists
    BY <1>2, ListType DEF ListOK
  <2>2. Begin(q) = [answer |-> ListForRecipient(q), since |-> 0, calm |-> 0]
    BY <1>1, <1>3 DEF Begin
  <2> HIDE DEF ListForRecipient, Lists
  <2>3. QED
    BY <2>1, <2>2 DEF Fetches
<1>5. ListsOK
  <2>1. /\ fetch \in [Queries -> Fetches \cup {NotFetching}]
        /\ \A q \in Queries : fetch[q] # NotFetching => fetch[q] = Begin(q)
    BY <1>1, <1>4
  <2>2. QED
    BY <1>1, <1>4, <2>1 DEF ListsOK, Queries, InFlight
<1>6. ChangesOK
  BY <1>1, <1>3 DEF ChangesOK
<1>7. ASSUME NEW q \in Queries
      PROVE  CacheRight(q) /\ FetchRight(q)
  BY <1>1, <1>3, <1>4 DEF CacheRight, FetchRight, Followed, Stale
<1>8. QED
  BY <1>2, <1>3, <1>5, <1>6, <1>7 DEF IInv

LEMMA StepKeeps ==
    ASSUME IInv, [InboxNext]_inboxVars
    PROVE  IInv'
<1>1. ASSUME NEW q \in Queries, Show(q) \/ FetchAnswered(q) \/ FetchFails(q) \/ Refetch(q)
      PROVE  IInv'
  BY <1>1, ShowKeeps, FetchAnsweredKeeps, FetchFailsKeeps
<1>2. ASSUME NEW h \in Handlers, NEW kind \in Kinds, NEW n \in 0..MaxNotifications,
             Click(h, kind, n) \/ OtherDevice(h, kind, n)
      PROVE  IInv'
  BY <1>2, ClickKeeps, OtherDeviceKeeps
<1>3. ASSUME NEW h \in Handlers,
             \/ Answered(h) \/ RequestLost(h) \/ AnswerLost(h) \/ AnswerDropped(h) \/ Write(h)
             \/ Check(h) /\ UNCHANGED pageVars
      PROVE  IInv'
  BY <1>3, AnsweredKeeps, AnswerLostKeeps, AnswerDroppedKeeps, WriteKeeps, CheckKeeps
<1>4. CASE Notify
  BY <1>4, NotifyKeeps
<1>5. CASE UNCHANGED inboxVars
  <2>1. Bell \in Queries /\ UNCHANGED <<serverVars, cache, fetch, shown, mutation, foreign, overlaps>>
    BY <1>5 DEF inboxVars, pageVars, Queries
  <2>2. /\ shown' \in Queries /\ mutation' \in [Handlers -> Mutations \cup {NoMutation}] /\ Pending' = Pending
        /\ \A h \in Pending : mutation'[h].snapshot = mutation[h].snapshot
    BY <2>1 DEF IInv, ListsOK, ChangesOK, Pending
  <2>3. QED
    BY <2>1, <2>2, OnlyFetches
<1>6. QED
  BY <1>1, <1>2, <1>3, <1>4, <1>5 DEF InboxNext

\* In every reachable state the lists are typed, the requests are what the server
\* knows, and each list is right as long as it is followed.
THEOREM InboxInvariant == InboxSpec => []IInv
<1>1. InboxInit => IInv
  BY InitKeeps
<1>2. IInv /\ [InboxNext]_inboxVars => IInv'
  BY StepKeeps
<1>3. QED
  BY <1>1, <1>2, PTL DEF InboxSpec

\* Ahead of the answer, after it, and after a failure, page and bell show what the
\* server would answer; once all is settled, every list that counts as fresh does
\* (updateNotificationQueries, restoreNotificationQueries, onSettled).
THEOREM ListsCorrect == InboxSpec => []ListsAreRight
<1>1. ASSUME IInv
      PROVE  InboxTypeOK
  <2>1. \A h \in Handlers : request[h] = NoRequest \/ (request[h].kind \in Kinds /\ request[h].step \in Steps)
    BY <1>1 DEF IInv, ServerOK, RequestOK, Requests
  <2>2. ASSUME NEW q \in Queries, cache[q] # NoData
        PROVE  /\ DOMAIN cache[q].show.items \subseteq Created
               /\ cache[q].show.total \in Nat /\ cache[q].show.unreadCount \in Nat
    BY <1>1, <2>2 DEF IInv, ListsOK, EntryOK, ListOK, Lists
  <2>3. shown \in Queries /\ \A n \in Created : status[n] \in NotificationStatus
    BY <1>1, CreatedFinite DEF IInv, ListsOK
  <2>4. QED
    BY <2>1, <2>2, <2>3 DEF InboxTypeOK
<1>2. ASSUME IInv
      PROVE  AheadOfAnswerIsRight
  <2>1. SUFFICES ASSUME NEW q \in Queries, Followed(cache[q]),
                        \A h \in Pending : request[h].step = "done" /\ Covers(q, h)
                 PROVE  cache[q].show = ListForRecipient(q)
    BY DEF AheadOfAnswerIsRight, Followed
  <2>2. CASE Pending = {}
    BY <1>2, <2>1, <2>2 DEF IInv, CacheRight
  <2>3. CASE Pending # {}
    <3>1. PICK h \in Pending : TRUE
      BY <2>3
    <3>2. AheadRight(h, q)
      BY <1>2, <2>1 DEF IInv, CacheRight
    <3>3. QED
      BY <2>1, <3>2 DEF AheadRight
  <2>4. QED
    BY <2>2, <2>3
<1>3. ASSUME IInv
      PROVE  SettledListIsCurrent
  BY <1>3 DEF IInv, CacheRight, SettledListIsCurrent
<1>4. IInv => ListsAreRight
  BY <1>1, <1>2, <1>3 DEF ListsAreRight
<1>5. QED
  BY <1>4, InboxInvariant, PTL

\* A dismissed notification stays dismissed, except for a request to mark it read
\* that had found it unread (markRead, dismiss, markAllRead).
THEOREM DismissalStays == InboxSpec => DismissalSticks
<1>1. ASSUME IInv, InboxNext
      PROVE  \A n \in Created :
               /\ status[n] = "DISMISSED"
               /\ ~\E h \in Handlers : RequestAt(h, {"read"}, "checked") /\ request[h].id = n /\ request[h].seen = "UNREAD"
               => status'[n] = "DISMISSED"
  <2>1. CASE UNCHANGED status
    BY <2>1
  <2>2. ASSUME NEW h \in Handlers, Update(h)
        PROVE  \A n \in Created :
               /\ status[n] = "DISMISSED"
               /\ ~\E g \in Handlers : RequestAt(g, {"read"}, "checked") /\ request[g].id = n /\ request[g].seen = "UNREAD"
               => status'[n] = "DISMISSED"
    <3>1. SUFFICES ASSUME NEW n \in Created, status[n] = "DISMISSED",
                          ~(RequestAt(h, {"read"}, "checked") /\ request[h].id = n /\ request[h].seen = "UNREAD")
                   PROVE  status'[n] = "DISMISSED"
      OBVIOUS
    <3>2. status' = [status EXCEPT ![request[h].id] = IF request[h].kind = "dismiss" THEN "DISMISSED" ELSE "READ"]
          /\ RequestAt(h, {"read", "dismiss"}, "checked")
      BY <2>2 DEF Update
    <3>3. request[h].id = n => request[h].kind = "dismiss"
      BY <1>1, <3>1, <3>2 DEF IInv, ServerOK, RequestOK, RequestAt
    <3>4. status'[n] = IF n = request[h].id THEN (IF request[h].kind = "dismiss" THEN "DISMISSED" ELSE "READ")
                       ELSE status[n]
      BY <3>2, <1>1, CreatedFinite DEF Created, IInv
    <3>5. QED
      BY <3>1, <3>3, <3>4
  <2>3. ASSUME NEW h \in Handlers, MarkAllRead(h)
        PROVE  \A n \in Created : status[n] = "DISMISSED" => status'[n] = "DISMISSED"
    BY <2>3 DEF MarkAllRead
  <2>4. ASSUME Notify
        PROVE  \A n \in Created : status[n] = "DISMISSED" => status'[n] = "DISMISSED"
    <3>1. Created = 1..Cardinality(Created) /\ Cardinality(Created) \in Nat
      BY <1>1, CreatedFinite DEF IInv
    <3>2. status' = [n \in 1..(Cardinality(Created) + 1) |-> IF n \in Created THEN status[n] ELSE "UNREAD"]
      BY <2>4 DEF Notify, Create
    <3>3. \A n \in Created : n \in 1..(Cardinality(Created) + 1)
      BY <3>1
    <3>4. QED
      BY <3>2, <3>3
  <2>5. \/ UNCHANGED status
        \/ \E h \in Handlers : Update(h) \/ MarkAllRead(h)
        \/ Notify
    BY <1>1 DEF InboxNext, Show, FetchAnswered, FetchFails, Refetch, Click, OtherDevice, Answered, RequestLost,
                AnswerLost, AnswerDropped, Write, Writes, Check, Receive, Release, serverVars
  <2>6. QED
    BY <2>1, <2>2, <2>3, <2>4, <2>5
<1>2. ASSUME IInv, [InboxNext]_inboxVars
      PROVE  [\A n \in Created :
               /\ status[n] = "DISMISSED"
               /\ ~\E h \in Handlers : RequestAt(h, {"read"}, "checked") /\ request[h].id = n /\ request[h].seen = "UNREAD"
               => status'[n] = "DISMISSED"]_inboxVars
  BY <1>1, <1>2
<1>3. QED
  BY <1>2, InboxInvariant, PTL DEF InboxSpec, DismissalSticks

=============================================================================
