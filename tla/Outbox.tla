------------------------------- MODULE Outbox -------------------------------
(***************************************************************************)
(* The outbox of publish events: how an event gets its row, how workers    *)
(* claim rows under a lease, deliver them to the registered consumers and  *)
(* record the attempt.  Source: apps/api/src/integration, and the          *)
(* transaction of model-version.service.ts that records release events.    *)
(*                                                                         *)
(* Time is relative: wait and lease count the ticks left until a row is    *)
(* due or its lease lapses.  A tick is longer than the 5 seconds Prisma    *)
(* gives the claiming transaction, so no tick falls inside it.             *)
(***************************************************************************)
EXTENDS Naturals, FiniteSets

CONSTANTS
    Events,              \* events, one per committed change
    ReleaseEvents,       \* those recorded in the transaction of the change
    Consumers,           \* downstream consumers that may be registered
    Workers,             \* calls of processDueEvents running at a time
    MaxAttempts,         \* publish_event.max_attempts
    BatchSize,           \* events one call claims
    LeaseDuration,       \* ticks a claim lasts
    BaseRetryDelay,      \* ticks before the second attempt
    MaxRetryDelay,       \* cap of the backoff, in ticks
    MaxFaults,           \* bound: crashes and database errors of a run
    NoWorker             \* lease_owner of a row nobody has claimed

ASSUME EventsAssumption == ReleaseEvents \subseteq Events
ASSUME WorkersAssumption == NoWorker \notin Workers
ASSUME NumbersAssumption ==
    /\ MaxAttempts \in Nat \ {0} /\ BatchSize \in Nat \ {0} /\ LeaseDuration \in Nat \ {0}
    /\ BaseRetryDelay \in Nat /\ MaxRetryDelay \in Nat /\ MaxFaults \in Nat

VARIABLES
    committed,       \* events whose change has committed
    emitted,         \* those on the in-process bus, their insert under way
    deliveryStatus,  \* publish_event.delivery_status; "NONE": no row
    attemptCount,    \* publish_event.attempt_count
    wait,            \* ticks until next_attempt_at
    leaseOwner,      \* publish_event.lease_owner
    lease,           \* ticks until lease_expires_at
    health,          \* health_status of each consumer, "ABSENT" if unregistered
    received,        \* <<event, consumer>>: what has reached a consumer
    steady,          \* consumers registered ever since the event was recorded
    worker,          \* the running calls of processDueEvents
    faults           \* faults so far

events == <<deliveryStatus, attemptCount, wait, leaseOwner, lease>>
vars == <<committed, emitted, events, health, received, steady, worker, faults>>

CLAIMABLE_STATUSES == {"PENDING", "RETRYING"}
Registered == {k \in Consumers : health[k] # "ABSENT"}

Idle == [at |-> "idle", batch |-> {}, event |-> {}, seen |-> [e \in Events |-> 0],
         todo |-> {}, unhealthy |-> {}, failed |-> FALSE, left |-> 0, elapsed |-> 0]

Init ==
    /\ committed = {}
    /\ emitted = {}
    /\ deliveryStatus = [e \in Events |-> "NONE"]
    /\ attemptCount = [e \in Events |-> 0]
    /\ wait = [e \in Events |-> 0]
    /\ leaseOwner = [e \in Events |-> NoWorker]
    /\ lease = [e \in Events |-> 0]
    /\ health \in [Consumers -> {"HEALTHY", "ABSENT"}]
    /\ received = {}
    /\ steady = [e \in Events |-> {}]
    /\ worker = [w \in Workers |-> Idle]
    /\ faults = 0

Fault == faults < MaxFaults /\ faults' = faults + 1

-----------------------------------------------------------------------------
(* From a committed change to a row of the outbox *)

CreateOutboxRecord(e) ==
    /\ deliveryStatus' = [deliveryStatus EXCEPT ![e] = "PENDING"]
    /\ steady' = [steady EXCEPT ![e] = Registered]

\* publishSnapshot and rollback: the row is part of the transaction.
CommitRelease(e) ==
    /\ e \in ReleaseEvents \ committed
    /\ committed' = committed \cup {e}
    /\ CreateOutboxRecord(e)
    /\ UNCHANGED <<emitted, attemptCount, wait, leaseOwner, lease, health, received, worker, faults>>

\* A structural operation commits and its event goes on the bus.
CommitCapabilityChange(e) ==
    /\ e \in Events \ (ReleaseEvents \cup committed)
    /\ committed' = committed \cup {e}
    /\ emitted' = emitted \cup {e}
    /\ UNCHANGED <<events, health, received, steady, worker, faults>>

RecordCapabilityEvent(e) ==
    /\ e \in emitted
    /\ emitted' = emitted \ {e}
    /\ CreateOutboxRecord(e)
    /\ UNCHANGED <<committed, attemptCount, wait, leaseOwner, lease, health, received, worker, faults>>

\* The insert fails, which safeRecord only logs, or the process ends.
LoseCapabilityEvent(e) ==
    /\ Fault
    /\ e \in emitted
    /\ emitted' = emitted \ {e}
    /\ UNCHANGED <<committed, events, health, received, steady, worker>>

-----------------------------------------------------------------------------
(* Claiming *)

\* Mutant: a lease never lapses.
DueEventUnlessLeased(e) ==
    deliveryStatus[e] \in CLAIMABLE_STATUSES /\ wait[e] = 0 /\ leaseOwner[e] = NoWorker

DueEvent(e) ==
    /\ deliveryStatus[e] \in CLAIMABLE_STATUSES
    /\ wait[e] = 0
    /\ lease[e] = 0

DueEvents == {e \in Events : DueEvent(e)}

\* The candidates, the first BatchSize of the due rows.
Poll(w) ==
    /\ worker[w] = Idle
    /\ \E S \in SUBSET DueEvents :
         /\ S # {}
         /\ S = DueEvents \/ Cardinality(S) = BatchSize
         /\ Cardinality(S) <= BatchSize
         /\ worker' = [worker EXCEPT ![w] = [Idle EXCEPT !.at = "claim", !.batch = S]]
    /\ UNCHANGED <<committed, emitted, events, health, received, steady, faults>>

\* Mutant: the claim is by id alone, without the conditions of the search.
ClaimableUnchecked(e) == TRUE

Claimable(e) == DueEvent(e)

\* The guarded updates of the candidates, and the commit.
ClaimDueEvents(w) ==
    /\ worker[w].at = "claim"
    /\ LET mine == {e \in worker[w].batch : Claimable(e)} IN
         /\ leaseOwner' = [e \in Events |-> IF e \in mine THEN w ELSE leaseOwner[e]]
         /\ lease' = [e \in Events |-> IF e \in mine THEN LeaseDuration ELSE lease[e]]
         /\ worker' = [worker EXCEPT ![w] =
              IF mine = {} THEN Idle
              ELSE [Idle EXCEPT
                      !.at = "next", !.batch = mine, !.left = LeaseDuration,
                      !.seen = [e \in Events |-> IF e \in mine THEN attemptCount[e] ELSE 0]]]
    /\ UNCHANGED <<committed, emitted, deliveryStatus, attemptCount, wait, health, received,
                   steady, faults>>

-----------------------------------------------------------------------------
(* Delivering to every registered consumer *)

At(w, step) == worker[w].at = step
Current(w) == CHOOSE e \in Events : worker[w].event = {e}

NextEvent(w) ==
    /\ At(w, "next")
    /\ \E e \in worker[w].batch :
         worker' = [worker EXCEPT ![w] =
            [worker[w] EXCEPT !.at = "deliver", !.batch = @ \ {e}, !.event = {e}, !.todo = Registered,
                      !.unhealthy = {k \in Consumers : health[k] = "UNHEALTHY"},
                      !.failed = FALSE, !.elapsed = 0]]
    /\ UNCHANGED <<committed, emitted, events, health, received, steady, faults>>

\* One consumer, as healthy or not as it was when the consumers were listed.
DeliverTo(w, k) ==
    /\ At(w, "deliver")
    /\ k \in worker[w].todo
    /\ received' = IF k \in worker[w].unhealthy THEN received
                   ELSE received \cup {<<Current(w), k>>}
    /\ worker' = [worker EXCEPT ![w].todo = @ \ {k}, ![w].unhealthy = @ \ {k},
                                ![w].failed = @ \/ k \in worker[w].unhealthy]
    /\ UNCHANGED <<committed, emitted, events, health, steady, faults>>

\* The audit entry of a delivery is not written: a failure is recorded
\* instead, and the loop goes on.
DeliveryRecordFails(w, k) ==
    /\ Fault
    /\ At(w, "deliver")
    /\ k \in worker[w].todo
    /\ received' = IF k \in worker[w].unhealthy THEN received
                   ELSE received \cup {<<Current(w), k>>}
    /\ worker' = [worker EXCEPT ![w].todo = @ \ {k}, ![w].unhealthy = @ \ {k},
                                ![w].failed = TRUE]
    /\ UNCHANGED <<committed, emitted, events, health, steady>>

\* The consumers cannot be listed, a failure cannot be recorded, or, all of
\* them served, markDelivered fails: one catch counts a failed attempt.
AttemptFails(w) ==
    /\ Fault
    /\ At(w, "deliver")
    /\ worker' = [worker EXCEPT ![w].todo = {}, ![w].unhealthy = {}, ![w].failed = TRUE]
    /\ UNCHANGED <<committed, emitted, events, health, received, steady>>

-----------------------------------------------------------------------------
(* Recording the attempt *)

MinOf(a, b) == IF a < b THEN a ELSE b

ComputeNextAttemptAt(n) == MinOf(BaseRetryDelay * 2 ^ (n - 1), MaxRetryDelay)

\* The worker goes on with its batch, or its call ends.
Proceed(w) ==
    worker' = [worker EXCEPT ![w] =
        IF worker[w].batch = {} THEN Idle
        ELSE [worker[w] EXCEPT !.at = "next", !.event = {}, !.seen = [@ EXCEPT ![Current(w)] = 0],
                       !.todo = {}, !.unhealthy = {}, !.failed = FALSE, !.elapsed = 0]]

\* Mutant: the update is by id alone.
OwnsUnchecked(w, e) == TRUE

Owns(w, e) == leaseOwner[e] = w /\ deliveryStatus[e] \in CLAIMABLE_STATUSES

Mark(e, newStatus, count, delay) ==
    /\ deliveryStatus' = [deliveryStatus EXCEPT ![e] = newStatus]
    /\ attemptCount' = [attemptCount EXCEPT ![e] = count]
    /\ wait' = [wait EXCEPT ![e] = delay]
    /\ leaseOwner' = [leaseOwner EXCEPT ![e] = NoWorker]
    /\ lease' = [lease EXCEPT ![e] = 0]

\* Mutant: deliver returns normally although a consumer has failed.
DeliveredAtAll(w) == At(w, "deliver") /\ worker[w].todo = {}

Delivered(w) == At(w, "deliver") /\ worker[w].todo = {} /\ ~worker[w].failed

MarkDelivered(w) ==
    /\ Delivered(w)
    /\ LET e == Current(w) IN
         \/ Owns(w, e) /\ Mark(e, "DELIVERED", worker[w].seen[e] + 1, 0)
         \/ ~Owns(w, e) /\ UNCHANGED events
    /\ Proceed(w)
    /\ UNCHANGED <<committed, emitted, health, received, steady, faults>>

ShouldRetry(n) == n < MaxAttempts

MarkAttemptFailure(w) ==
    /\ At(w, "deliver") /\ worker[w].todo = {} /\ worker[w].failed
    /\ LET e == Current(w)
           n == worker[w].seen[e] + 1
           backoff == ComputeNextAttemptAt(n)
           elapsed == worker[w].elapsed IN
         \/ /\ Owns(w, e)
            /\ IF ShouldRetry(n)
               THEN Mark(e, "RETRYING", n, IF elapsed < backoff THEN backoff - elapsed ELSE 0)
               ELSE Mark(e, "FAILED", n, 0)
         \/ ~Owns(w, e) /\ UNCHANGED events
    /\ Proceed(w)
    /\ UNCHANGED <<committed, emitted, health, received, steady, faults>>

\* The call ends, with its process or because a database call has failed that
\* nothing catches; its rows stay claimed until the lease lapses.
Crash(w) ==
    /\ Fault
    /\ worker[w] # Idle
    /\ worker' = [worker EXCEPT ![w] = Idle]
    /\ UNCHANGED <<committed, emitted, events, health, received, steady>>

-----------------------------------------------------------------------------
(* Time and the consumer registry *)

Less(n) == IF n > 0 THEN n - 1 ELSE 0

Tick ==
    /\ \A w \in Workers : ~At(w, "claim")
    /\ wait' = [e \in Events |-> Less(wait[e])]
    /\ lease' = [e \in Events |-> Less(lease[e])]
    /\ worker' = [w \in Workers |->
         [worker[w] EXCEPT !.left = Less(@),
              !.elapsed = IF At(w, "deliver") THEN MinOf(@ + 1, MaxRetryDelay) ELSE @]]
    /\ UNCHANGED <<committed, emitted, deliveryStatus, attemptCount, leaseOwner, health,
                   received, steady, faults>>

\* create, update and delete of a consumer
ChangeConsumer(k) ==
    /\ \E h \in {"HEALTHY", "UNHEALTHY", "ABSENT"} \ {health[k]} :
         /\ health' = [health EXCEPT ![k] = h]
         /\ steady' = [e \in Events |-> IF h = "ABSENT" THEN steady[e] \ {k} ELSE steady[e]]
    /\ UNCHANGED <<committed, emitted, events, received, worker, faults>>

Step(w) ==
    \/ ClaimDueEvents(w)
    \/ NextEvent(w)
    \/ \E k \in Consumers : DeliverTo(w, k)
    \/ MarkDelivered(w)
    \/ MarkAttemptFailure(w)

Next ==
    \/ \E e \in Events :
          \/ CommitRelease(e)
          \/ CommitCapabilityChange(e)
          \/ RecordCapabilityEvent(e)
          \/ LoseCapabilityEvent(e)
    \/ \E w \in Workers :
          \/ Poll(w)
          \/ Step(w)
          \/ \E k \in Consumers : DeliveryRecordFails(w, k)
          \/ AttemptFails(w)
          \/ Crash(w)
    \/ \E k \in Consumers : ChangeConsumer(k)
    \/ Tick

Spec == Init /\ [][Next]_vars

\* A call that has begun goes on, a listener too, and time passes.  Nothing in
\* the code begins a call: no fairness of Poll is assumed.
Fairness ==
    /\ \A w \in Workers : WF_vars(Step(w))
    /\ \A e \in Events : WF_vars(RecordCapabilityEvent(e))
    /\ WF_vars(Tick)

FairSpec == Spec /\ Fairness

-----------------------------------------------------------------------------
(* Properties *)

TypeOK ==
    /\ emitted \subseteq committed /\ committed \subseteq Events
    /\ deliveryStatus \in [Events -> CLAIMABLE_STATUSES \cup {"NONE", "DELIVERED", "FAILED"}]
    /\ attemptCount \in [Events -> 0 .. MaxAttempts]
    /\ DOMAIN wait = Events
    /\ leaseOwner \in [Events -> Workers \cup {NoWorker}]
    /\ lease \in [Events -> Nat]
    /\ health \in [Consumers -> {"HEALTHY", "UNHEALTHY", "ABSENT"}]
    /\ received \subseteq Events \X Consumers
    /\ steady \in [Events -> SUBSET Consumers]
    /\ worker \in [Workers ->
         [at : {"idle", "claim", "next", "deliver"}, batch : SUBSET Events,
          event : SUBSET Events, seen : [Events -> 0 .. MaxAttempts], todo : SUBSET Consumers,
          unhealthy : SUBSET Consumers, failed : BOOLEAN, left : Nat, elapsed : Nat]]
    /\ faults \in 0 .. MaxFaults

Claimed(w) == IF At(w, "claim") THEN {} ELSE worker[w].batch \cup worker[w].event

\* While the lease a worker was given lasts, the events it still has to
\* process stay its own and unsettled: no two workers with a valid lease ever
\* deliver the same event.  (claimDueEvents, markDelivered.)
LeaseProtects ==
    \A w \in Workers : worker[w].left > 0 => \A e \in Claimed(w) : Owns(w, e)

\* What is stored of events and their leases, and who may work on them.
LeasesAreRight == TypeOK /\ LeaseProtects

\* An event marked delivered has reached every consumer that has been
\* registered since it was recorded, although consumers come, go and fall ill
\* while it is delivered and several workers may have had it.
\* (deliver, processDueEvents.)
DeliveredToAll ==
    \A e \in Events : deliveryStatus[e] = "DELIVERED" =>
        \A k \in steady[e] : <<e, k>> \in received

\* Whatever claims are lost and events delivered again, every update of a row
\* is the next attempt of its event: no attempt is counted twice, no settled
\* event revived, no record of another worker overwritten, and an event is
\* given up exactly at its last attempt.  (markDelivered, markAttemptFailure.)
Promise == INSTANCE OutboxDelivery WITH
    state <- [e \in Events |->
        CASE deliveryStatus[e] = "NONE" -> "none"
          [] deliveryStatus[e] \in CLAIMABLE_STATUSES -> "waiting"
          [] deliveryStatus[e] = "DELIVERED" -> "delivered"
          [] deliveryStatus[e] = "FAILED" -> "failed"],
    attempts <- attemptCount

ImplementsDelivery == Promise!Spec

\* As long as due events keep being polled, every recorded event is settled,
\* whatever was claimed by calls that crashed, and whichever consumers fail.
\* (buildDueEventWhere, which lets a lapsed lease be taken over.)
KeepsPolling ==
    []<>(DueEvents = {}) \/ []<><<\E w \in Workers : Poll(w)>>_vars

EventuallySettled ==
    KeepsPolling =>
        \A e \in Events :
            deliveryStatus[e] = "PENDING" ~> deliveryStatus[e] \in {"DELIVERED", "FAILED"}

-----------------------------------------------------------------------------
(* What the documents say, and the code does not ensure *)

\* "a row is written ... within the same database transaction as the domain
\* change": no committed change lacks its row once its listener is done.
\* (ARCHITECTURE.md 8.2; safeRecord.)
NoEventLost ==
    \A e \in committed \ emitted : deliveryStatus[e] # "NONE"
=============================================================================
