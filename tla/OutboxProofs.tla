---------------------------- MODULE OutboxProofs ----------------------------
(***************************************************************************)
(* Theorems about Outbox, for any numbers of events, consumers, workers,   *)
(* attempts and ticks: the leases protect what is being delivered, and the *)
(* outbox implements OutboxDelivery.                                       *)
(*                                                                         *)
(* Why a lease protects: a worker's own clock (left) never runs behind the *)
(* row's (lease), and a row with time left is not due for anybody else.    *)
(* Why no attempt is counted twice: as long as a worker owns an event that *)
(* it has claimed, the count it has seen is the count of the row.          *)
(***************************************************************************)
EXTENDS Outbox, TLAPS

Call ==
    [at : {"idle", "claim", "next", "deliver"}, batch : SUBSET Events,
     event : SUBSET Events, seen : [Events -> 0 .. MaxAttempts], todo : SUBSET Consumers,
     unhealthy : SUBSET Consumers, failed : BOOLEAN, left : Nat, elapsed : Nat]

\* A row is untouched until it is recorded, and claimable while attempts are left.
RowOK(e) ==
    /\ (e \in emitted \/ e \notin committed) => deliveryStatus[e] = "NONE"
    /\ deliveryStatus[e] = "NONE" => attemptCount[e] = 0 /\ leaseOwner[e] = NoWorker
    /\ deliveryStatus[e] \in CLAIMABLE_STATUSES => attemptCount[e] < MaxAttempts

\* What a call has in hand.
HandsOK(w) ==
    /\ worker[w].at = "idle" => worker[w].batch = {}
    /\ worker[w].at \in {"idle", "claim"} => worker[w].left = 0
    /\ worker[w].at # "deliver" => worker[w].event = {}
    /\ worker[w].at = "deliver" => \E e \in Events : worker[w].event = {e} /\ e \notin worker[w].batch

\* What it knows of the rows it has claimed.
ClaimOK(w) ==
    \A e \in Claimed(w) :
        /\ Owns(w, e) => worker[w].seen[e] = attemptCount[e]
        /\ worker[w].left > 0 => Owns(w, e) /\ worker[w].left <= lease[e]

IInv ==
    /\ TypeOK
    /\ \A e \in Events : RowOK(e)
    /\ \A w \in Workers : HandsOK(w) /\ ClaimOK(w)

-----------------------------------------------------------------------------
(* Helpers *)

LEMMA IdleIsCall == Idle \in Call
  BY NumbersAssumption DEF Idle, Call

\* The types of the calls, by their name.
LEMMA CallTypes == TypeOK => worker \in [Workers -> Call]
  BY DEF TypeOK, Call

\* The event in hand.
LEMMA CurrentInHand ==
    ASSUME NEW w \in Workers, HandsOK(w), At(w, "deliver")
    PROVE  /\ Current(w) \in Events /\ worker[w].event = {Current(w)}
           /\ Current(w) \notin worker[w].batch
<1>1. PICK e \in Events : worker[w].event = {e} /\ e \notin worker[w].batch
  BY DEF HandsOK, At
<1>2. Current(w) = e
  BY <1>1 DEF Current
<1>3. QED
  BY <1>1, <1>2

\* While it lasts, the events of a lease are owned: what the invariant is for.
LEMMA Protected == IInv => LeaseProtects
  BY DEF IInv, ClaimOK, LeaseProtects

LEMMA InitOK == Init => IInv
<1> SUFFICES ASSUME Init PROVE IInv
  OBVIOUS
<1> USE DEF Init
<1>1. TypeOK
  BY NumbersAssumption, IdleIsCall DEF TypeOK, Call, CLAIMABLE_STATUSES
<1>2. \A e \in Events : RowOK(e)
  BY DEF RowOK, CLAIMABLE_STATUSES
<1>3. \A w \in Workers : HandsOK(w) /\ ClaimOK(w)
  BY DEF HandsOK, ClaimOK, Claimed, At, Idle
<1>4. QED
  BY <1>1, <1>2, <1>3 DEF IInv

-----------------------------------------------------------------------------
(* Steps that leave the rows alone *)

\* A call that is not touched, over rows that are not touched, stays in order.
LEMMA OtherCalls ==
    ASSUME NEW w \in Workers, HandsOK(w), ClaimOK(w), worker'[w] = worker[w], UNCHANGED events
    PROVE  HandsOK(w)' /\ ClaimOK(w)'
  BY DEF HandsOK, ClaimOK, Claimed, At, Owns, events

\* A call that ends has nothing in hand.
LEMMA IdleOK ==
    ASSUME NEW w \in Workers, worker'[w] = Idle
    PROVE  HandsOK(w)' /\ ClaimOK(w)'
  BY DEF HandsOK, ClaimOK, Claimed, At, Idle

LEMMA ChangeKeeps ==
    ASSUME IInv, NEW e \in Events,
           CommitRelease(e) \/ CommitCapabilityChange(e) \/ RecordCapabilityEvent(e) \/ LoseCapabilityEvent(e)
    PROVE  IInv'
<1>0. /\ TypeOK /\ \A x \in Events : RowOK(x) 
      /\ \A w \in Workers : HandsOK(w) /\ ClaimOK(w)
  BY DEF IInv
<1>1. TypeOK'
  BY <1>0, NumbersAssumption, EventsAssumption
     DEF TypeOK, CommitRelease, CommitCapabilityChange, RecordCapabilityEvent, LoseCapabilityEvent,
         CreateOutboxRecord, Fault, Registered, events, CLAIMABLE_STATUSES
<1>2. \A x \in Events : RowOK(x)'
  BY <1>0, NumbersAssumption
     DEF TypeOK, RowOK, CommitRelease, CommitCapabilityChange, RecordCapabilityEvent,
         LoseCapabilityEvent, CreateOutboxRecord, events, CLAIMABLE_STATUSES
<1>3. ASSUME NEW w \in Workers PROVE HandsOK(w)' /\ ClaimOK(w)'
  <2>1. HandsOK(w)'
    BY <1>0 DEF HandsOK, CommitRelease, CommitCapabilityChange, RecordCapabilityEvent, LoseCapabilityEvent
  <2>2. CASE UNCHANGED <<deliveryStatus, attemptCount, leaseOwner, lease, worker>>
    BY <1>0, <2>1, <2>2 DEF ClaimOK, Claimed, At, Owns
  <2>3. CASE CreateOutboxRecord(e) /\ UNCHANGED <<attemptCount, leaseOwner, lease, worker>> /\ deliveryStatus[e] = "NONE"
    BY <1>0, <2>1, <2>3, WorkersAssumption
       DEF ClaimOK, Claimed, At, Owns, CreateOutboxRecord, TypeOK, RowOK, CLAIMABLE_STATUSES
  <2>4. \/ UNCHANGED <<deliveryStatus, attemptCount, leaseOwner, lease, worker>>
        \/ CreateOutboxRecord(e) /\ UNCHANGED <<attemptCount, leaseOwner, lease, worker>> /\ deliveryStatus[e] = "NONE"
    BY <1>0 DEF CommitRelease, CommitCapabilityChange, RecordCapabilityEvent, LoseCapabilityEvent, events, RowOK
  <2>5. QED
    BY <2>1, <2>2, <2>3, <2>4
<1>4. QED
  BY <1>1, <1>2, <1>3 DEF IInv

\* A step of one call over rows that stay as they are.
LEMMA CallStep ==
    ASSUME IInv, NEW w \in Workers, NEW call \in Call,
           worker' = [worker EXCEPT ![w] = call],
           UNCHANGED <<committed, emitted, events, health, steady>>,
           received' \subseteq Events \X Consumers, faults' \in 0 .. MaxFaults,
           HandsOK(w)', ClaimOK(w)'
    PROVE  IInv'
<1>0. /\ TypeOK /\ \A x \in Events : RowOK(x)
      /\ \A x \in Workers : HandsOK(x) /\ ClaimOK(x)
  BY DEF IInv
<1>1. worker' \in [Workers -> Call]
  BY <1>0, CallTypes
<1>2. TypeOK'
  BY <1>0, <1>1 DEF TypeOK, Call, events
<1>3. \A x \in Events : RowOK(x)'
  BY <1>0 DEF RowOK, events
<1>4. ASSUME NEW x \in Workers PROVE HandsOK(x)' /\ ClaimOK(x)'
  <2>1. CASE x = w
    BY <2>1
  <2>2. CASE x # w
    <3>1. worker'[x] = worker[x]
      BY <1>0, <2>2, CallTypes
    <3>2. QED
      BY <1>0, <3>1, OtherCalls
  <2>3. QED
    BY <2>1, <2>2
<1>5. QED
  BY <1>2, <1>3, <1>4 DEF IInv

LEMMA PollKeeps ==
    ASSUME IInv, NEW w \in Workers, Poll(w)
    PROVE  IInv'
<1>1. PICK S \in SUBSET DueEvents : worker' = [worker EXCEPT ![w] = [Idle EXCEPT !.at = "claim", !.batch = S]]
  BY DEF Poll
<1>2. S \in SUBSET Events
  BY DEF DueEvents
<1>3. [Idle EXCEPT !.at = "claim", !.batch = S] \in Call
  BY <1>2, IdleIsCall DEF Call
<1>4. worker'[w] = [Idle EXCEPT !.at = "claim", !.batch = S]
  BY <1>1, CallTypes DEF IInv
<1>5. HandsOK(w)' /\ ClaimOK(w)'
  BY <1>4 DEF HandsOK, ClaimOK, Claimed, At, Idle
<1>6. received' \subseteq Events \X Consumers /\ faults' \in 0 .. MaxFaults
  BY DEF Poll, IInv, TypeOK
<1>7. UNCHANGED <<committed, emitted, events, health, steady>>
  BY DEF Poll
<1>8. QED
  BY <1>1, <1>3, <1>5, <1>6, <1>7, CallStep

LEMMA NextEventKeeps ==
    ASSUME IInv, NEW w \in Workers, NextEvent(w)
    PROVE  IInv'
<1>1. worker \in [Workers -> Call] /\ worker[w].at = "next" /\ HandsOK(w) /\ ClaimOK(w)
  BY CallTypes DEF IInv, NextEvent, At
<1>2. PICK e \in worker[w].batch :
        worker' = [worker EXCEPT ![w] =
            [worker[w] EXCEPT !.at = "deliver", !.batch = @ \ {e}, !.event = {e}, !.todo = Registered,
                      !.unhealthy = {k \in Consumers : health[k] = "UNHEALTHY"},
                      !.failed = FALSE, !.elapsed = 0]]
  BY DEF NextEvent
<1> DEFINE call == [worker[w] EXCEPT !.at = "deliver", !.batch = @ \ {e}, !.event = {e}, !.todo = Registered,
                      !.unhealthy = {k \in Consumers : health[k] = "UNHEALTHY"},
                      !.failed = FALSE, !.elapsed = 0]
<1>3. worker' = [worker EXCEPT ![w] = call]
  BY <1>2
<1>4. call \in Call
  BY <1>1, <1>2 DEF Call, Registered
<1>5. /\ call.at = "deliver" /\ call.event = {e} /\ call.batch = worker[w].batch \ {e}
      /\ call.seen = worker[w].seen /\ call.left = worker[w].left
  BY <1>1 DEF Call
<1>6. worker'[w] = call
  BY <1>1, <1>3
<1>7. UNCHANGED <<committed, emitted, events, health, steady>>
  BY DEF NextEvent
<1>8. HandsOK(w)'
  BY <1>1, <1>2, <1>5, <1>6 DEF HandsOK, Call
<1>9. ClaimOK(w)'
  <2>1. Claimed(w)' \subseteq Claimed(w)
    BY <1>1, <1>2, <1>5, <1>6 DEF Claimed, At
  <2>2. QED
    BY <1>1, <1>5, <1>6, <1>7, <2>1 DEF ClaimOK, Owns, events
<1>10. received' \subseteq Events \X Consumers /\ faults' \in 0 .. MaxFaults
  BY DEF NextEvent, IInv, TypeOK
<1> HIDE DEF call
<1>11. QED
  BY <1>3, <1>4, <1>7, <1>8, <1>9, <1>10, CallStep

\* The three steps of a delivery change what is left to do, and whether it failed.
LEMMA DeliverKeeps ==
    ASSUME IInv, NEW w \in Workers,
           (\E k \in Consumers : DeliverTo(w, k) \/ DeliveryRecordFails(w, k)) \/ AttemptFails(w)
    PROVE  IInv'
<1>1. /\ worker \in [Workers -> Call] /\ worker[w].at = "deliver" /\ HandsOK(w) /\ ClaimOK(w)
      /\ TypeOK
  BY CallTypes DEF IInv, DeliverTo, DeliveryRecordFails, AttemptFails, At
<1>2. \E todo \in SUBSET Consumers, unhealthy \in SUBSET Consumers, failed \in BOOLEAN :
        worker' = [worker EXCEPT ![w].todo = todo, ![w].unhealthy = unhealthy, ![w].failed = failed]
  <2>1. CASE AttemptFails(w)
    BY <2>1 DEF AttemptFails
  <2>2. ASSUME NEW k \in Consumers, DeliverTo(w, k) \/ DeliveryRecordFails(w, k)
        PROVE  \E todo \in SUBSET Consumers, unhealthy \in SUBSET Consumers, failed \in BOOLEAN :
          worker' = [worker EXCEPT ![w].todo = todo, ![w].unhealthy = unhealthy, ![w].failed = failed]
    <3>1. worker[w].todo \in SUBSET Consumers /\ worker[w].unhealthy \in SUBSET Consumers /\ worker[w].failed \in BOOLEAN
      BY <1>1 DEF Call
    <3>2. CASE DeliverTo(w, k)
      <4>1. worker' = [worker EXCEPT ![w].todo = worker[w].todo \ {k}, ![w].unhealthy = worker[w].unhealthy \ {k},
                                     ![w].failed = worker[w].failed \/ k \in worker[w].unhealthy]
        BY <1>1, <3>2 DEF DeliverTo, Call
      <4>2. QED
        BY <3>1, <4>1
    <3>3. CASE DeliveryRecordFails(w, k)
      <4>1. worker' = [worker EXCEPT ![w].todo = worker[w].todo \ {k}, ![w].unhealthy = worker[w].unhealthy \ {k},
                                     ![w].failed = TRUE]
        BY <1>1, <3>3 DEF DeliveryRecordFails, Call
      <4>2. QED
        BY <3>1, <4>1
    <3>4. QED
      BY <2>2, <3>2, <3>3
  <2>3. QED
    BY <2>1, <2>2
<1>3. PICK todo \in SUBSET Consumers, unhealthy \in SUBSET Consumers, failed \in BOOLEAN :
        worker' = [worker EXCEPT ![w].todo = todo, ![w].unhealthy = unhealthy, ![w].failed = failed]
  BY <1>2
<1> DEFINE call == [worker[w] EXCEPT !.todo = todo, !.unhealthy = unhealthy, !.failed = failed]
<1>4. worker' = [worker EXCEPT ![w] = call]
  BY <1>1, <1>3
<1>5. call \in Call
  BY <1>1 DEF Call
<1>6. /\ call.at = worker[w].at /\ call.event = worker[w].event /\ call.batch = worker[w].batch
      /\ call.seen = worker[w].seen /\ call.left = worker[w].left
  BY <1>1 DEF Call
<1>7. worker'[w] = call
  BY <1>1, <1>4
<1>8. UNCHANGED <<committed, emitted, events, health, steady>>
  BY DEF DeliverTo, DeliveryRecordFails, AttemptFails
<1>9. HandsOK(w)' /\ ClaimOK(w)'
  BY <1>1, <1>6, <1>7, <1>8 DEF HandsOK, ClaimOK, Claimed, At, Owns, events
<1>10. received' \subseteq Events \X Consumers
  <2>1. Current(w) \in Events
    BY <1>1, CurrentInHand DEF At
  <2>2. received \subseteq Events \X Consumers
    BY <1>1 DEF TypeOK
  <2>3. ASSUME NEW k \in Consumers, DeliverTo(w, k) \/ DeliveryRecordFails(w, k)
        PROVE  received' \subseteq Events \X Consumers
    <3>1. received' \subseteq received \cup {<<Current(w), k>>}
      BY <2>3 DEF DeliverTo, DeliveryRecordFails
    <3>2. QED
      BY <2>1, <2>2, <3>1
  <2>4. CASE AttemptFails(w)
    BY <2>2, <2>4 DEF AttemptFails
  <2>5. QED
    BY <2>3, <2>4
<1>11. faults' \in 0 .. MaxFaults
  <2>1. (faults' = faults) \/ (faults < MaxFaults /\ faults' = faults + 1)
    BY DEF DeliverTo, DeliveryRecordFails, AttemptFails, Fault
  <2>2. faults \in 0 .. MaxFaults
    BY <1>1 DEF TypeOK
  <2>3. QED
    BY <2>1, <2>2, NumbersAssumption
<1> HIDE DEF call
<1>12. QED
  BY <1>4, <1>5, <1>8, <1>9, <1>10, <1>11, CallStep

LEMMA CrashKeeps ==
    ASSUME IInv, NEW w \in Workers, Crash(w)
    PROVE  IInv'
<1>1. worker' = [worker EXCEPT ![w] = Idle] /\ worker'[w] = Idle
  BY CallTypes DEF Crash, IInv
<1>2. HandsOK(w)' /\ ClaimOK(w)'
  BY <1>1, IdleOK
<1>3. received' \subseteq Events \X Consumers /\ faults' \in 0 .. MaxFaults
  BY NumbersAssumption DEF Crash, Fault, IInv, TypeOK
<1>4. UNCHANGED <<committed, emitted, events, health, steady>>
  BY DEF Crash
<1>5. QED
  BY <1>1, <1>2, <1>3, <1>4, IdleIsCall, CallStep

-----------------------------------------------------------------------------
(* Steps that change rows *)

\* The claim: another worker's lease on a row that is due has run out, so all
\* it may lose is a row it no longer counts on.
LEMMA ClaimKeeps ==
    ASSUME IInv, NEW w \in Workers, ClaimDueEvents(w)
    PROVE  IInv'
<1>0. /\ TypeOK /\ \A x \in Events : RowOK(x)
      /\ \A x \in Workers : HandsOK(x) /\ ClaimOK(x)
      /\ worker \in [Workers -> Call] /\ worker[w].at = "claim"
  BY CallTypes DEF IInv, ClaimDueEvents
<1> DEFINE mine == {e \in worker[w].batch : Claimable(e)}
           seen == [e \in Events |-> IF e \in mine THEN attemptCount[e] ELSE 0]
           call == IF mine = {} THEN Idle
                   ELSE [Idle EXCEPT !.at = "next", !.batch = mine, !.left = LeaseDuration, !.seen = seen]
<1>1. /\ leaseOwner' = [e \in Events |-> IF e \in mine THEN w ELSE leaseOwner[e]]
      /\ lease' = [e \in Events |-> IF e \in mine THEN LeaseDuration ELSE lease[e]]
      /\ worker' = [worker EXCEPT ![w] = call]
      /\ UNCHANGED <<committed, emitted, deliveryStatus, attemptCount, wait, health, received, steady, faults>>
  BY DEF ClaimDueEvents
<1>2. /\ mine \subseteq Events
      /\ \A e \in mine : deliveryStatus[e] \in CLAIMABLE_STATUSES /\ lease[e] = 0
  BY <1>0 DEF Call, Claimable, DueEvent
<1>3. seen \in [Events -> 0 .. MaxAttempts]
  BY <1>0, NumbersAssumption DEF TypeOK
<1>4. call \in Call
  BY <1>2, <1>3, IdleIsCall, NumbersAssumption DEF Call
<1>5. /\ call.event = {} /\ call.batch = mine
      /\ mine = {} => call.at = "idle" /\ call.left = 0
      /\ mine # {} => call.at = "next" /\ call.left = LeaseDuration /\ call.seen = seen
  BY DEF Idle
<1>6. worker'[w] = call /\ worker' \in [Workers -> Call] /\ \A x \in Workers \ {w} : worker'[x] = worker[x]
  BY <1>0, <1>1, <1>4
<1>7. /\ \A e \in mine : leaseOwner'[e] = w /\ lease'[e] = LeaseDuration
      /\ \A e \in Events \ mine : leaseOwner'[e] = leaseOwner[e] /\ lease'[e] = lease[e]
      /\ leaseOwner' \in [Events -> Workers \cup {NoWorker}] /\ lease' \in [Events -> Nat]
  BY <1>0, <1>1, <1>2, NumbersAssumption DEF TypeOK
<1> HIDE DEF call, mine
<1>8. TypeOK'
  BY <1>0, <1>1, <1>6, <1>7 DEF TypeOK, Call
<1>9. ASSUME NEW e \in Events PROVE RowOK(e)'
  BY <1>0, <1>1, <1>2, <1>7 DEF RowOK, CLAIMABLE_STATUSES
<1>10. HandsOK(w)' /\ ClaimOK(w)'
  <2>1. HandsOK(w)'
    BY <1>5, <1>6 DEF HandsOK
  <2>2. CASE mine = {}
    BY <1>5, <1>6, <2>1, <2>2 DEF ClaimOK, Claimed, At
  <2>3. CASE mine # {}
    <3>1. Claimed(w)' = mine
      BY <1>5, <1>6, <2>3 DEF Claimed, At
    <3>2. \A e \in mine : worker'[w].seen[e] = attemptCount'[e] /\ Owns(w, e)'
      BY <1>1, <1>2, <1>5, <1>6, <1>7, <2>3 DEF Owns
    <3>3. \A e \in mine : worker'[w].left <= lease'[e]
      BY <1>5, <1>6, <1>7, <2>3, NumbersAssumption
    <3>4. QED
      BY <2>1, <3>1, <3>2, <3>3 DEF ClaimOK
  <2>4. QED
    BY <2>1, <2>2, <2>3
<1>11. ASSUME NEW x \in Workers, x # w PROVE HandsOK(x)' /\ ClaimOK(x)'
  <2>1. worker'[x] = worker[x] /\ HandsOK(x)'
    BY <1>0, <1>6, <1>11 DEF HandsOK
  <2>2. Claimed(x)' = Claimed(x) /\ Claimed(x) \subseteq Events
    BY <1>0, <2>1 DEF Claimed, At, Call
  <2>3. ASSUME NEW e \in Claimed(x)
        PROVE  /\ Owns(x, e)' => worker'[x].seen[e] = attemptCount'[e]
               /\ worker'[x].left > 0 => Owns(x, e)' /\ worker'[x].left <= lease'[e]
    <3>1. CASE e \in mine
      <4>1. ~Owns(x, e)'
        BY <1>7, <1>11, <3>1 DEF Owns
      <4>2. worker[x].left \in Nat /\ lease[e] = 0
        BY <1>0, <1>2, <3>1 DEF Call
      <4>3. QED
        BY <1>0, <2>1, <2>3, <4>1, <4>2 DEF ClaimOK
    <3>2. CASE e \notin mine
      BY <1>0, <1>1, <1>7, <2>1, <2>2, <2>3, <3>2 DEF ClaimOK, Owns
    <3>3. QED
      BY <3>1, <3>2
  <2>4. QED
    BY <2>1, <2>2, <2>3 DEF ClaimOK
<1>12. QED
  BY <1>8, <1>9, <1>10, <1>11 DEF IInv

\* What a worker goes on with, once an event is recorded.
LEMMA ProceedCall ==
    ASSUME TypeOK, NEW w \in Workers, HandsOK(w), At(w, "deliver"), Proceed(w)
    PROVE  /\ worker' \in [Workers -> Call] /\ \A x \in Workers \ {w} : worker'[x] = worker[x]
           /\ HandsOK(w)'
           /\ Claimed(w)' \subseteq Claimed(w) \ {Current(w)}
           /\ Claimed(w)' # {} => worker'[w].left = worker[w].left
           /\ \A e \in Claimed(w)' : worker'[w].seen[e] = worker[w].seen[e]
<1> DEFINE rest == [worker[w] EXCEPT !.at = "next", !.event = {}, !.seen = [@ EXCEPT ![Current(w)] = 0],
                                     !.todo = {}, !.unhealthy = {}, !.failed = FALSE, !.elapsed = 0]
           call == IF worker[w].batch = {} THEN Idle ELSE rest
<1>1. worker \in [Workers -> Call] /\ worker[w] \in Call
  BY CallTypes
<1>2. worker' = [worker EXCEPT ![w] = call]
  BY DEF Proceed
<1>3. Current(w) \in Events /\ worker[w].event = {Current(w)} /\ Current(w) \notin worker[w].batch
  BY CurrentInHand
<1>4. rest \in Call
  <2>1. 0 \in 0 .. MaxAttempts /\ worker[w].seen \in [Events -> 0 .. MaxAttempts]
    BY <1>1, NumbersAssumption DEF Call
  <2>2. [worker[w].seen EXCEPT ![Current(w)] = 0] \in [Events -> 0 .. MaxAttempts]
    BY <2>1
  <2>3. QED
    BY <1>1, <2>2 DEF Call
<1>5. /\ rest.at = "next" /\ rest.event = {} /\ rest.batch = worker[w].batch /\ rest.left = worker[w].left
      /\ \A e \in worker[w].batch : rest.seen[e] = worker[w].seen[e]
  BY <1>1, <1>3 DEF Call
<1>6. call \in Call
  BY <1>4, IdleIsCall
<1>7. worker'[w] = call /\ worker' \in [Workers -> Call] /\ \A x \in Workers \ {w} : worker'[x] = worker[x]
  BY <1>1, <1>2, <1>6
<1> HIDE DEF rest
<1>8. CASE worker[w].batch = {}
  <2>1. worker'[w] = Idle
    BY <1>7, <1>8
  <2>2. HandsOK(w)' /\ Claimed(w)' = {}
    BY <2>1 DEF HandsOK, Claimed, At, Idle
  <2>3. QED
    BY <1>7, <2>2
<1>9. CASE worker[w].batch # {}
  <2>1. worker'[w] = rest
    BY <1>7, <1>9
  <2>2. HandsOK(w)' /\ Claimed(w)' = worker[w].batch
    BY <1>5, <2>1 DEF HandsOK, Claimed, At
  <2>3. worker[w].batch \subseteq Claimed(w) \ {Current(w)}
    BY <1>3 DEF Claimed, At
  <2>4. QED
    BY <1>5, <1>7, <2>1, <2>2, <2>3
<1>10. QED
  BY <1>8, <1>9

\* An attempt is recorded by the owner of the row, or not at all.
LEMMA RecordKeeps ==
    ASSUME IInv, NEW w \in Workers, At(w, "deliver"), Proceed(w),
           UNCHANGED <<committed, emitted, health, received, steady, faults>>,
           NEW newStatus \in {"RETRYING", "DELIVERED", "FAILED"}, NEW delay,
           newStatus = "RETRYING" => ShouldRetry(worker[w].seen[Current(w)] + 1),
           \/ Owns(w, Current(w)) /\ Mark(Current(w), newStatus, worker[w].seen[Current(w)] + 1, delay)
           \/ UNCHANGED events
    PROVE  IInv'
<1>0. /\ TypeOK /\ \A x \in Events : RowOK(x)
      /\ \A x \in Workers : HandsOK(x) /\ ClaimOK(x)
      /\ worker \in [Workers -> Call]
  BY CallTypes DEF IInv
<1>1. PICK e \in Events : e = Current(w) /\ e \in Claimed(w)
  <2>1. Current(w) \in Events /\ worker[w].event = {Current(w)}
    BY <1>0, CurrentInHand
  <2>2. QED
    BY <2>1 DEF Claimed, At
<1>2. /\ worker' \in [Workers -> Call] /\ \A x \in Workers \ {w} : worker'[x] = worker[x]
      /\ HandsOK(w)'
      /\ Claimed(w)' \subseteq Claimed(w) \ {e}
      /\ Claimed(w)' # {} => worker'[w].left = worker[w].left
      /\ \A x \in Claimed(w)' : worker'[w].seen[x] = worker[w].seen[x]
  BY <1>0, <1>1, ProceedCall
<1>3. \A x \in Workers : Claimed(x) \subseteq Events
  BY <1>0 DEF Claimed, Call
<1>4. CASE UNCHANGED events
  <2>1. UNCHANGED <<deliveryStatus, attemptCount, wait, leaseOwner, lease>>
    BY <1>4 DEF events
  <2>2. TypeOK'
    BY <1>0, <1>2, <2>1 DEF TypeOK, Call
  <2>3. \A x \in Events : RowOK(x)'
    BY <1>0, <2>1 DEF RowOK
  <2>4. ClaimOK(w)'
    BY <1>0, <1>2, <2>1 DEF ClaimOK, Owns
  <2>5. ASSUME NEW x \in Workers, x # w PROVE HandsOK(x)' /\ ClaimOK(x)'
    BY <1>0, <1>2, <1>4, <2>5, OtherCalls
  <2>6. QED
    BY <1>2, <2>2, <2>3, <2>4, <2>5 DEF IInv
<1>5. CASE Owns(w, e) /\ Mark(e, newStatus, worker[w].seen[e] + 1, delay)
  <2>1. /\ attemptCount[e] \in 0 .. MaxAttempts /\ attemptCount[e] < MaxAttempts
        /\ worker[w].seen[e] = attemptCount[e]
        /\ deliveryStatus[e] \in CLAIMABLE_STATUSES /\ leaseOwner[e] = w
    BY <1>0, <1>1, <1>5 DEF ClaimOK, Owns, RowOK, TypeOK
  <2>2. /\ deliveryStatus' = [deliveryStatus EXCEPT ![e] = newStatus]
        /\ attemptCount' = [attemptCount EXCEPT ![e] = attemptCount[e] + 1]
        /\ wait' = [wait EXCEPT ![e] = delay]
        /\ leaseOwner' = [leaseOwner EXCEPT ![e] = NoWorker]
        /\ lease' = [lease EXCEPT ![e] = 0]
    BY <1>5, <2>1 DEF Mark
  <2>3. TypeOK'
    <3>1. attemptCount' \in [Events -> 0 .. MaxAttempts]
      <4>1. attemptCount[e] + 1 \in 0 .. MaxAttempts
        BY <2>1, NumbersAssumption
      <4>2. QED
        BY <1>0, <2>2, <4>1 DEF TypeOK
    <3>2. QED
      BY <1>0, <1>1, <1>2, <2>2, <3>1 DEF TypeOK, Call, CLAIMABLE_STATUSES
  <2>4. ASSUME NEW x \in Events PROVE RowOK(x)'
    <3>1. CASE x = e
      BY <1>0, <1>1, <2>1, <2>2, <3>1 DEF RowOK, TypeOK, ShouldRetry, CLAIMABLE_STATUSES
    <3>2. CASE x # e
      BY <1>0, <2>2, <3>2 DEF RowOK, TypeOK
    <3>3. QED
      BY <3>1, <3>2
  <2>5. ASSUME NEW x \in Workers, NEW f \in Events, f # e
        PROVE  /\ Owns(x, f)' <=> Owns(x, f)
               /\ lease'[f] = lease[f] /\ attemptCount'[f] = attemptCount[f]
    BY <1>0, <2>2, <2>5 DEF Owns, TypeOK
  <2>6. ClaimOK(w)'
    <3>1. \A f \in Claimed(w)' : f \in Claimed(w) /\ f \in Events /\ f # e
      BY <1>2, <1>3
    <3>2. QED
      BY <1>0, <1>2, <2>5, <3>1 DEF ClaimOK
  <2>7. ASSUME NEW x \in Workers, x # w PROVE HandsOK(x)' /\ ClaimOK(x)'
    <3>1. worker'[x] = worker[x] /\ Claimed(x)' = Claimed(x)
      BY <1>2, <2>7 DEF Claimed, At
    <3>2. HandsOK(x)'
      BY <1>0, <3>1 DEF HandsOK
    <3>3. ~Owns(x, e) /\ ~Owns(x, e)'
      <4>1. leaseOwner'[e] = NoWorker
        BY <1>0, <1>1, <2>2 DEF TypeOK
      <4>2. QED
        BY <2>1, <2>7, <4>1, WorkersAssumption DEF Owns
    <3>4. e \in Claimed(x) => ~(worker[x].left > 0)
      BY <1>0, <3>3 DEF ClaimOK
    <3>5. ClaimOK(x)'
      BY <1>0, <1>3, <2>5, <3>1, <3>3, <3>4 DEF ClaimOK, Owns
    <3>6. QED
      BY <3>2, <3>5
  <2>8. QED
    BY <1>2, <2>3, <2>4, <2>6, <2>7 DEF IInv
<1>6. QED
  BY <1>1, <1>4, <1>5

LEMMA MarkKeeps ==
    ASSUME IInv, NEW w \in Workers, MarkDelivered(w) \/ MarkAttemptFailure(w)
    PROVE  IInv'
<1> DEFINE n == worker[w].seen[Current(w)] + 1
           elapsed == worker[w].elapsed
           delay == IF elapsed < ComputeNextAttemptAt(n) THEN ComputeNextAttemptAt(n) - elapsed ELSE 0
<1>1. CASE MarkDelivered(w)
  BY <1>1, RecordKeeps DEF MarkDelivered, Delivered
<1>2. CASE MarkAttemptFailure(w)
  <2>1. CASE ShouldRetry(n)
    <3>1. \/ Owns(w, Current(w)) /\ Mark(Current(w), "RETRYING", n, delay)
          \/ UNCHANGED events
      BY <1>2, <2>1 DEF MarkAttemptFailure
    <3>2. QED
      BY <1>2, <2>1, <3>1, RecordKeeps DEF MarkAttemptFailure
  <2>2. CASE ~ShouldRetry(n)
    <3>1. \/ Owns(w, Current(w)) /\ Mark(Current(w), "FAILED", n, 0)
          \/ UNCHANGED events
      BY <1>2, <2>2 DEF MarkAttemptFailure
    <3>2. QED
      BY <1>2, <3>1, RecordKeeps DEF MarkAttemptFailure
  <2>3. QED
    BY <2>1, <2>2
<1>3. QED
  BY <1>1, <1>2

LEMMA ConsumerKeeps ==
    ASSUME IInv, NEW k \in Consumers, ChangeConsumer(k)
    PROVE  IInv'
<1>0. /\ TypeOK /\ \A x \in Events : RowOK(x)
      /\ \A x \in Workers : HandsOK(x) /\ ClaimOK(x)
  BY DEF IInv
<1>1. UNCHANGED <<committed, emitted, deliveryStatus, attemptCount, wait, leaseOwner, lease, received, worker, faults>>
  BY DEF ChangeConsumer, events
<1>2. TypeOK'
  <2>1. PICK h \in {"HEALTHY", "UNHEALTHY", "ABSENT"} :
          /\ health' = [health EXCEPT ![k] = h]
          /\ steady' = [e \in Events |-> IF h = "ABSENT" THEN steady[e] \ {k} ELSE steady[e]]
    BY DEF ChangeConsumer
  <2>2. QED
    BY <1>0, <1>1, <2>1 DEF TypeOK
<1>3. \A x \in Events : RowOK(x)'
  BY <1>0, <1>1 DEF RowOK
<1>4. \A x \in Workers : HandsOK(x)' /\ ClaimOK(x)'
  BY <1>0, <1>1 DEF HandsOK, ClaimOK, Claimed, At, Owns
<1>5. QED
  BY <1>2, <1>3, <1>4 DEF IInv

LEMMA LessIsNat == \A n \in Nat : Less(n) \in Nat /\ Less(n) <= n /\ \A m \in Nat : n <= m => Less(n) <= Less(m)
  BY DEF Less

LEMMA TickKeeps ==
    ASSUME IInv, Tick
    PROVE  IInv'
<1>0. /\ TypeOK /\ \A x \in Events : RowOK(x)
      /\ \A x \in Workers : HandsOK(x) /\ ClaimOK(x)
      /\ worker \in [Workers -> Call]
  BY CallTypes DEF IInv
<1>1. ASSUME NEW x \in Workers
      PROVE  /\ worker'[x] \in Call /\ worker'[x].left = Less(worker[x].left)
             /\ worker'[x].at = worker[x].at /\ worker'[x].batch = worker[x].batch
             /\ worker'[x].event = worker[x].event /\ worker'[x].seen = worker[x].seen
  <2>1. worker[x] \in Call
    BY <1>0
  <2> DEFINE elapsed == IF At(x, "deliver") THEN MinOf(worker[x].elapsed + 1, MaxRetryDelay) ELSE worker[x].elapsed
             call == [worker[x] EXCEPT !.left = Less(worker[x].left), !.elapsed = elapsed]
  <2>2. worker'[x] = call
    BY DEF Tick
  <2>3. elapsed \in Nat
    BY <2>1, NumbersAssumption DEF Call, MinOf
  <2>4. Less(worker[x].left) \in Nat
    BY <2>1, LessIsNat DEF Call
  <2> HIDE DEF elapsed
  <2>5. QED
    BY <2>1, <2>2, <2>3, <2>4 DEF Call
<1>2. worker' \in [Workers -> Call]
  <2>1. worker' = [x \in Workers |-> worker'[x]]
    BY DEF Tick
  <2>2. QED
    BY <1>1, <2>1
<1>3. UNCHANGED <<committed, emitted, deliveryStatus, attemptCount, leaseOwner, health, received, steady, faults>>
  BY DEF Tick
<1>4. /\ DOMAIN wait' = Events /\ lease' \in [Events -> Nat]
      /\ \A e \in Events : lease'[e] = Less(lease[e])
  BY <1>0, LessIsNat DEF Tick, TypeOK
<1>5. TypeOK'
  BY <1>0, <1>2, <1>3, <1>4 DEF TypeOK, Call
<1>6. \A x \in Events : RowOK(x)'
  BY <1>0, <1>3 DEF RowOK
<1>7. ASSUME NEW x \in Workers PROVE HandsOK(x)' /\ ClaimOK(x)'
  <2>1. Claimed(x)' = Claimed(x) /\ Claimed(x) \subseteq Events
    BY <1>0, <1>1 DEF Claimed, At, Call
  <2>2. worker[x].left \in Nat
    BY <1>0 DEF Call
  <2>3. HandsOK(x)'
    BY <1>0, <1>1 DEF HandsOK, Less
  <2>4. ASSUME NEW e \in Claimed(x)
        PROVE  /\ Owns(x, e)' => worker'[x].seen[e] = attemptCount'[e]
               /\ worker'[x].left > 0 => Owns(x, e)' /\ worker'[x].left <= lease'[e]
    <3>1. Owns(x, e)' <=> Owns(x, e)
      BY <1>3 DEF Owns
    <3>2. lease[e] \in Nat /\ lease'[e] = Less(lease[e])
      BY <1>0, <1>4, <2>1 DEF TypeOK
    <3>3. worker'[x].left > 0 => worker[x].left > 0
      BY <1>1, <2>2 DEF Less
    <3>4. worker[x].left <= lease[e] => worker'[x].left <= lease'[e]
      BY <1>1, <2>2, <3>2, LessIsNat
    <3>5. QED
      BY <1>0, <1>1, <1>3, <3>1, <3>3, <3>4 DEF ClaimOK
  <2>5. QED
    BY <2>1, <2>3, <2>4 DEF ClaimOK
<1>8. QED
  BY <1>5, <1>6, <1>7 DEF IInv

LEMMA StutterKeeps == IInv /\ UNCHANGED vars => IInv'
<1> SUFFICES ASSUME IInv, UNCHANGED vars PROVE IInv'
  OBVIOUS
<1>1. UNCHANGED <<committed, emitted, deliveryStatus, attemptCount, wait, leaseOwner, lease, health,
                  received, steady, worker, faults>>
  BY DEF vars, events
<1>2. QED
  BY <1>1 DEF IInv, TypeOK, RowOK, HandsOK, ClaimOK, Claimed, At, Owns

LEMMA Inductive == IInv /\ [Next]_vars => IInv'
<1> SUFFICES ASSUME IInv, [Next]_vars PROVE IInv'
  OBVIOUS
<1>1. CASE UNCHANGED vars
  BY <1>1, StutterKeeps
<1>2. CASE Next
  BY <1>2, ChangeKeeps, PollKeeps, ClaimKeeps, NextEventKeeps, DeliverKeeps, MarkKeeps, CrashKeeps,
     ConsumerKeeps, TickKeeps DEF Next, Step
<1>3. QED
  BY <1>1, <1>2

LEMMA Invariance == Spec => []IInv
<1>1. Init => IInv
  BY InitOK
<1>2. IInv /\ [Next]_vars => IInv'
  BY Inductive
<1>3. QED
  BY <1>1, <1>2, PTL DEF Spec

\* What is stored of events is in order, and while a worker's lease lasts the
\* events it still has to process are its own, for any number of workers that
\* claim, crash and lose their leases.  (claimDueEvents, markDelivered.)
THEOREM LeasesCorrect == Spec => []LeasesAreRight
<1>1. IInv => LeasesAreRight
  BY Protected DEF LeasesAreRight, IInv
<1>2. QED
  BY <1>1, Invariance, PTL

-----------------------------------------------------------------------------
(* What a step does to a row, and the refinement of OutboxDelivery *)

IsRecorded(e) ==
    /\ deliveryStatus[e] = "NONE"
    /\ deliveryStatus' = [deliveryStatus EXCEPT ![e] = "PENDING"]
    /\ UNCHANGED attemptCount

IsAttempted(e) ==
    /\ deliveryStatus[e] \in CLAIMABLE_STATUSES
    /\ attemptCount' = [attemptCount EXCEPT ![e] = @ + 1]
    /\ \E newStatus \in {"RETRYING", "DELIVERED", "FAILED"} :
         /\ deliveryStatus' = [deliveryStatus EXCEPT ![e] = newStatus]
         /\ newStatus = "RETRYING" => attemptCount[e] + 1 < MaxAttempts
         /\ newStatus = "FAILED" => ~(attemptCount[e] + 1 < MaxAttempts)

\* Only the owner of a row records an attempt, and it counts on from the row.
LEMMA AttemptOfOwner ==
    ASSUME IInv, NEW w \in Workers, MarkDelivered(w) \/ MarkAttemptFailure(w)
    PROVE  UNCHANGED <<deliveryStatus, attemptCount>> \/ \E e \in Events : IsAttempted(e)
<1>1. /\ TypeOK /\ HandsOK(w) /\ ClaimOK(w) /\ At(w, "deliver")
  BY DEF IInv, MarkDelivered, Delivered, MarkAttemptFailure
<1>2. PICK e \in Events : e = Current(w) /\ e \in Claimed(w)
  <2>1. Current(w) \in Events /\ worker[w].event = {Current(w)}
    BY <1>1, CurrentInHand
  <2>2. QED
    BY <2>1, <1>1 DEF Claimed, At
<1>3. CASE UNCHANGED events
  BY <1>3 DEF events
<1>4. CASE Owns(w, e) /\ ~UNCHANGED events
  <2>1. worker[w].seen[e] = attemptCount[e] /\ deliveryStatus[e] \in CLAIMABLE_STATUSES
    BY <1>1, <1>2, <1>4 DEF ClaimOK, Owns
  <2>2. attemptCount' = [attemptCount EXCEPT ![e] = attemptCount[e] + 1]
    BY <1>2, <1>4, <2>1 DEF MarkDelivered, MarkAttemptFailure, Mark
  <2>3. \E newStatus \in {"RETRYING", "DELIVERED", "FAILED"} :
         /\ deliveryStatus' = [deliveryStatus EXCEPT ![e] = newStatus]
         /\ newStatus = "RETRYING" => attemptCount[e] + 1 < MaxAttempts
         /\ newStatus = "FAILED" => ~(attemptCount[e] + 1 < MaxAttempts)
    <3>1. CASE MarkDelivered(w)
      BY <1>2, <1>4, <2>1, <3>1 DEF MarkDelivered, Mark
    <3>2. CASE MarkAttemptFailure(w) /\ ShouldRetry(attemptCount[e] + 1)
      BY <1>2, <1>4, <2>1, <3>2 DEF MarkAttemptFailure, Mark, ShouldRetry
    <3>3. CASE MarkAttemptFailure(w) /\ ~ShouldRetry(attemptCount[e] + 1)
      BY <1>2, <1>4, <2>1, <3>3 DEF MarkAttemptFailure, Mark, ShouldRetry
    <3>4. QED
      BY <3>1, <3>2, <3>3
  <2>4. QED
    BY <2>1, <2>2, <2>3 DEF IsAttempted
<1>5. CASE ~Owns(w, e)
  BY <1>2, <1>5 DEF MarkDelivered, MarkAttemptFailure, events
<1>6. QED
  BY <1>3, <1>4, <1>5

LEMMA RowSteps ==
    ASSUME IInv, [Next]_vars
    PROVE  \/ UNCHANGED <<deliveryStatus, attemptCount>>
           \/ \E e \in Events : IsRecorded(e) \/ IsAttempted(e)
<1>1. CASE UNCHANGED vars
  BY <1>1 DEF vars, events
<1>2. ASSUME NEW e \in Events, CommitRelease(e) \/ RecordCapabilityEvent(e)
      PROVE  IsRecorded(e)
  BY <1>2 DEF IInv, RowOK, CommitRelease, RecordCapabilityEvent, CreateOutboxRecord, IsRecorded
<1>3. ASSUME NEW e \in Events, CommitCapabilityChange(e) \/ LoseCapabilityEvent(e)
      PROVE  UNCHANGED <<deliveryStatus, attemptCount>>
  BY <1>3 DEF CommitCapabilityChange, LoseCapabilityEvent, events
<1>4. ASSUME NEW w \in Workers,
             \/ Poll(w) \/ ClaimDueEvents(w) \/ NextEvent(w) \/ AttemptFails(w) \/ Crash(w)
             \/ \E k \in Consumers : DeliverTo(w, k) \/ DeliveryRecordFails(w, k)
      PROVE  UNCHANGED <<deliveryStatus, attemptCount>>
  BY <1>4 DEF Poll, ClaimDueEvents, NextEvent, AttemptFails, Crash, DeliverTo, DeliveryRecordFails, events
<1>5. ASSUME Tick \/ \E k \in Consumers : ChangeConsumer(k)
      PROVE  UNCHANGED <<deliveryStatus, attemptCount>>
  BY <1>5 DEF Tick, ChangeConsumer, events
<1>6. QED
  BY <1>1, <1>2, <1>3, <1>4, <1>5, AttemptOfOwner DEF Next, Step

\* The state of OutboxDelivery a status stands for.
StateOf(status) ==
    CASE status = "NONE" -> "none"
      [] status \in CLAIMABLE_STATUSES -> "waiting"
      [] status = "DELIVERED" -> "delivered"
      [] status = "FAILED" -> "failed"

States == [e \in Events |-> StateOf(deliveryStatus[e])]

LEMMA StateNames ==
    /\ StateOf("NONE") = "none" /\ StateOf("DELIVERED") = "delivered" /\ StateOf("FAILED") = "failed"
    /\ \A status \in CLAIMABLE_STATUSES : StateOf(status) = "waiting"
  BY DEF StateOf, CLAIMABLE_STATUSES

LEMMA StateChange ==
    ASSUME TypeOK, NEW e \in Events, NEW status, deliveryStatus' = [deliveryStatus EXCEPT ![e] = status]
    PROVE  States' = [States EXCEPT ![e] = StateOf(status)]
  BY DEF TypeOK, States

LEMMA InitRefined == Init => Promise!Init
<1> SUFFICES ASSUME Init PROVE Promise!Init
  OBVIOUS
<1>1. States = [e \in Events |-> "none"]
  BY StateNames DEF Init, States
<1>2. QED
  BY <1>1 DEF Init, Promise!Init, States, StateOf

LEMMA StepRefined ==
    ASSUME IInv, [Next]_vars
    PROVE  [Promise!Next]_(Promise!vars)
<1>1. TypeOK
  BY DEF IInv
<1>2. CASE UNCHANGED <<deliveryStatus, attemptCount>>
  BY <1>2 DEF Promise!vars
<1>3. ASSUME NEW e \in Events, IsRecorded(e) PROVE Promise!Record(e)
  <2>1. States' = [States EXCEPT ![e] = "waiting"]
    <3>1. States' = [States EXCEPT ![e] = StateOf("PENDING")]
      BY <1>1, <1>3, StateChange DEF IsRecorded
    <3>2. StateOf("PENDING") = "waiting"
      BY StateNames DEF CLAIMABLE_STATUSES
    <3>3. QED
      BY <3>1, <3>2
  <2>2. States[e] = "none"
    BY <1>3, StateNames DEF IsRecorded, States
  <2>3. QED
    BY <1>3, <2>1, <2>2 DEF Promise!Record, States, StateOf, IsRecorded
<1>4. ASSUME NEW e \in Events, IsAttempted(e)
      PROVE  Promise!Succeed(e) \/ Promise!Retry(e) \/ Promise!GiveUp(e)
  <2>1. PICK newStatus \in {"RETRYING", "DELIVERED", "FAILED"} :
         /\ deliveryStatus' = [deliveryStatus EXCEPT ![e] = newStatus]
         /\ newStatus = "RETRYING" => attemptCount[e] + 1 < MaxAttempts
         /\ newStatus = "FAILED" => ~(attemptCount[e] + 1 < MaxAttempts)
    BY <1>4 DEF IsAttempted
  <2>2. States' = [States EXCEPT ![e] = StateOf(newStatus)]
    BY <1>1, <2>1, StateChange
  <2>3. States[e] = "waiting" /\ attemptCount' = [attemptCount EXCEPT ![e] = attemptCount[e] + 1]
    BY <1>4, StateNames DEF IsAttempted, States
  <2>4. Promise!Attempt(e, StateOf(newStatus))
    BY <2>2, <2>3 DEF Promise!Attempt, States, StateOf
  <2>5. CASE newStatus = "RETRYING"
    BY <2>1, <2>4, <2>5, StateNames DEF Promise!Retry, CLAIMABLE_STATUSES
  <2>6. CASE newStatus = "DELIVERED"
    BY <2>4, <2>6, StateNames DEF Promise!Succeed
  <2>7. CASE newStatus = "FAILED"
    <3>1. attemptCount[e] + 1 >= MaxAttempts
      BY <1>1, <2>1, <2>7, NumbersAssumption DEF TypeOK
    <3>2. QED
      BY <2>4, <2>7, <3>1, StateNames DEF Promise!GiveUp
  <2>8. QED
    BY <2>5, <2>6, <2>7
<1>5. QED
  BY <1>2, <1>3, <1>4, RowSteps DEF Promise!Next

\* Whatever claims are lost and events delivered again, every update of a row
\* is the next attempt of its event, and none follows the last: the outbox
\* implements OutboxDelivery for any numbers of workers and attempts.
\* (markDelivered, markAttemptFailure.)
THEOREM Refinement == Spec => ImplementsDelivery
<1>1. Init => Promise!Init
  BY InitRefined
<1>2. IInv /\ [Next]_vars => [Promise!Next]_(Promise!vars)
  BY StepRefined
<1>3. QED
  BY <1>1, <1>2, Invariance, PTL DEF Spec, ImplementsDelivery, Promise!Spec

-----------------------------------------------------------------------------
(* An event marked delivered has reached everybody *)

\* What a call has in hand is recorded, so that its steady consumers only get fewer.
InHandRecorded(w) ==
    \A e \in worker[w].batch \cup worker[w].event : deliveryStatus[e] # "NONE"

\* A delivery that has not failed has reached all that it has passed.
Reached(w) ==
    At(w, "deliver") /\ ~worker[w].failed =>
        \A e \in worker[w].event : \A k \in steady[e] : k \in worker[w].todo \/ <<e, k>> \in received

DInv ==
    /\ IInv
    /\ \A e \in Events : steady[e] \subseteq Registered
    /\ \A w \in Workers : InHandRecorded(w) /\ Reached(w)
    /\ DeliveredToAll

\* Steps that reach nobody less, let no consumer in and mark no event delivered.
LEMMA ReachKept ==
    ASSUME DInv, IInv',
           UNCHANGED health, received \subseteq received',
           \A e \in Events : deliveryStatus[e] # "NONE" => /\ steady'[e] \subseteq steady[e]
                                                           /\ deliveryStatus'[e] # "NONE",
           \A e \in Events : steady'[e] \subseteq Registered,
           \A e \in Events : deliveryStatus'[e] = "DELIVERED" => deliveryStatus[e] = "DELIVERED",
           \A w \in Workers : worker'[w] # worker[w] => InHandRecorded(w)' /\ Reached(w)'
    PROVE  DInv'
<1>0. TypeOK /\ worker \in [Workers -> Call]
  BY CallTypes DEF DInv, IInv
<1>1. \A e \in Events : steady'[e] \subseteq Registered'
  BY DEF Registered
<1>2. ASSUME NEW w \in Workers PROVE InHandRecorded(w)' /\ Reached(w)'
  <2>1. CASE worker'[w] # worker[w]
    BY <2>1
  <2>2. CASE worker'[w] = worker[w]
    <3>1. worker[w].batch \cup worker[w].event \subseteq Events
      BY <1>0 DEF Call
    <3>2. InHandRecorded(w)'
      BY <2>2, <3>1 DEF DInv, InHandRecorded
    <3>3. Reached(w)'
      BY <2>2, <3>1 DEF DInv, InHandRecorded, Reached, At
    <3>4. QED
      BY <3>2, <3>3
  <2>3. QED
    BY <2>1, <2>2
<1>3. DeliveredToAll'
  BY DEF DInv, DeliveredToAll
<1>4. QED
  BY <1>1, <1>2, <1>3 DEF DInv

LEMMA DInit == Init => DInv
<1> SUFFICES ASSUME Init PROVE DInv
  OBVIOUS
<1>1. IInv
  BY InitOK
<1>2. \A e \in Events : steady[e] \subseteq Registered
  BY DEF Init
<1>3. \A w \in Workers : InHandRecorded(w) /\ Reached(w)
  BY DEF Init, Idle, InHandRecorded, Reached, At
<1>4. DeliveredToAll
  BY DEF Init, DeliveredToAll
<1>5. QED
  BY <1>1, <1>2, <1>3, <1>4 DEF DInv

\* An event is recorded, for the consumers of that moment, before anybody has it.
LEMMA DChange ==
    ASSUME DInv, IInv', NEW e \in Events,
           CommitRelease(e) \/ CommitCapabilityChange(e) \/ RecordCapabilityEvent(e) \/ LoseCapabilityEvent(e)
    PROVE  DInv'
<1>1. TypeOK /\ RowOK(e)
  BY DEF DInv, IInv
<1>2. UNCHANGED <<health, received, worker>>
  BY DEF CommitRelease, CommitCapabilityChange, RecordCapabilityEvent, LoseCapabilityEvent
<1>3. CASE UNCHANGED <<deliveryStatus, steady>>
  BY <1>2, <1>3, ReachKept DEF DInv
<1>4. CASE CreateOutboxRecord(e) /\ deliveryStatus[e] = "NONE"
  <2>1. /\ \A x \in Events : deliveryStatus[x] # "NONE" => /\ steady'[x] \subseteq steady[x]
                                                           /\ deliveryStatus'[x] # "NONE"
        /\ \A x \in Events : steady'[x] \subseteq Registered
        /\ \A x \in Events : deliveryStatus'[x] = "DELIVERED" => deliveryStatus[x] = "DELIVERED"
    BY <1>1, <1>4 DEF CreateOutboxRecord, TypeOK, DInv
  <2>2. QED
    BY <1>2, <2>1, ReachKept
<1>5. QED
  BY <1>1, <1>3, <1>4
     DEF RowOK, CommitRelease, CommitCapabilityChange, RecordCapabilityEvent, LoseCapabilityEvent, events

\* A call takes, passes on or drops what is recorded already.
LEMMA DCall ==
    ASSUME DInv, IInv', NEW w \in Workers,
           Poll(w) \/ ClaimDueEvents(w) \/ NextEvent(w) \/ AttemptFails(w) \/ Crash(w)
    PROVE  DInv'
<1>1. TypeOK /\ worker \in [Workers -> Call] /\ \A e \in Events : steady[e] \subseteq Registered
  BY CallTypes DEF DInv, IInv
<1>2. /\ UNCHANGED <<deliveryStatus, health, received, steady>>
      /\ \A x \in Workers \ {w} : worker'[x] = worker[x]
  BY <1>1 DEF Poll, ClaimDueEvents, NextEvent, AttemptFails, Crash, events
<1>3. InHandRecorded(w)' /\ Reached(w)'
  <2>1. CASE Poll(w)
    <3>1. PICK S \in SUBSET DueEvents : worker' = [worker EXCEPT ![w] = [Idle EXCEPT !.at = "claim", !.batch = S]]
      BY <2>1 DEF Poll
    <3>2. worker'[w].batch = S /\ worker'[w].event = {} /\ worker'[w].at = "claim"
      BY <1>1, <3>1 DEF Idle
    <3>3. \A e \in S : deliveryStatus[e] # "NONE"
      BY <3>1 DEF DueEvents, DueEvent, CLAIMABLE_STATUSES
    <3>4. QED
      BY <1>2, <3>2, <3>3 DEF InHandRecorded, Reached, At
  <2>2. CASE ClaimDueEvents(w)
    <3>1. /\ worker'[w].batch \subseteq worker[w].batch /\ worker'[w].event = {}
          /\ worker'[w].at \in {"idle", "next"}
      BY <1>1, <2>2 DEF ClaimDueEvents, Idle
    <3>2. QED
      BY <1>2, <3>1 DEF DInv, InHandRecorded, Reached, At
  <2>3. CASE NextEvent(w)
    <3>1. PICK e \in worker[w].batch :
            worker' = [worker EXCEPT ![w] =
            [worker[w] EXCEPT !.at = "deliver", !.batch = @ \ {e}, !.event = {e}, !.todo = Registered,
                      !.unhealthy = {k \in Consumers : health[k] = "UNHEALTHY"},
                      !.failed = FALSE, !.elapsed = 0]]
      BY <2>3 DEF NextEvent
    <3>2. /\ worker'[w].batch = worker[w].batch \ {e} /\ worker'[w].event = {e}
          /\ worker'[w].todo = Registered
      BY <1>1, <3>1 DEF Call
    <3>3. worker[w].batch \subseteq Events
      BY <1>1 DEF Call
    <3>4. InHandRecorded(w)'
      BY <1>2, <3>1, <3>2 DEF DInv, InHandRecorded
    <3>5. Reached(w)'
      BY <1>1, <1>2, <3>1, <3>2, <3>3 DEF Reached
    <3>6. QED
      BY <3>4, <3>5
  <2>4. CASE AttemptFails(w)
    <3>1. worker'[w].batch = worker[w].batch /\ worker'[w].event = worker[w].event /\ worker'[w].failed
      BY <1>1, <2>4 DEF AttemptFails, Call
    <3>2. QED
      BY <1>2, <3>1 DEF DInv, InHandRecorded, Reached
  <2>5. CASE Crash(w)
    <3>1. worker'[w] = Idle
      BY <1>1, <2>5 DEF Crash
    <3>2. QED
      BY <3>1 DEF Idle, InHandRecorded, Reached, At
  <2>6. QED
    BY <2>1, <2>2, <2>3, <2>4, <2>5
<1>4. QED
  BY <1>1, <1>2, <1>3, ReachKept

\* A consumer is passed either because the event has reached it, or as a failure.
LEMMA DDeliver ==
    ASSUME DInv, IInv', NEW w \in Workers, NEW k \in Consumers, DeliverTo(w, k) \/ DeliveryRecordFails(w, k)
    PROVE  DInv'
<1>1. /\ TypeOK /\ worker \in [Workers -> Call] /\ HandsOK(w) /\ At(w, "deliver")
      /\ \A e \in Events : steady[e] \subseteq Registered
  BY CallTypes DEF DInv, IInv, DeliverTo, DeliveryRecordFails
<1>2. PICK e \in Events : e = Current(w) /\ worker[w].event = {e}
  BY <1>1, CurrentInHand
<1>3. /\ UNCHANGED <<deliveryStatus, health, steady>>
      /\ \A x \in Workers \ {w} : worker'[x] = worker[x]
  BY <1>1 DEF DeliverTo, DeliveryRecordFails, events
<1>4. /\ received' = IF k \in worker[w].unhealthy THEN received ELSE received \cup {<<e, k>>}
      /\ received \subseteq received'
  BY <1>2 DEF DeliverTo, DeliveryRecordFails
<1>5. /\ worker'[w].batch = worker[w].batch /\ worker'[w].event = worker[w].event /\ worker'[w].at = worker[w].at
      /\ worker'[w].todo = worker[w].todo \ {k}
      /\ ~worker'[w].failed => ~worker[w].failed /\ k \notin worker[w].unhealthy
  <2>1. CASE DeliverTo(w, k)
    BY <1>1, <2>1 DEF DeliverTo, Call
  <2>2. CASE DeliveryRecordFails(w, k)
    BY <1>1, <2>2 DEF DeliveryRecordFails, Call
  <2>3. QED
    BY <2>1, <2>2
<1>6. InHandRecorded(w)'
  BY <1>3, <1>5 DEF DInv, InHandRecorded
<1>7. Reached(w)'
  <2>1. SUFFICES ASSUME ~worker'[w].failed, NEW j \in steady[e]
                 PROVE  j \in worker'[w].todo \/ <<e, j>> \in received'
    BY <1>2, <1>3, <1>5 DEF Reached
  <2>2. ~worker[w].failed /\ k \notin worker[w].unhealthy
    BY <1>5, <2>1
  <2>3. j \in worker[w].todo \/ <<e, j>> \in received
    BY <1>1, <1>2, <2>1, <2>2 DEF DInv, Reached
  <2>4. QED
    BY <1>4, <1>5, <2>2, <2>3
<1>8. QED
  BY <1>1, <1>3, <1>4, <1>6, <1>7, ReachKept

\* An event is marked delivered by its owner at the end of a delivery without a failure.
LEMMA DMark ==
    ASSUME DInv, IInv', NEW w \in Workers, MarkDelivered(w) \/ MarkAttemptFailure(w)
    PROVE  DInv'
<1>1. /\ TypeOK /\ worker \in [Workers -> Call] /\ HandsOK(w) /\ At(w, "deliver") /\ Proceed(w)
      /\ worker[w].todo = {}
      /\ UNCHANGED <<health, received, steady>>
  BY CallTypes DEF DInv, IInv, MarkDelivered, Delivered, MarkAttemptFailure
<1>2. PICK e \in Events : e = Current(w) /\ worker[w].event = {e}
  BY <1>1, CurrentInHand
<1>3. /\ worker' \in [Workers -> Call] /\ \A x \in Workers \ {w} : worker'[x] = worker[x]
      /\ HandsOK(w)'
      /\ Claimed(w)' \subseteq Claimed(w)
  BY <1>1, ProceedCall
<1>4. worker'[w].batch \cup worker'[w].event \subseteq worker[w].batch \cup worker[w].event
      /\ worker'[w].at # "deliver"
  <2>1. worker'[w] = IF worker[w].batch = {} THEN Idle
        ELSE [worker[w] EXCEPT !.at = "next", !.event = {}, !.seen = [@ EXCEPT ![Current(w)] = 0],
                       !.todo = {}, !.unhealthy = {}, !.failed = FALSE, !.elapsed = 0]
    BY <1>1 DEF Proceed
  <2>2. QED
    BY <1>1, <2>1 DEF Idle, Call
<1>5. \/ UNCHANGED deliveryStatus
      \/ /\ deliveryStatus' = [deliveryStatus EXCEPT ![e] = "DELIVERED"]
         /\ ~worker[w].failed
      \/ \E newStatus \in {"RETRYING", "FAILED"} : deliveryStatus' = [deliveryStatus EXCEPT ![e] = newStatus]
  <2>1. CASE MarkDelivered(w)
    BY <1>2, <2>1 DEF MarkDelivered, Delivered, Mark, events
  <2>2. CASE MarkAttemptFailure(w)
    BY <1>2, <2>2 DEF MarkAttemptFailure, Mark, events
  <2>3. QED
    BY <2>1, <2>2
<1>6. \A x \in Events : deliveryStatus[x] # "NONE" => deliveryStatus'[x] # "NONE"
  BY <1>1, <1>5 DEF TypeOK
<1>7. \A x \in Workers : InHandRecorded(x)' /\ Reached(x)'
  <2>1. ASSUME NEW x \in Workers PROVE worker[x].batch \cup worker[x].event \subseteq Events
    BY <1>1 DEF Call
  <2>2. InHandRecorded(w)' /\ Reached(w)'
    BY <1>4, <1>6, <2>1 DEF DInv, InHandRecorded, Reached, At
  <2>3. ASSUME NEW x \in Workers, x # w PROVE InHandRecorded(x)' /\ Reached(x)'
    <3>1. worker'[x] = worker[x]
      BY <1>3, <2>3
    <3>2. QED
      BY <1>1, <1>6, <2>1, <3>1 DEF DInv, InHandRecorded, Reached, At
  <2>4. QED
    BY <2>2, <2>3
<1>8. DeliveredToAll'
  <2>1. SUFFICES ASSUME NEW x \in Events, deliveryStatus'[x] = "DELIVERED", NEW k \in steady[x]
                 PROVE  <<x, k>> \in received
    BY <1>1 DEF DeliveredToAll
  <2>2. CASE deliveryStatus[x] = "DELIVERED"
    BY <2>1, <2>2 DEF DInv, DeliveredToAll
  <2>3. CASE deliveryStatus[x] # "DELIVERED"
    <3>1. x = e /\ ~worker[w].failed
      BY <1>1, <1>5, <2>1, <2>3 DEF TypeOK
    <3>2. QED
      BY <1>1, <1>2, <3>1 DEF DInv, Reached
  <2>4. QED
    BY <2>2, <2>3
<1>9. \A x \in Events : steady'[x] \subseteq Registered'
  BY <1>1 DEF DInv, Registered
<1>10. QED
  BY <1>7, <1>8, <1>9 DEF DInv

\* A consumer that comes is not a steady one, and one that goes is none any more.
LEMMA DConsumer ==
    ASSUME DInv, IInv', NEW k \in Consumers, ChangeConsumer(k)
    PROVE  DInv'
<1>1. TypeOK /\ worker \in [Workers -> Call]
  BY CallTypes DEF DInv, IInv
<1>2. UNCHANGED <<deliveryStatus, received, worker>>
  BY DEF ChangeConsumer, events
<1>3. PICK h \in {"HEALTHY", "UNHEALTHY", "ABSENT"} :
        /\ health' = [health EXCEPT ![k] = h]
        /\ steady' = [e \in Events |-> IF h = "ABSENT" THEN steady[e] \ {k} ELSE steady[e]]
  BY DEF ChangeConsumer
<1>4. \A e \in Events : steady'[e] \subseteq steady[e] /\ (h = "ABSENT" => k \notin steady'[e])
  BY <1>3
<1>5. ASSUME NEW e \in Events PROVE steady'[e] \subseteq Registered'
  <2>1. steady[e] \subseteq Registered
    BY DEF DInv
  <2>2. QED
    BY <1>1, <1>3, <1>4, <2>1 DEF Registered, TypeOK
<1>6. ASSUME NEW w \in Workers PROVE InHandRecorded(w)' /\ Reached(w)'
  <2>1. worker[w].batch \cup worker[w].event \subseteq Events
    BY <1>1 DEF Call
  <2>2. QED
    BY <1>2, <1>4, <2>1 DEF DInv, InHandRecorded, Reached, At
<1>7. DeliveredToAll'
  BY <1>2, <1>4 DEF DInv, DeliveredToAll
<1>8. QED
  BY <1>5, <1>6, <1>7 DEF DInv

LEMMA DTick ==
    ASSUME DInv, IInv', Tick
    PROVE  DInv'
<1>1. TypeOK /\ worker \in [Workers -> Call] /\ \A e \in Events : steady[e] \subseteq Registered
  BY CallTypes DEF DInv, IInv
<1>2. UNCHANGED <<deliveryStatus, health, received, steady>>
  BY DEF Tick
<1>3. ASSUME NEW w \in Workers
      PROVE  /\ worker'[w].batch = worker[w].batch /\ worker'[w].event = worker[w].event
             /\ worker'[w].at = worker[w].at /\ worker'[w].todo = worker[w].todo
             /\ worker'[w].failed = worker[w].failed
  BY <1>1 DEF Tick, Call
<1>4. \A w \in Workers : InHandRecorded(w)' /\ Reached(w)'
  BY <1>2, <1>3 DEF DInv, InHandRecorded, Reached, At
<1>5. QED
  BY <1>1, <1>2, <1>4, ReachKept

LEMMA DInductive == DInv /\ [Next]_vars => DInv'
<1> SUFFICES ASSUME DInv, [Next]_vars PROVE DInv'
  OBVIOUS
<1>1. IInv'
  BY Inductive DEF DInv
<1>2. CASE UNCHANGED vars
  <2>1. UNCHANGED <<deliveryStatus, health, received, steady, worker>>
    BY <1>2 DEF vars, events
  <2>2. QED
    BY <1>1, <2>1, ReachKept DEF DInv
<1>3. CASE Next
  BY <1>1, <1>3, DChange, DCall, DDeliver, DMark, DConsumer, DTick DEF Next, Step
<1>4. QED
  BY <1>2, <1>3

\* An event marked delivered has reached every consumer that has been
\* registered since it was recorded, whatever consumers come, go and fall ill
\* meanwhile and however often it was taken over.  (deliver, processDueEvents.)
THEOREM DeliveriesComplete == Spec => []DeliveredToAll
<1>1. Init => DInv
  BY DInit
<1>2. DInv /\ [Next]_vars => DInv'
  BY DInductive
<1>3. DInv => DeliveredToAll
  BY DEF DInv
<1>4. QED
  BY <1>1, <1>2, <1>3, PTL DEF Spec
=============================================================================
