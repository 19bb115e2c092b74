-------------------------- MODULE EventQueueProofs --------------------------
(***************************************************************************)
(* Proofs about core/fc_queue.c for every capacity, every finite set of    *)
(* receivers and every set of events.                                      *)
(***************************************************************************)
EXTENDS EventQueue, FiniteSetTheorems, SequenceTheorems, TLAPS

-----------------------------------------------------------------------------
(* Arithmetic of the ring.                                                 *)

(* The remainder used for head and tail, for the sums that occur in the    *)
(* ring: below the capacity it is the identity, above it wraps once.       *)
LEMMA WrapOnce ==
    ASSUME NEW k \in Nat, k < 2 * Capacity
    PROVE  k % Capacity = IF k < Capacity THEN k ELSE k - Capacity
BY CapacityAssumption, Z3

(* The same for a sum, the form in which the code uses it.                 *)
LEMMA WrapSum ==
    ASSUME NEW a \in Nat, NEW b \in Nat, a + b < 2 * Capacity
    PROVE  (a + b) % Capacity = IF a + b < Capacity THEN a + b
                                                    ELSE a + b - Capacity
BY CapacityAssumption, Z3

(* Every position counted from head is a slot of the ring.                 *)
LEMMA SlotInRange ==
    ASSUME NEW h \in Slots, NEW i \in 0 .. Capacity
    PROVE  (h + i) % Capacity \in Slots
<1>1. h + i \in Nat /\ h + i < 2 * Capacity
  BY CapacityAssumption DEF Slots
<1>2. QED
  BY <1>1, WrapOnce, CapacityAssumption DEF Slots

(* Advancing head by one renames position i + 1 to position i.             *)
LEMMA SlotShift ==
    ASSUME NEW h \in Slots, NEW i \in 0 .. (Capacity - 1)
    PROVE  (((h + 1) % Capacity) + i) % Capacity = (h + i + 1) % Capacity
<1> DEFINE h1 == (h + 1) % Capacity
<1>1. h \in Nat /\ i \in Nat /\ h + i \in Nat /\ h + i + 1 < 2 * Capacity
      /\ h + 1 <= Capacity /\ h + 1 < 2 * Capacity + 1
  BY CapacityAssumption DEF Slots
<1>2. (h + i + 1) % Capacity = IF h + i + 1 < Capacity
                               THEN h + i + 1 ELSE h + i + 1 - Capacity
  BY <1>1, WrapSum
<1>3. h1 = IF h + 1 < Capacity THEN h + 1 ELSE 0
  <2>1. h + 1 < 2 * Capacity
    BY <1>1, CapacityAssumption
  <2>2. h1 = IF h + 1 < Capacity THEN h + 1 ELSE h + 1 - Capacity
    BY <1>1, <2>1, WrapSum
  <2>3. QED
    BY <1>1, <2>2, CapacityAssumption
<1> HIDE DEF h1
<1>4. h1 \in Nat /\ h1 + i < 2 * Capacity
  BY <1>1, <1>3, CapacityAssumption DEF Slots
<1>5. (h1 + i) % Capacity = IF h1 + i < Capacity THEN h1 + i
                                                 ELSE h1 + i - Capacity
  BY <1>1, <1>4, WrapSum
<1>6. (h1 + i) % Capacity = (h + i + 1) % Capacity
  BY <1>1, <1>2, <1>3, <1>5, CapacityAssumption DEF Slots
<1>7. QED
  BY <1>6 DEF h1

(* Positions that differ by less than the capacity are different slots.    *)
LEMMA SlotDistinct ==
    ASSUME NEW h \in Slots, NEW c \in 0 .. (Capacity - 1),
           NEW i \in 0 .. (c - 1)
    PROVE  (h + i) % Capacity # (h + c) % Capacity
<1>1. h \in Nat /\ i \in Nat /\ c \in Nat
      /\ h + i < 2 * Capacity /\ h + c < 2 * Capacity
  BY CapacityAssumption DEF Slots
<1>2. (h + i) % Capacity = IF h + i < Capacity THEN h + i
                                               ELSE h + i - Capacity
  BY <1>1, WrapSum
<1>3. (h + c) % Capacity = IF h + c < Capacity THEN h + c
                                               ELSE h + c - Capacity
  BY <1>1, WrapSum
<1>4. QED
  BY <1>1, <1>2, <1>3, CapacityAssumption DEF Slots

-----------------------------------------------------------------------------
(* The counters and the slots.                                             *)

(* Taking the head item leaves a consistent ring: the part of the receive  *)
(* steps that touches the structure.                                       *)
LEMMA DequeueRing ==
    ASSUME TypeOK, RingShape, count # 0,
           head' = (head + 1) % Capacity, count' = count - 1,
           UNCHANGED <<initialized, items, tail>>
    PROVE  /\ items[head] \in Events
           /\ head' \in Slots
           /\ count' \in 0 .. Capacity
           /\ RingShape'
<1> USE CapacityAssumption
<1>1. count \in 1 .. Capacity
  BY DEF TypeOK
<1>2. items[head] \in Events
  <2>1. (head + 0) % Capacity = head
    <3>1. head \in Nat /\ head < 2 * Capacity /\ head < Capacity
      BY DEF TypeOK, Slots
    <3>2. QED
      BY <3>1, WrapOnce
  <2>2. 0 \in 0 .. (count - 1)
    BY <1>1
  <2>3. QED
    BY <2>1, <2>2 DEF RingShape
<1>3. head' \in Slots
  <2>1. 1 \in 0 .. Capacity
    OBVIOUS
  <2>2. QED
    BY <2>1, SlotInRange DEF TypeOK
<1>4. count' \in 0 .. Capacity
  BY <1>1
<1>5. RingShape'
  <2>1. tail' = (head' + count') % Capacity
    <3>1. count - 1 \in 0 .. (Capacity - 1)
      BY <1>1
    <3>2. (((head + 1) % Capacity) + (count - 1)) % Capacity
             = (head + (count - 1) + 1) % Capacity
      BY <3>1, SlotShift DEF TypeOK
    <3>3. head + (count - 1) + 1 = head + count
      BY <1>1 DEF TypeOK, Slots
    <3>4. QED
      BY <3>2, <3>3 DEF RingShape
  <2>2. (~initialized => count = 0)'
    BY <1>1 DEF RingShape
  <2>3. ASSUME NEW i \in 0 .. (count' - 1)
        PROVE  items'[(head' + i) % Capacity] \in Events
    <3>1. i \in 0 .. (Capacity - 1) /\ i + 1 \in 0 .. (count - 1)
      BY <1>1, <2>3
    <3>2. (head' + i) % Capacity = (head + i + 1) % Capacity
      BY <3>1, SlotShift DEF TypeOK
    <3>3. head + i + 1 = head + (i + 1)
      BY <3>1 DEF TypeOK, Slots
    <3>4. items[(head + (i + 1)) % Capacity] \in Events
      BY <3>1 DEF RingShape
    <3>5. QED
      BY <3>2, <3>3, <3>4
  <2>4. QED
    BY <2>1, <2>2, <2>3 DEF RingShape
<1>6. QED
  BY <1>2, <1>3, <1>4, <1>5

(* Storing at tail leaves a consistent ring: the structure part of         *)
(* fc_queue_publish.                                                       *)
LEMMA PublishRing ==
    ASSUME TypeOK, RingShape, NEW e \in Events, Publish(e)
    PROVE  /\ items' \in [Slots -> Events \cup {NoEvent}]
           /\ tail' \in Slots
           /\ count' \in 0 .. Capacity
           /\ RingShape'
<1> USE CapacityAssumption
<1>1. count \in 0 .. (Capacity - 1) /\ count' = count + 1 /\ head' = head
      /\ items' = [items EXCEPT ![tail] = e] /\ tail' = (tail + 1) % Capacity
      /\ initialized
  BY DEF Publish, TypeOK
<1>2. items' \in [Slots -> Events \cup {NoEvent}]
  BY <1>1 DEF TypeOK
<1>3. tail' \in Slots
  <2>1. 1 \in 0 .. Capacity
    OBVIOUS
  <2>2. QED
    BY <1>1, <2>1, SlotInRange DEF TypeOK
<1>4. count' \in 0 .. Capacity
  BY <1>1
<1>5. tail' = (head' + count') % Capacity
  <2>1. head \in Nat /\ count \in Nat /\ head + count \in Nat
        /\ head + count + 1 < 2 * Capacity /\ head + count < 2 * Capacity
        /\ tail \in Nat /\ tail + 1 < 2 * Capacity + 1 /\ tail < Capacity
    BY <1>1 DEF TypeOK, Slots
  <2>2. tail = IF head + count < Capacity THEN head + count
                                          ELSE head + count - Capacity
    BY <2>1, WrapSum DEF RingShape
  <2>3. (head + count + 1) % Capacity
           = IF head + count + 1 < Capacity THEN head + count + 1
                                            ELSE head + count + 1 - Capacity
    BY <2>1, WrapSum
  <2>4. tail + 1 < 2 * Capacity
    BY <2>1
  <2>5. (tail + 1) % Capacity = IF tail + 1 < Capacity THEN tail + 1
                                                       ELSE tail + 1 - Capacity
    BY <2>1, <2>4, WrapSum
  <2>6. (tail + 1) % Capacity = (head + count + 1) % Capacity
    BY <2>1, <2>2, <2>3, <2>5
  <2>7. head + (count + 1) = head + count + 1
    BY <2>1
  <2>8. QED
    BY <1>1, <2>6, <2>7
<1>6. ASSUME NEW i \in 0 .. (count' - 1)
      PROVE  items'[(head' + i) % Capacity] \in Events
  <2>1. i \in 0 .. Capacity /\ i \in 0 .. count
    BY <1>1, <1>6
  <2>2. (head + i) % Capacity \in Slots
    BY <2>1, SlotInRange DEF TypeOK
  <2>3. CASE i = count
    BY <1>1, <2>2, <2>3 DEF RingShape, TypeOK
  <2>4. CASE i # count
    <3>1. i \in 0 .. (count - 1)
      BY <2>1, <2>4, <1>1
    <3>2. items[(head + i) % Capacity] \in Events
      BY <3>1 DEF RingShape
    <3>3. QED
      BY <1>1, <2>2, <3>2 DEF TypeOK
  <2>5. QED
    BY <2>3, <2>4
<1>7. RingShape'
  <2>1. initialized'
    BY DEF Publish
  <2>2. QED
    BY <1>5, <1>6, <2>1 DEF RingShape
<1>8. QED
  BY <1>2, <1>3, <1>4, <1>7

-----------------------------------------------------------------------------
(* Invariants of every reachable state.                                    *)

(* The initial queue satisfies all three parts.                            *)
LEMMA InitIInv == Init => TypeOK /\ RingShape /\ NoLostWakeup
<1> SUFFICES ASSUME Init PROVE TypeOK /\ RingShape /\ NoLostWakeup
  OBVIOUS
<1> USE CapacityAssumption DEF Init, QueueVarsInit
<1>1. TypeOK
  <2>1. head \in Slots /\ tail \in Slots /\ count \in 0 .. Capacity
    BY DEF Slots
  <2>2. timed \in [Receivers -> BOOLEAN] /\ initialized \in BOOLEAN
    BY Zenon
  <2>3. /\ items \in [Slots -> Events \cup {NoEvent}]
        /\ inbox \in [Receivers -> Events \cup {NoEvent}]
        /\ pc \in [Receivers -> PcValues]
    BY Zenon DEF PcValues
  <2>4. QED
    BY <2>1, <2>2, <2>3, Zenon DEF TypeOK
<1>2. RingShape
  <2>1. 0 % Capacity = 0
    BY WrapOnce
  <2>2. QED
    BY <2>1 DEF RingShape
<1>3. Blocked = {}
  BY DEF Blocked
<1>4. QED
  BY <1>1, <1>2, <1>3 DEF NoLostWakeup

(* Type correctness and ring consistency, step by step.                    *)
LEMMA RingStep ==
    TypeOK /\ RingShape /\ [Next]_vars => TypeOK' /\ RingShape'
<1> SUFFICES ASSUME TypeOK, RingShape, [Next]_vars
             PROVE  TypeOK' /\ RingShape'
  OBVIOUS
<1> USE CapacityAssumption
<1>1. CASE QueueInit
  <2>1. CASE initialized
    BY <1>1, <2>1 DEF QueueInit, TypeOK, RingShape
  <2>2. CASE ~initialized
    <3>1. TypeOK'
      BY <1>1, <2>2 DEF QueueInit, TypeOK, Slots
    <3>2. 0 % Capacity = 0
      BY WrapOnce
    <3>3. QED
      BY <1>1, <2>2, <3>1, <3>2 DEF QueueInit, RingShape
  <2>3. QED
    BY <2>1, <2>2
<1>2. ASSUME NEW e \in Events, Publish(e)
      PROVE  TypeOK' /\ RingShape'
  <2>1. pc' \in [Receivers -> PcValues]
    BY <1>2 DEF Publish, Signal, TypeOK, PcValues, Blocked
  <2>2. QED
    BY <1>2, <2>1, PublishRing DEF Publish, TypeOK
<1>3. ASSUME NEW r \in Receivers, Dequeue(r), count # 0,
             timed' \in [Receivers -> BOOLEAN]
      PROVE  TypeOK' /\ RingShape'
  <2>1. /\ items[head] \in Events /\ head' \in Slots
        /\ count' \in 0 .. Capacity /\ RingShape'
    BY <1>3, DequeueRing DEF Dequeue
  <2>2. TypeOK'
    BY <1>3, <2>1 DEF Dequeue, TypeOK, PcValues
  <2>3. QED
    BY <2>1, <2>2
<1>4. ASSUME NEW r \in Receivers, Block(r),
             timed' \in [Receivers -> BOOLEAN]
      PROVE  TypeOK' /\ RingShape'
  BY <1>4 DEF Block, TypeOK, RingShape, PcValues
<1>5. ASSUME NEW r \in Receivers, NEW t \in BOOLEAN, Receive(r, t)
      PROVE  TypeOK' /\ RingShape'
  <2>1. timed' \in [Receivers -> BOOLEAN]
    BY <1>5 DEF Receive, TypeOK
  <2>2. QED
    BY <1>3, <1>4, <1>5, <2>1 DEF Receive
<1>6. ASSUME NEW r \in Receivers, Wake(r)
      PROVE  TypeOK' /\ RingShape'
  <2>1. timed' \in [Receivers -> BOOLEAN]
    BY <1>6 DEF Wake, TypeOK
  <2>2. QED
    BY <1>3, <1>4, <1>6, <2>1 DEF Wake
<1>7. ASSUME NEW r \in Receivers, Expire(r) \/ TimedOut(r) \/ Consume(r)
      PROVE  TypeOK' /\ RingShape'
  BY <1>7 DEF Expire, TimedOut, Consume, TypeOK, RingShape, PcValues
<1>8. CASE UNCHANGED vars
  BY <1>8 DEF vars, TypeOK, RingShape
<1>9. QED
  BY <1>1, <1>2, <1>5, <1>6, <1>7, <1>8 DEF Next

(* Every step keeps enough receivers released.                             *)
LEMMA WakeupStep ==
    TypeOK /\ NoLostWakeup /\ [Next]_vars => NoLostWakeup'
<1> SUFFICES ASSUME TypeOK, NoLostWakeup, [Next]_vars
             PROVE  NoLostWakeup'
  OBVIOUS
<1>0. IsFiniteSet(Signalled) /\ Cardinality(Signalled) \in Nat
  <2>1. Signalled \in SUBSET Receivers
    BY DEF Signalled
  <2>2. QED
    BY <2>1, FS_Subset, FS_CardinalityType, ReceiversAssumption
<1>1. CASE QueueInit
  <2>1. Blocked' = Blocked /\ Signalled' = Signalled
    BY <1>1 DEF QueueInit, Blocked, Signalled
  <2>2. count' = count \/ count' = 0
    BY <1>1 DEF QueueInit
  <2>3. QED
    BY <1>0, <2>1, <2>2 DEF NoLostWakeup
<1>2. ASSUME NEW e \in Events, Publish(e) PROVE NoLostWakeup'
  <2>1. CASE Blocked = {} /\ UNCHANGED pc
    BY <2>1 DEF NoLostWakeup, Blocked
  <2>2. ASSUME NEW r \in Blocked, pc' = [pc EXCEPT ![r] = "signalled"]
        PROVE  NoLostWakeup'
    <3>1. r \in Receivers /\ pc[r] = "blocked" /\ r \notin Signalled
      BY <2>2 DEF Blocked, Signalled
    <3>2. Signalled' = Signalled \cup {r}
      BY <2>2, <3>1 DEF Signalled, TypeOK
    <3>3. Cardinality(Signalled') = Cardinality(Signalled) + 1
      BY <1>0, <3>1, <3>2, FS_AddElement
    <3>4. Cardinality(Signalled) >= count
      BY <2>2 DEF NoLostWakeup
    <3>5. count' = count + 1
      BY <1>2 DEF Publish
    <3>6. QED
      BY <1>0, <3>3, <3>4, <3>5 DEF NoLostWakeup, TypeOK
  <2>3. QED
    BY <1>2, <2>1, <2>2 DEF Publish, Signal
<1>3. ASSUME NEW r \in Receivers, Block(r), count = 0 PROVE NoLostWakeup'
  <2>1. count' = 0
    BY <1>3 DEF Block
  <2>2. Signalled' \in SUBSET Receivers
    BY DEF Signalled
  <2>3. Cardinality(Signalled') \in Nat
    BY <2>2, FS_Subset, FS_CardinalityType, ReceiversAssumption
  <2>4. QED
    BY <2>1, <2>3 DEF NoLostWakeup
<1>4. ASSUME NEW r \in Receivers, Dequeue(r), count # 0,
             pc[r] \in {"out", "signalled"}
      PROVE  NoLostWakeup'
  <2>1. Blocked' = Blocked
    BY <1>4 DEF Dequeue, Blocked, TypeOK
  <2>2. Signalled' = Signalled \ {r}
    BY <1>4 DEF Dequeue, Signalled, TypeOK
  <2>3. Cardinality(Signalled') >= Cardinality(Signalled) - 1
    BY <1>0, <2>2, FS_RemoveElement
  <2>4. count' = count - 1 /\ Cardinality(Signalled') \in Int
    <3>1. IsFiniteSet(Signalled')
      BY <1>0, <2>2, FS_RemoveElement
    <3>2. QED
      BY <1>4, <3>1, FS_CardinalityType DEF Dequeue
  <2>5. QED
    BY <1>0, <2>1, <2>3, <2>4 DEF NoLostWakeup, TypeOK
<1>5. ASSUME NEW r \in Receivers, Expire(r) \/ TimedOut(r) \/ Consume(r)
      PROVE  NoLostWakeup'
  <2>1. Signalled' = Signalled /\ count' = count
    BY <1>5 DEF Expire, TimedOut, Consume, Signalled, TypeOK
  <2>2. Blocked' \subseteq Blocked
    BY <1>5 DEF Expire, TimedOut, Consume, Blocked, TypeOK
  <2>3. QED
    BY <2>1, <2>2 DEF NoLostWakeup
<1>6. CASE UNCHANGED vars
  BY <1>6 DEF vars, NoLostWakeup, Blocked, Signalled
<1>7. ASSUME NEW r \in Receivers, NEW t \in BOOLEAN, Receive(r, t)
      PROVE  NoLostWakeup'
  BY <1>3, <1>4, <1>7 DEF Receive
<1>8. ASSUME NEW r \in Receivers, Wake(r) PROVE NoLostWakeup'
  BY <1>3, <1>4, <1>8 DEF Wake
<1>9. QED
  BY <1>1, <1>2, <1>5, <1>6, <1>7, <1>8 DEF Next

(* The counters of fc_queue.c stay consistent and every slot in use holds  *)
(* a published event, for every capacity and every number of threads.      *)
THEOREM RingCorrect == Spec => []RingConsistent
<1>1. Init => TypeOK /\ RingShape
  BY InitIInv
<1>2. RingConsistent <=> TypeOK /\ RingShape
  BY DEF RingConsistent
<1>3. QED
  BY <1>1, <1>2, RingStep, PTL DEF Spec

(* fc_queue_publish never loses a wake-up, whatever timeouts happen.       *)
THEOREM NoWakeupLost == Spec => []NoLostWakeup
<1>1. Init => TypeOK /\ RingShape /\ NoLostWakeup
  BY InitIInv
<1>2. QED
  BY <1>1, RingStep, WakeupStep, PTL DEF Spec
-----------------------------------------------------------------------------
(* The ring implements a bounded FIFO.                                     *)

(* A receiver inside fc_queue_receive holds no event.                      *)
WaitersEmpty == \A r \in Receivers : pc[r] # "out" => inbox[r] = NoEvent

LEMMA WaitersStep ==
    TypeOK /\ WaitersEmpty /\ [Next]_vars => WaitersEmpty'
<1> SUFFICES ASSUME TypeOK, WaitersEmpty, [Next]_vars PROVE WaitersEmpty'
  OBVIOUS
<1> USE DEF TypeOK, WaitersEmpty
<1>1. CASE QueueInit
  BY <1>1 DEF QueueInit
<1>2. ASSUME NEW e \in Events, Publish(e) PROVE WaitersEmpty'
  BY <1>2 DEF Publish, Signal, Blocked
<1>3. ASSUME NEW r \in Receivers, NEW t \in BOOLEAN, Receive(r, t)
      PROVE  WaitersEmpty'
  BY <1>3 DEF Receive, Block, Dequeue
<1>4. ASSUME NEW r \in Receivers, Wake(r) PROVE WaitersEmpty'
  BY <1>4 DEF Wake, Block, Dequeue
<1>5. ASSUME NEW r \in Receivers, Expire(r) \/ TimedOut(r) \/ Consume(r)
      PROVE  WaitersEmpty'
  BY <1>5 DEF Expire, TimedOut, Consume
<1>6. CASE UNCHANGED vars
  BY <1>6 DEF vars
<1>7. QED
  BY <1>1, <1>2, <1>3, <1>4, <1>5, <1>6 DEF Next

(* The ring read from head is a sequence of events of length count.        *)
LEMMA ContentsType ==
    ASSUME TypeOK, RingShape
    PROVE  /\ Contents \in Seq(Events)
           /\ Len(Contents) = count
           /\ \A i \in 1 .. count :
                Contents[i] = items[(head + i - 1) % Capacity]
<1>1. count \in Nat
  BY DEF TypeOK
<1>2. ASSUME NEW i \in 1 .. count
      PROVE  items[(head + i - 1) % Capacity] \in Events
  <2>1. i - 1 \in 0 .. (count - 1) /\ head + (i - 1) = head + i - 1
    BY <1>1, <1>2, CapacityAssumption DEF TypeOK, Slots
  <2>2. items[(head + (i - 1)) % Capacity] \in Events
    BY <2>1 DEF RingShape
  <2>3. QED
    BY <2>1, <2>2
<1>3. Contents \in [1 .. count -> Events]
  BY <1>2 DEF Contents
<1>4. QED
  BY <1>1, <1>3 DEF Contents

(* fc_queue_publish appends to the contents.                               *)
LEMMA PublishAppends ==
    ASSUME TypeOK, RingShape, NEW e \in Events, Publish(e),
           TypeOK', RingShape'
    PROVE  Contents' = Append(Contents, e)
<1>1. /\ count \in Nat /\ count < Capacity /\ count' = count + 1
      /\ head' = head /\ items' = [items EXCEPT ![tail] = e]
      /\ tail \in Slots /\ head \in Slots
  BY DEF Publish, TypeOK
<1>2. /\ Contents \in Seq(Events) /\ Len(Contents) = count
      /\ \A i \in 1 .. count : Contents[i] = items[(head + i - 1) % Capacity]
  BY ContentsType
<1>3. Contents' = [i \in 1 .. (count + 1) |->
                      items'[(head + i - 1) % Capacity]]
  BY <1>1 DEF Contents
<1>4. ASSUME NEW i \in 1 .. (count + 1)
      PROVE  items'[(head + i - 1) % Capacity] = Append(Contents, e)[i]
  <2>1. /\ i - 1 \in 0 .. count /\ i - 1 \in 0 .. Capacity
        /\ head + (i - 1) = head + i - 1
    BY <1>1, <1>4, CapacityAssumption DEF Slots
  <2>2. (head + i - 1) % Capacity \in Slots
    BY <1>1, <2>1, SlotInRange
  <2>3. CASE i = count + 1
    <3>1. head + i - 1 = head + count
      BY <1>1, <2>3, CapacityAssumption DEF Slots
    <3>2. (head + i - 1) % Capacity = tail
      BY <3>1 DEF RingShape
    <3>3. items'[tail] = e
      BY <1>1 DEF TypeOK
    <3>4. Append(Contents, e)[i] = e
      BY <1>1, <1>2, <2>3
    <3>5. QED
      BY <3>2, <3>3, <3>4
  <2>4. CASE i # count + 1
    <3>1. i - 1 \in 0 .. (count - 1) /\ count \in 0 .. (Capacity - 1)
          /\ i \in 1 .. count
      BY <1>1, <1>4, <2>4, CapacityAssumption
    <3>2. (head + i - 1) % Capacity # tail
      BY <1>1, <2>1, <3>1, SlotDistinct DEF RingShape
    <3>3. items'[(head + i - 1) % Capacity] = items[(head + i - 1) % Capacity]
      BY <1>1, <2>2, <3>2 DEF TypeOK
    <3>4. Append(Contents, e)[i] = Contents[i]
      BY <1>1, <1>2, <3>1
    <3>5. QED
      BY <1>2, <3>1, <3>3, <3>4
  <2>5. QED
    BY <2>3, <2>4
<1>5. Append(Contents, e) = [i \in 1 .. (count + 1) |-> Append(Contents, e)[i]]
  <2>1. /\ Append(Contents, e) \in Seq(Events)
        /\ Len(Append(Contents, e)) = count + 1
    BY <1>2, AppendProperties
  <2>2. Append(Contents, e) \in [1 .. (count + 1) -> Events]
    BY <2>1, LenProperties
  <2>3. QED
    BY <2>2
<1>6. QED
  BY <1>3, <1>4, <1>5

(* Handing over the head item takes the first of the contents.             *)
LEMMA DequeueTakes ==
    ASSUME TypeOK, RingShape, count # 0, NEW r \in Receivers, Dequeue(r)
    PROVE  /\ Contents # << >>
           /\ items[head] = Head(Contents)
           /\ Contents' = Tail(Contents)
<1>1. /\ count \in Nat \ {0} /\ count <= Capacity /\ count' = count - 1
      /\ head' = (head + 1) % Capacity /\ items' = items /\ head \in Slots
  BY DEF Dequeue, TypeOK
<1>2. /\ Contents \in Seq(Events) /\ Len(Contents) = count
      /\ \A i \in 1 .. count : Contents[i] = items[(head + i - 1) % Capacity]
  BY ContentsType
<1>3. Contents # << >>
  BY <1>1, <1>2
<1>4. items[head] = Head(Contents)
  <2>1. head + 1 - 1 = head /\ head \in Nat /\ head < Capacity
    BY <1>1, CapacityAssumption DEF Slots
  <2>2. head % Capacity = head
    BY <2>1, WrapOnce, CapacityAssumption
  <2>3. 1 \in 1 .. count
    BY <1>1
  <2>4. Contents[1] = items[head]
    BY <1>2, <2>1, <2>2, <2>3
  <2>5. QED
    BY <1>2, <1>3, <2>4
<1>5. Contents' = [i \in 1 .. (count - 1) |->
                      items[(((head + 1) % Capacity) + i - 1) % Capacity]]
  BY <1>1 DEF Contents
<1>6. ASSUME NEW i \in 1 .. (count - 1)
      PROVE  items[(((head + 1) % Capacity) + i - 1) % Capacity]
               = Tail(Contents)[i]
  <2>1. i - 1 \in 0 .. (Capacity - 1) /\ i + 1 \in 1 .. count
    BY <1>1, <1>6, CapacityAssumption
  <2>2. (head + 1) % Capacity \in Nat
    <3>1. 1 \in 0 .. Capacity
      BY CapacityAssumption
    <3>2. QED
      BY <1>1, <3>1, SlotInRange DEF Slots
  <2>3. ((head + 1) % Capacity) + i - 1 = ((head + 1) % Capacity) + (i - 1)
        /\ head + (i - 1) + 1 = head + (i + 1) - 1
    BY <1>1, <1>6, <2>2 DEF Slots
  <2>4. (((head + 1) % Capacity) + (i - 1)) % Capacity
          = (head + (i - 1) + 1) % Capacity
    BY <1>1, <2>1, SlotShift
  <2>5. Contents[i + 1] = items[(head + (i + 1) - 1) % Capacity]
    BY <1>2, <2>1
  <2>6. Tail(Contents)[i] = Contents[i + 1]
    BY <1>1, <1>2, <1>3, <1>6
  <2>7. QED
    BY <2>3, <2>4, <2>5, <2>6
<1>7. Tail(Contents) = [i \in 1 .. (count - 1) |-> Tail(Contents)[i]]
  <2>1. Tail(Contents) \in Seq(Events) /\ Len(Tail(Contents)) = count - 1
    BY <1>2, <1>3, HeadTailProperties
  <2>2. Tail(Contents) \in [1 .. (count - 1) -> Events]
    BY <2>1, LenProperties
  <2>3. QED
    BY <2>2
<1>8. QED
  BY <1>3, <1>4, <1>5, <1>6, <1>7

(* Every step of the ring is a step of the FIFO or changes nothing in it.  *)
LEMMA FifoStep ==
    TypeOK /\ RingShape /\ WaitersEmpty /\ [Next]_vars
        /\ TypeOK' /\ RingShape' => [Fifo!FifoNext]_(Fifo!fifoVars)
<1> SUFFICES ASSUME TypeOK, RingShape, WaitersEmpty, [Next]_vars,
                    TypeOK', RingShape'
             PROVE  [Fifo!FifoNext]_(Fifo!fifoVars)
  OBVIOUS
<1>0. Contents \in Seq(Events) /\ Len(Contents) = count
  BY ContentsType
<1>1. CASE QueueInit
  <2>1. CASE initialized
    BY <1>1, <2>1 DEF QueueInit, Contents, Fifo!fifoVars
  <2>2. CASE ~initialized
    <3>1. count = 0 /\ count' = 0 /\ inbox' = inbox
      BY <1>1, <2>2 DEF QueueInit, RingShape
    <3>2. Contents = << >>
      BY <1>0, <3>1
    <3>3. Contents' = << >>
      BY <3>1 DEF Contents
    <3>4. QED
      BY <3>1, <3>2, <3>3 DEF Fifo!fifoVars
  <2>3. QED
    BY <2>1, <2>2
<1>2. ASSUME NEW e \in Events, Publish(e) PROVE Fifo!Put(e)
  <2>1. Contents' = Append(Contents, e)
    BY <1>2, PublishAppends
  <2>2. count < Capacity /\ inbox' = inbox
    BY <1>2 DEF Publish
  <2>3. QED
    BY <1>0, <2>1, <2>2 DEF Fifo!Put
<1>3. ASSUME NEW r \in Receivers, Dequeue(r), count # 0, inbox[r] = NoEvent
      PROVE  Fifo!Take(r)
  <2>1. /\ Contents # << >> /\ items[head] = Head(Contents)
        /\ Contents' = Tail(Contents)
    BY <1>3, DequeueTakes
  <2>2. inbox' = [inbox EXCEPT ![r] = items[head]]
    BY <1>3 DEF Dequeue
  <2>3. QED
    BY <1>3, <2>1, <2>2 DEF Fifo!Take
<1>4. ASSUME UNCHANGED <<items, head, count, inbox>>
      PROVE  UNCHANGED Fifo!fifoVars
  BY <1>4 DEF Contents, Fifo!fifoVars
<1>5. ASSUME NEW r \in Receivers, NEW t \in BOOLEAN, Receive(r, t)
      PROVE  Fifo!Take(r) \/ UNCHANGED Fifo!fifoVars
  BY <1>3, <1>4, <1>5 DEF Receive, Block
<1>6. ASSUME NEW r \in Receivers, Wake(r)
      PROVE  Fifo!Take(r) \/ UNCHANGED Fifo!fifoVars
  <2>1. inbox[r] = NoEvent
    BY <1>6 DEF Wake, WaitersEmpty
  <2>2. QED
    BY <1>3, <1>4, <1>6, <2>1 DEF Wake, Block
<1>7. ASSUME NEW r \in Receivers, Expire(r) \/ TimedOut(r)
      PROVE  UNCHANGED Fifo!fifoVars
  BY <1>4, <1>7 DEF Expire, TimedOut
<1>8. ASSUME NEW r \in Receivers, Consume(r) PROVE Fifo!Consume(r)
  BY <1>8 DEF Consume, Contents, Fifo!Consume
<1>9. CASE UNCHANGED vars
  BY <1>4, <1>9 DEF vars
<1>10. QED
  BY <1>1, <1>2, <1>5, <1>6, <1>7, <1>8, <1>9 DEF Next, Fifo!FifoNext

(* fc_queue.c is a bounded FIFO channel, for every capacity, every finite  *)
(* set of receivers and every pattern of timeouts and re-initialisations.  *)
THEOREM RingIsFifo == Spec => ImplementsFifo
<1>1. Init => Fifo!FifoInit
  <2> SUFFICES ASSUME Init PROVE Fifo!FifoInit
    OBVIOUS
  <2>1. Contents = << >>
    BY DEF Init, QueueVarsInit, Contents
  <2>2. QED
    BY <2>1 DEF Init, Fifo!FifoInit
<1>2. Init => WaitersEmpty
  BY DEF Init, WaitersEmpty
<1>3. Init => TypeOK /\ RingShape
  BY InitIInv
<1>4. QED
  BY <1>1, <1>2, <1>3, RingStep, WaitersStep, FifoStep, PTL
     DEF Spec, ImplementsFifo, Fifo!FifoSpec
=============================================================================
