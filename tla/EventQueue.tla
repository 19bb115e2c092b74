----------------------------- MODULE EventQueue -----------------------------
(***************************************************************************)
(* core/fc_queue.c: the bounded event queue used twice by the runtime      *)
(* (fc_main_queue: producers -> router, fc_agent_queue: router -> agent).  *)
(*                                                                         *)
(* The state is the C structure: the ring (items, head, tail, count) and   *)
(* the initialized flag, plus what the threads inside fc_queue_receive     *)
(* are doing.  Every critical section of q->lock is one step; a receiver   *)
(* that finds the ring empty leaves the lock inside pthread_cond_wait or   *)
(* pthread_cond_timedwait, is signalled or times out, and takes the lock   *)
(* again in a later step, so that other threads run in between.            *)
(***************************************************************************)
EXTENDS Naturals, Sequences, FiniteSets

CONSTANTS
    Events,     \* fc_event_t values
    Receivers,  \* threads that call fc_queue_receive on this queue
    Capacity,   \* q->capacity
    NoEvent     \* receive buffer without an event

ASSUME CapacityAssumption == Capacity \in Nat \ {0}
ASSUME NoEventAssumption == NoEvent \notin Events
ASSUME ReceiversAssumption == IsFiniteSet(Receivers)

VARIABLES
    initialized,    \* q->initialized
    items,          \* q->items, slots 0 .. Capacity-1
    head,           \* q->head
    tail,           \* q->tail
    count,          \* q->count
    pc,             \* pc[r]: where receiver r is in fc_queue_receive
    timed,          \* timed[r]: its timeout_ms is >= 0
    inbox           \* inbox[r]: *ev, the event it was handed

vars == <<initialized, items, head, tail, count, pc, timed, inbox>>

Slots == 0 .. (Capacity - 1)

(* A receiver is outside the call, blocked on the condition variable, or   *)
(* released from it (by a signal or by the timeout) and about to take      *)
(* q->lock again.                                                          *)
PcValues == {"out", "blocked", "signalled", "expired"}

Blocked == {r \in Receivers : pc[r] = "blocked"}
Signalled == {r \in Receivers : pc[r] = "signalled"}

QueueVarsInit ==
    /\ initialized = FALSE
    /\ items = [i \in Slots |-> NoEvent]
    /\ head = 0
    /\ tail = 0
    /\ count = 0

Init ==
    /\ QueueVarsInit
    /\ pc = [r \in Receivers |-> "out"]
    /\ timed = [r \in Receivers |-> FALSE]
    /\ inbox = [r \in Receivers |-> NoEvent]

-----------------------------------------------------------------------------
(* Mutant of QueueInit: the initialized check is dropped, so the call      *)
(* empties a live queue.                                                   *)
QueueInit_Reinit ==
    /\ initialized' \in BOOLEAN
    /\ items' = [i \in Slots |-> NoEvent]
    /\ head' = 0
    /\ tail' = 0
    /\ count' = 0
    /\ UNCHANGED <<pc, timed, inbox>>

(* fc_queue_init.  A second call on a live queue returns at once: the      *)
(* self-test makes that call on the running agent queue.  calloc or the    *)
(* pthread initialisers may fail and leave the queue unusable.             *)
QueueInit ==
    /\ \/ initialized /\ UNCHANGED <<initialized, items, head, tail, count>>
       \/ /\ ~initialized
          /\ initialized' \in BOOLEAN
          /\ items' = [i \in Slots |-> NoEvent]
          /\ head' = 0
          /\ tail' = 0
          /\ count' = 0
    /\ UNCHANGED <<pc, timed, inbox>>

(* Mutants of Signal: the wake-up only on the empty to non-empty           *)
(* transition, and no wake-up at all.                                      *)
Signal_WhenEmptyOnly ==
    \/ (Blocked = {} \/ count # 0) /\ UNCHANGED pc
    \/ count = 0 /\ \E r \in Blocked : pc' = [pc EXCEPT ![r] = "signalled"]

Signal_Never == UNCHANGED pc

(* pthread_cond_signal: one blocked receiver, if any, is released.         *)
Signal ==
    \/ Blocked = {} /\ UNCHANGED pc
    \/ \E r \in Blocked : pc' = [pc EXCEPT ![r] = "signalled"]

(* fc_queue_publish, when the queue takes the event.  The refusals         *)
(* (-EINVAL before initialisation, -ENOSPC on a full ring) change nothing. *)
Publish(e) ==
    /\ initialized
    /\ count < Capacity
    /\ items' = [items EXCEPT ![tail] = e]
    /\ tail' = (tail + 1) % Capacity
    /\ count' = count + 1
    /\ Signal
    /\ UNCHANGED <<initialized, head, timed, inbox>>

(* Mutant of Dequeue: count-- is forgotten when the ring wraps.            *)
Dequeue_WrapKeepsCount(r) ==
    /\ inbox' = [inbox EXCEPT ![r] = items[head]]
    /\ head' = (head + 1) % Capacity
    /\ count' = IF head + 1 = Capacity THEN count ELSE count - 1
    /\ pc' = [pc EXCEPT ![r] = "out"]
    /\ UNCHANGED <<initialized, items, tail>>

(* The last lines of fc_queue_receive: hand over the oldest item.          *)
Dequeue(r) ==
    /\ inbox' = [inbox EXCEPT ![r] = items[head]]
    /\ head' = (head + 1) % Capacity
    /\ count' = count - 1
    /\ pc' = [pc EXCEPT ![r] = "out"]
    /\ UNCHANGED <<initialized, items, tail>>

(* The body of the while loop: release q->lock inside the cond wait.       *)
Block(r) ==
    /\ pc' = [pc EXCEPT ![r] = "blocked"]
    /\ UNCHANGED <<initialized, items, head, tail, count, inbox>>

(* fc_queue_receive entered with q->lock free.                             *)
Receive(r, withTimeout) ==
    /\ initialized
    /\ pc[r] = "out"
    /\ inbox[r] = NoEvent
    /\ timed' = [timed EXCEPT ![r] = withTimeout]
    /\ \/ count = 0 /\ Block(r)
       \/ count # 0 /\ Dequeue(r)

(* The cond wait returned 0: the loop condition is evaluated again, so a   *)
(* receiver that was overtaken blocks again (with a fresh deadline).       *)
Wake(r) ==
    /\ pc[r] = "signalled"
    /\ UNCHANGED timed
    /\ \/ count = 0 /\ Block(r)
       \/ count # 0 /\ Dequeue(r)

(* The deadline of pthread_cond_timedwait passes before any signal.        *)
Expire(r) ==
    /\ pc[r] = "blocked"
    /\ timed[r]
    /\ pc' = [pc EXCEPT ![r] = "expired"]
    /\ UNCHANGED <<initialized, items, head, tail, count, timed, inbox>>

(* -ETIMEDOUT is returned without looking at count again.                  *)
TimedOut(r) ==
    /\ pc[r] = "expired"
    /\ pc' = [pc EXCEPT ![r] = "out"]
    /\ UNCHANGED <<initialized, items, head, tail, count, timed, inbox>>

(* The caller is done with the event and may call again.                   *)
Consume(r) ==
    /\ pc[r] = "out"
    /\ inbox[r] # NoEvent
    /\ inbox' = [inbox EXCEPT ![r] = NoEvent]
    /\ UNCHANGED <<initialized, items, head, tail, count, pc, timed>>

Next ==
    \/ QueueInit
    \/ \E e \in Events : Publish(e)
    \/ \E r \in Receivers :
        \/ \E t \in BOOLEAN : Receive(r, t)
        \/ Wake(r)
        \/ Expire(r)
        \/ TimedOut(r)
        \/ Consume(r)

Spec == Init /\ [][Next]_vars

(* The kernel lets a released thread take the mutex again, and each worker *)
(* loop finishes its event and calls fc_queue_receive again.  No timeout   *)
(* needs to fire.                                                          *)
Fairness ==
    \A r \in Receivers :
        /\ WF_vars(Wake(r))
        /\ WF_vars(TimedOut(r))
        /\ WF_vars(Consume(r))
        /\ WF_vars(\E t \in BOOLEAN : Receive(r, t))

FairSpec == Spec /\ Fairness
-----------------------------------------------------------------------------
(* Type invariant of the C structure and of the receivers.                 *)
TypeOK ==
    /\ initialized \in BOOLEAN
    /\ items \in [Slots -> Events \cup {NoEvent}]
    /\ head \in Slots
    /\ tail \in Slots
    /\ count \in 0 .. Capacity
    /\ pc \in [Receivers -> PcValues]
    /\ timed \in [Receivers -> BOOLEAN]
    /\ inbox \in [Receivers -> Events \cup {NoEvent}]

RingShape ==
    /\ tail = (head + count) % Capacity
    /\ ~initialized => count = 0
    /\ \A i \in 0 .. (count - 1) : items[(head + i) % Capacity] \in Events

(* The three ring counters of fc_queue.c stay in range and never drift     *)
(* apart, and every slot between head and tail holds a published event.    *)
RingConsistent == TypeOK /\ RingShape

(* fc_queue_publish signals once per event and never broadcasts, and the   *)
(* timeout path returns without looking at count.  Still no wake-up is     *)
(* lost: while a receiver stays blocked on a queue that holds events, at   *)
(* least as many receivers are already released to fetch them.             *)
NoLostWakeup ==
    Blocked # {} => Cardinality(Signalled) >= count

(* A full queue is not full for good: as long as the workers keep calling  *)
(* fc_queue_receive, a publisher that met -ENOSPC finds room later.        *)
FullQueueDrains == count = Capacity ~> count < Capacity

-----------------------------------------------------------------------------
(* Refinement: the ring read from head is the abstract queue.              *)
Contents == [i \in 1 .. count |-> items[(head + i - 1) % Capacity]]

Fifo == INSTANCE BoundedFifo WITH queue <- Contents

(* The ring buffer with its condition variable is a bounded FIFO channel:  *)
(* events leave in publication order, none twice and none overwritten.     *)
ImplementsFifo == Fifo!FifoSpec
=============================================================================
