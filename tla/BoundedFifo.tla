----------------------------- MODULE BoundedFifo -----------------------------
(***************************************************************************)
(* What an event queue of core/fc_queue.c promises its callers: a bounded  *)
(* first-in first-out channel.  A publisher's event is appended or refused *)
(* (a refusal changes nothing); a receiver that gets an event gets the     *)
(* oldest one, and gets it alone.  Nothing is said about rings, locks or   *)
(* condition variables: EventQueue implements this module.                 *)
(***************************************************************************)
EXTENDS Naturals, Sequences

CONSTANTS
    Events,     \* what is queued (fc_event_t)
    Receivers,  \* threads that call fc_queue_receive
    Capacity,   \* CONFIG_FRUITCLAW_MAX_EVENT_QUEUE
    NoEvent     \* a receive buffer that holds nothing

VARIABLES
    queue,      \* the queued events, oldest first
    inbox       \* inbox[r]: the event receiver r was handed and still holds

fifoVars == <<queue, inbox>>

FifoInit ==
    /\ queue = << >>
    /\ inbox = [r \in Receivers |-> NoEvent]

Put(e) ==
    /\ Len(queue) < Capacity
    /\ queue' = Append(queue, e)
    /\ UNCHANGED inbox

Take(r) ==
    /\ queue # << >>
    /\ inbox[r] = NoEvent
    /\ inbox' = [inbox EXCEPT ![r] = Head(queue)]
    /\ queue' = Tail(queue)

Consume(r) ==
    /\ inbox[r] # NoEvent
    /\ inbox' = [inbox EXCEPT ![r] = NoEvent]
    /\ UNCHANGED queue

FifoNext ==
    \/ \E e \in Events : Put(e)
    \/ \E r \in Receivers : Take(r) \/ Consume(r)

FifoSpec == FifoInit /\ [][FifoNext]_fifoVars
=============================================================================
