------------------------------ MODULE Mailbox ------------------------------
(***************************************************************************)
(* What the path from fc_telegram_poll_once to fc_agent_thread_main        *)
(* promises within one boot, without queues, threads, offsets or polls:    *)
(* messages are accepted in the order of their ids, each at most once; the *)
(* agent answers the oldest message that waits; a message that is not      *)
(* answered is lost at one place that says so.  Inbound implements this    *)
(* module.                                                                 *)
(***************************************************************************)
EXTENDS Integers

CONSTANT
    Messages    \* message ids, numbers

VARIABLES
    accepted,   \* messages taken in since the start
    answered,   \* messages the agent finished
    lost        \* messages given up and counted

mailVars == <<accepted, answered, lost>>

(* Accepted messages that nothing has happened to yet.                     *)
Waiting == accepted \ (answered \cup lost)

MailInit == accepted = {} /\ answered = {} /\ lost = {}

Accept(m) ==
    /\ \A n \in accepted : n < m
    /\ accepted' = accepted \cup {m}
    /\ UNCHANGED <<answered, lost>>

Answer(m) ==
    /\ m \in Waiting
    /\ \A n \in Waiting \ {m} : m < n
    /\ answered' = answered \cup {m}
    /\ UNCHANGED <<accepted, lost>>

Lose(m) ==
    /\ m \in Waiting
    /\ lost' = lost \cup {m}
    /\ UNCHANGED <<accepted, answered>>

(* The board is reset: what was in RAM is forgotten.                       *)
Restart == accepted' = {} /\ answered' = {} /\ lost' = {}

MailNext ==
    \/ \E m \in Messages : Accept(m) \/ Answer(m) \/ Lose(m)
    \/ Restart

MailSpec == MailInit /\ [][MailNext]_mailVars
=============================================================================
