------------------------------ MODULE Inbound ------------------------------
(***************************************************************************)
(* The path of an incoming message: net/fc_telegram.c polls getUpdates and *)
(* keeps the update offset in RAM and in a file, core/fc_router.c moves    *)
(* events from the main queue to the agent queue, core/fc_agent.c answers  *)
(* them.  Scheduler jobs and injected texts share the main queue.  The     *)
(* board may be reset at any step: RAM is lost, the offset file and the    *)
(* updates Telegram has not seen confirmed survive.                        *)
(*                                                                         *)
(* Both queues are used through what they promise (BoundedFifo, which      *)
(* EventQueue implements).  An update is its update_id.                    *)
(***************************************************************************)
EXTENDS Integers, Sequences, Functions

CONSTANTS
    MaxUpdate,      \* updates 1 .. MaxUpdate are sent by users (bound)
    Ignorable,      \* those without text or from a chat that is not allowed
    MainCapacity,   \* CONFIG_FRUITCLAW_MAX_EVENT_QUEUE
    AgentCapacity,  \* the same, for fc_agent_queue
    BodyMax,        \* updates that fit CONFIG_FRUITCLAW_MAX_HTTP_BODY
    MaxResets,      \* bound on the resets of a behaviour
    MaxJobs,        \* bound on jobs and injected texts of a behaviour
    SelfTest,       \* TRUE when `fruitclaw selftest` is run on the live system
    Job,            \* an event that is not a Telegram update
    Probe,          \* the self-test's event
    NoEvent

Updates == 1 .. MaxUpdate
Events == Updates \cup {Job, Probe}

ASSUME InboundAssumption ==
    /\ MaxUpdate \in Nat /\ Ignorable \subseteq Updates
    /\ MainCapacity \in Nat \ {0} /\ AgentCapacity \in Nat \ {0}
    /\ BodyMax \in Nat /\ MaxResets \in Nat /\ MaxJobs \in Nat
    /\ SelfTest \in BOOLEAN
    /\ NoEvent \notin Events /\ Job \notin Updates /\ Probe \notin Updates
    /\ Job # Probe

VARIABLES
    sent,       \* Telegram: updates 1 .. sent exist
    confirmed,  \* Telegram: updates below this id are forgotten
    disk,       \* the offset file; 0 when it does not exist
    readable,   \* whether the offset file can be read since the last reset
    offset,     \* g_update_offset; -1 before it is loaded
    batch,      \* updates of the current response still to be handled
    poll,       \* poll thread: "idle", "handle" or "ack"
    mainQ,      \* fc_main_queue
    routerIn,   \* the event the router thread holds
    agentQ,     \* fc_agent_queue
    agentIn,    \* the event the agent, or the self-test, holds
    test,       \* the self-test's routing check: "idle" or "routed"
    taken,      \* updates ever put on the main queue
    here,       \* updates put on the main queue since the last reset
    answered,   \* updates the agent finished since the last reset
    failed,     \* updates counted by g_router_failed_count since the reset
    stolen,     \* updates the self-test took since the last reset
    jobs,       \* jobs and injected texts published so far
    resets      \* resets so far

server == <<sent, confirmed>>
pollVars == <<disk, readable, offset, batch, poll>>
mainVars == <<mainQ, routerIn>>
agentVars == <<agentQ, agentIn>>
history == <<taken, here, answered, failed, stolen, jobs, resets>>
vars == <<server, pollVars, mainVars, agentVars, test, history>>

Main == INSTANCE BoundedFifo WITH queue <- mainQ, inbox <- routerIn,
            Receivers <- {"router"}, Capacity <- MainCapacity
Agent == INSTANCE BoundedFifo WITH queue <- agentQ, inbox <- agentIn,
            Receivers <- {"agent", "selftest"}, Capacity <- AgentCapacity

RamInit ==
    /\ offset = -1 /\ batch = << >> /\ poll = "idle"
    /\ Main!FifoInit
    /\ Agent!FifoInit
    /\ test = "idle"
    /\ here = {} /\ answered = {} /\ failed = {} /\ stolen = {}

Init ==
    /\ sent = 0 /\ confirmed = 1 /\ disk = 0 /\ readable \in BOOLEAN
    /\ RamInit
    /\ taken = {} /\ jobs = 0 /\ resets = 0
-----------------------------------------------------------------------------
(* Telegram: a user sends the next update.                                 *)
UserSends ==
    /\ sent < MaxUpdate
    /\ sent' = sent + 1
    /\ UNCHANGED <<confirmed, pollVars, mainVars, agentVars, test, history>>

(* Mutant of LoadedOffset: the saved offset is not read back.              *)
LoadedOffset_NotRestored == IF offset < 0 THEN 0 ELSE offset

(* fc_telegram_load_offset, done by the first poll after a start; 0 when   *)
(* the file cannot be read.                                                *)
LoadedOffset ==
    CASE offset >= 0 -> offset
      [] offset < 0 /\ readable -> disk
      [] offset < 0 /\ ~readable -> 0

(* getUpdates with an offset: Telegram forgets what is below it and        *)
(* returns the rest, oldest first.                                         *)
Larger(a, b) == IF a > b THEN a ELSE b
Pending(from) == [i \in 1 .. (sent - from + 1) |-> from + i - 1]

(* fc_telegram_poll_once up to the parsed response.  A request that fails, *)
(* an HTTP error or a body that does not fit the buffer (-ENOSPC) leaves   *)
(* everything but the loaded offset as it is.                              *)
PollOnce ==
    /\ poll = "idle"
    /\ offset' = LoadedOffset
    /\ LET from == Larger(confirmed, LoadedOffset) IN
        \/ /\ confirmed' = from
           /\ sent - from + 1 <= BodyMax
           /\ batch' = Pending(from)
           /\ poll' = "handle"
        \/ /\ confirmed' \in {confirmed, from}
           /\ UNCHANGED <<batch, poll>>
    /\ UNCHANGED <<sent, disk, readable, mainVars, agentVars, test, history>>

(* Mutant of QueueFull: the update is acknowledged although it was lost.   *)
QueueFull_Acknowledged ==
    /\ Len(mainQ) >= MainCapacity
    /\ poll' = "ack"
    /\ UNCHANGED <<batch, mainVars, taken, here>>

(* fc_telegram_should_ack_offset(ignorable, publish_ret): what happens to  *)
(* an update that meets a full main queue.  It is not acknowledged, and    *)
(* the loop goes on with the next one.                                     *)
QueueFull ==
    /\ Len(mainQ) >= MainCapacity
    /\ batch' = Tail(batch)
    /\ UNCHANGED <<poll, mainVars, taken, here>>

(* fc_telegram_handle_update on the next update of the response, up to the *)
(* result of fc_queue_publish.                                             *)
HandleUpdate ==
    /\ poll = "handle" /\ batch # << >>
    /\ LET u == Head(batch) IN
        \/ /\ u \in Ignorable
           /\ poll' = "ack"
           /\ UNCHANGED <<batch, mainVars, taken, here>>
        \/ /\ u \notin Ignorable
           /\ Main!Put(u)
           /\ taken' = taken \cup {u}
           /\ here' = here \cup {u}
           /\ poll' = "ack"
           /\ UNCHANGED batch
        \/ u \notin Ignorable /\ QueueFull
    /\ UNCHANGED <<server, disk, readable, offset, agentVars, test, answered,
                   failed, stolen, jobs, resets>>

(* Mutants of AckOffset: the offset in RAM does not follow the file, and   *)
(* the offset points one past the update after this one.                   *)
AckOffset_FileOnly ==
    /\ poll = "ack"
    /\ disk' = Larger(disk, Head(batch) + 1)
    /\ batch' = Tail(batch)
    /\ poll' = "handle"
    /\ UNCHANGED <<server, readable, offset, mainVars, agentVars, test,
                   history>>

AckOffset_OffByOne ==
    /\ poll = "ack"
    /\ offset' = Head(batch) + 2 /\ disk' = Head(batch) + 2
    /\ batch' = Tail(batch)
    /\ poll' = "handle"
    /\ UNCHANGED <<server, readable, mainVars, agentVars, test, history>>

(* fc_telegram_ack_offset.  The save may fail; its result is not looked at. *)
AckOffset ==
    /\ poll = "ack"
    /\ LET next == Head(batch) + 1 IN
        IF next > offset
        THEN offset' = next /\ disk' \in {disk, next}
        ELSE UNCHANGED <<offset, disk>>
    /\ batch' = Tail(batch)
    /\ poll' = "handle"
    /\ UNCHANGED <<server, readable, mainVars, agentVars, test, history>>

PollDone ==
    /\ poll = "handle" /\ batch = << >>
    /\ poll' = "idle"
    /\ UNCHANGED <<server, disk, readable, offset, batch, mainVars, agentVars,
                   test, history>>

(* fc_scheduler_emit and fc_telegram_inject_text use the same main queue.  *)
PublishJob ==
    /\ jobs < MaxJobs
    /\ Main!Put(Job)
    /\ jobs' = jobs + 1
    /\ UNCHANGED <<server, pollVars, agentVars, test, taken, here, answered,
                   failed, stolen, resets>>
-----------------------------------------------------------------------------
(* fc_router_thread_main.                                                  *)
RouterReceive ==
    /\ Main!Take("router")
    /\ UNCHANGED <<server, pollVars, agentVars, test, history>>

(* Mutants of RouteEvent: a lost event is not counted, and Telegram events *)
(* match none of the routes.                                               *)
RouteEvent_Uncounted ==
    LET e == routerIn["router"] IN
        /\ Main!Consume("router")
        /\ \/ Agent!Put(e)
           \/ Len(agentQ) >= AgentCapacity /\ UNCHANGED agentVars
        /\ UNCHANGED <<server, pollVars, test, history>>

RouteEvent_NoTelegramRoute ==
    LET e == routerIn["router"] IN
        /\ Main!Consume("router")
        /\ IF e \in Updates THEN UNCHANGED agentVars ELSE Agent!Put(e)
        /\ UNCHANGED <<server, pollVars, test, history>>

(* fc_router_route_event: a full agent queue loses the event, and          *)
(* fc_router_record counts it.                                             *)
RouteEvent ==
    LET e == routerIn["router"] IN
        /\ Main!Consume("router")
        /\ \/ Agent!Put(e) /\ UNCHANGED failed
           \/ /\ Len(agentQ) >= AgentCapacity
              /\ failed' = failed \cup ({e} \cap Updates)
              /\ UNCHANGED agentVars
        /\ UNCHANGED <<server, pollVars, test, taken, here, answered, stolen,
                       jobs, resets>>

(* fc_agent_thread_main: receive, then handle and reply.                   *)
AgentReceive ==
    /\ Agent!Take("agent")
    /\ UNCHANGED <<server, pollVars, mainVars, test, history>>

AgentReply ==
    /\ Agent!Consume("agent")
    /\ answered' = answered \cup ({agentIn["agent"]} \cap Updates)
    /\ UNCHANGED <<server, pollVars, mainVars, test, taken, here, failed,
                   stolen, jobs, resets>>

(* fc_selftest: fc_router_route_event puts a probe on the live agent       *)
(* queue, or fails, and a receive with a short timeout follows either way. *)
SelfTestRoute ==
    /\ SelfTest /\ test = "idle"
    /\ test' = "routed"
    /\ \/ Agent!Put(Probe)
       \/ Len(agentQ) >= AgentCapacity /\ UNCHANGED agentVars
    /\ UNCHANGED <<server, pollVars, mainVars, history>>

SelfTestReceive ==
    /\ test = "routed"
    /\ Agent!Take("selftest")
    /\ stolen' = stolen \cup ({Head(agentQ)} \cap Updates)
    /\ UNCHANGED <<server, pollVars, mainVars, test, taken, here, answered,
                   failed, jobs, resets>>

SelfTestDone ==
    /\ test = "routed"
    /\ test' = "idle"
    /\ \/ Agent!Consume("selftest")
       \/ /\ agentQ = << >> /\ agentIn["selftest"] = NoEvent
          /\ UNCHANGED agentVars
    /\ UNCHANGED <<server, pollVars, mainVars, history>>

(* The board is reset: only Telegram's state and the offset file survive.  *)
Reset ==
    /\ resets < MaxResets
    /\ resets' = resets + 1
    /\ readable' \in BOOLEAN
    /\ offset' = -1 /\ batch' = << >> /\ poll' = "idle"
    /\ mainQ' = << >> /\ routerIn' = [r \in {"router"} |-> NoEvent]
    /\ agentQ' = << >> /\ agentIn' = [r \in {"agent", "selftest"} |-> NoEvent]
    /\ test' = "idle"
    /\ here' = {} /\ answered' = {} /\ failed' = {} /\ stolen' = {}
    /\ UNCHANGED <<server, disk, taken, jobs>>

Next ==
    \/ UserSends \/ PollOnce \/ HandleUpdate \/ AckOffset \/ PollDone
    \/ PublishJob \/ RouterReceive \/ RouteEvent \/ AgentReceive \/ AgentReply
    \/ SelfTestRoute \/ SelfTestReceive \/ SelfTestDone \/ Reset

Spec == Init /\ [][Next]_vars

(* The poll, router and agent threads run, and polls that can succeed do   *)
(* so now and then.  That polls are made at all is OwnerNotify's           *)
(* PollerKeepsPolling: the poll thread skips them as long as notices are   *)
(* pending, so what follows is for an owner who is not sent notices        *)
(* without end and a transport that has worked once.                       *)
Fairness ==
    /\ SF_vars(PollOnce /\ poll' = "handle")
    /\ WF_vars(HandleUpdate) /\ WF_vars(AckOffset) /\ WF_vars(PollDone)
    /\ WF_vars(RouterReceive) /\ WF_vars(RouteEvent)
    /\ WF_vars(AgentReceive) /\ WF_vars(AgentReply)

FairSpec == Spec /\ Fairness
-----------------------------------------------------------------------------
(* Type invariant.                                                         *)
TypeOK ==
    /\ sent \in 0 .. MaxUpdate /\ confirmed \in 1 .. (MaxUpdate + 1)
    /\ readable \in BOOLEAN
    /\ disk \in 0 .. (MaxUpdate + 1) /\ offset \in -1 .. (MaxUpdate + 1)
    /\ batch \in Seq(Updates) /\ poll \in {"idle", "handle", "ack"}
    /\ mainQ \in Seq(Events) /\ Len(mainQ) <= MainCapacity
    /\ agentQ \in Seq(Events) /\ Len(agentQ) <= AgentCapacity
    /\ routerIn \in [{"router"} -> Events \cup {NoEvent}]
    /\ agentIn \in [{"agent", "selftest"} -> Events \cup {NoEvent}]
    /\ test \in {"idle", "routed"}
    /\ taken \subseteq Updates /\ here \subseteq taken
    /\ answered \subseteq here /\ failed \subseteq here
    /\ stolen \subseteq here
    /\ jobs \in 0 .. MaxJobs /\ resets \in 0 .. MaxResets

(* The events on their way to the agent, oldest first.                     *)
Held(inbox, r) == IF inbox[r] = NoEvent THEN << >> ELSE <<inbox[r]>>
Pipeline ==
    Held(agentIn, "agent") \o agentQ \o Held(routerIn, "router") \o mainQ

(* Between two resets no update is handed to the agent twice or out of     *)
(* order, although an unacknowledged update is polled again and jobs are   *)
(* queued in between.                                                      *)
PipelineOrdered ==
    LET line == Pipeline
        at == {i \in 1 .. Len(line) : line[i] \in Updates}
    IN  /\ \A i, j \in at : i < j => line[i] < line[j]
        /\ \A u \in answered, i \in at : u < line[i]

(* The offset never comes to rest behind an update that could not be       *)
(* queued: the update it acknowledges last was taken or is ignorable       *)
(* (fc_selftest.c: "telegram offset holds queue failure").                 *)
OffsetHoldsAtFailure ==
    \A o \in {offset, disk} : o > 1 => (o - 1) \in taken \cup Ignorable

(* What a readable offset file acknowledges is not queued again, whatever  *)
(* resets happen between fc_queue_publish, the save and the next poll.     *)
NoReplayAfterSave ==
    [][readable => \A u \in here' \ here : u >= disk]_vars

(* Every update that entered the main queue since the last reset is in     *)
(* exactly one place: on its way, answered, counted as failed by           *)
(* fc_router_record, or taken by the self-test.  None vanishes uncounted.  *)
LossesCounted ==
    LET line == Range(Pipeline) \cap Updates IN
        /\ here = line \cup answered \cup failed \cup stolen
        /\ line \cap (answered \cup failed \cup stolen) = {}
        /\ answered \cap (failed \cup stolen) = {}
        /\ failed \cap stolen = {}

(* What Telegram would return now fits the response buffer.                *)
BacklogFits == sent - Larger(confirmed, LoadedOffset) + 1 <= BodyMax

(* No update stays unhandled: it is answered, counted as failed, ignored,  *)
(* taken by the self-test, passed over by the offset and so forgotten by   *)
(* Telegram, or was in RAM when the board was reset.  The one exception is *)
(* a backlog that has outgrown the response buffer for good:               *)
(* fc_telegram_poll_once then fails with -ENOSPC and asks for the same     *)
(* updates again, for ever.                                                *)
UpdateResolved ==
    []<>BacklogFits => \A u \in Updates :
        u <= sent ~> \/ u \in answered \cup failed \cup stolen \cup Ignorable
                     \/ u < confirmed /\ u \notin taken
                     \/ u \in taken \ here

(* "telegram offset holds queue failure": an allowed message that is below *)
(* the offset was queued.                                                  *)
AcknowledgedWereQueued ==
    \A u \in Updates \ Ignorable : u < offset => u \in taken

(* What the parts do together, seen from outside: between two resets the   *)
(* queues, offsets and repeated polls amount to a mailbox that accepts     *)
(* updates in order and once, answers the oldest, and loses one only where *)
(* fc_router_record or the self-test accounts for it.                      *)
Mail == INSTANCE Mailbox WITH Messages <- Updates, accepted <- here,
            lost <- failed \cup stolen
ImplementsMailbox == Mail!MailSpec
=============================================================================
