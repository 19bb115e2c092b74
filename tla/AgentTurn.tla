------------------------------ MODULE AgentTurn ------------------------------
(***************************************************************************)
(* The agent's turn (core/fc_agent.c with net/fc_deepseek.c) among the     *)
(* other users of the HTTP lane and the watchdog guard: the Telegram poll  *)
(* and notify threads and the MCP server's tool calls.                     *)
(*                                                                         *)
(* Texts, messages and tool results are abstracted to what decides where   *)
(* the turn goes next.  There is one turn at a time, the worker's: the     *)
(* command "fruitclaw once" and the self-test, which call                  *)
(* fc_agent_handle_event on threads of their own, are left out.            *)
(***************************************************************************)
EXTENDS HttpLane

CONSTANTS
    Agent,         \* the agent's thread
    Telegram,      \* the poll and notify threads of net/fc_telegram.c
    Mcp,           \* threads of the MCP server
    MaxIterations, \* CONFIG_FRUITCLAW_MAX_TOOL_ITERATIONS
    MaxCalls,      \* bound on the tool calls of one LLM message
    Builds         \* configurations: subsets of {"isolated", "agent-guard"}

ASSUME TurnAssumption ==
    /\ Agent \notin Telegram \cup Mcp
    /\ Threads = {Agent} \cup Telegram \cup Mcp
    /\ MaxIterations \in Nat \ {0} /\ MaxCalls \in Nat \ {0}
    /\ Builds \subseteq SUBSET {"isolated", "agent-guard"}

VARIABLES
    build,   \* "isolated": TELEGRAM_HTTP_GUARD_TIMEOUT_MS = 0,
             \* "agent-guard": AGENT_GUARD_TIMEOUT_MS > 0
    turn,    \* where the agent's thread is
    round,   \* requests made to the LLM in this turn
    calls,   \* tool calls of the last message still to be made
    reply,   \* reply[0] != 0
    pending  \* g_agent_events_started - g_agent_events_done

turnVars == <<turn, round, calls, reply, pending>>
vars == <<laneVars, build, turnVars>>

Init ==
    /\ LaneInit
    /\ build \in Builds
    /\ turn = "wait" /\ round = 0 /\ calls = 0 /\ reply = FALSE /\ pending = 0

Isolated == "isolated" \in build
AgentGuard == "agent-guard" \in build
-----------------------------------------------------------------------------
(* fc_telegram_http_get and fc_telegram_http_post_json.                    *)
TelegramCall(p) == Begin(p, ~Isolated, ~Isolated) \/ Refused(p)

(* A poll or a notice of a Telegram thread, and its end.                   *)
TelegramThread(p) ==
    /\ Up
    /\ \/ TelegramCall(p)
       \/ pc[p] \in {"ok", "fail"} /\ Consume(p)
    /\ UNCHANGED <<build, turnVars>>

(* cap_http_request and fc_tool_guard_arm for a context that says guarded  *)
(* or not.  Not among the local tools: a Berry script, which calls         *)
(* http.request under the short guard of its caller.                       *)
HttpTool(p, guarded) == Begin(p, TRUE, ~guarded)
LocalTool(p, guarded) == Begin(p, FALSE, ~guarded)

(* Tools that may block and take no guard of their own: service.control,   *)
(* which runs a command, and device.read.  An MCP call wraps both into its *)
(* outer guard, the agent does not.                                        *)
OpenTool(p) == Begin(p, FALSE, FALSE)

(* telegram.send to a chat; of an MCP client it only queues a notice.      *)
SendTool(p) == TelegramCall(p)

(* fc_mcp_tools_call: a tool takes its own guard, or the call takes one    *)
(* around it, for OpenTool too.                                            *)
McpThread(p) ==
    /\ Up
    /\ \/ HttpTool(p, FALSE) \/ LocalTool(p, FALSE)
       \/ pc[p] \in {"ok", "fail"} /\ Consume(p)
    /\ UNCHANGED <<build, turnVars>>
-----------------------------------------------------------------------------
(* fc_agent_handle_event, with fc_agent_record_event_start.                *)

(* fc_agent_record_event_done; the reply is then sent.                     *)
Done(text) ==
    /\ pending' = pending - 1
    /\ reply' = text
    /\ turn' = "reply"

(* An event arrives.                                                       *)
TurnStart ==
    /\ Up /\ turn = "wait"
    /\ turn' = "start" /\ pending' = pending + 1 /\ reply' = FALSE
    /\ round' = 0 /\ calls' = 0
    /\ UNCHANGED <<laneVars, build>>

(* fc_agent_try_direct_scheduler_reply, and a scheduled tool without name. *)
TurnDirect ==
    /\ Up /\ turn = "start"
    /\ Done(TRUE)
    /\ UNCHANGED <<laneVars, build, round, calls>>

(* fc_agent_try_direct_scheduler_tool: the context says guarded, although  *)
(* the turn has no guard yet.  telegram.send does not look at it.          *)
TurnScheduledTool ==
    /\ Up /\ turn = "start"
    /\ turn' = "scheduled"
    /\ \/ HttpTool(Agent, TRUE) \/ LocalTool(Agent, TRUE) \/ OpenTool(Agent)
       \/ SendTool(Agent) \/ Refused(Agent)
    /\ UNCHANGED <<build, round, calls, reply, pending>>

TurnScheduledDone ==
    /\ Up /\ turn = "scheduled" /\ pc[Agent] \in {"ok", "fail"}
    /\ Consume(Agent) /\ Done(TRUE)
    /\ UNCHANGED <<build, round, calls>>

(* Mutant of TurnNoMemory: the early return forgets the record.            *)
TurnNoMemory_Unrecorded ==
    /\ Up /\ turn = "start"
    /\ turn' = "wait"
    /\ UNCHANGED <<laneVars, build, round, calls, reply, pending>>

(* No memory for the context or the messages: no reply either.             *)
TurnNoMemory ==
    /\ Up /\ turn = "start"
    /\ turn' = "wait" /\ pending' = pending - 1
    /\ UNCHANGED <<laneVars, build, round, calls, reply>>

(* The guard of the whole turn, in builds that have one.                   *)
TurnGuard ==
    /\ Up /\ turn = "start"
    /\ \/ /\ ~AgentGuard
          /\ turn' = "llm"
          /\ UNCHANGED <<guard, reply, pending>>
       \/ /\ AgentGuard /\ guard = None
          /\ guard' = Agent /\ turn' = "llm"
          /\ UNCHANGED <<reply, pending>>
       \/ /\ AgentGuard
          /\ Done(TRUE)
          /\ UNCHANGED guard
    /\ UNCHANGED <<lane, pc, call, board, build, round, calls>>

(* fc_deepseek_chat up to its request.                                     *)
TurnAsks ==
    /\ Up /\ turn = "llm"
    /\ turn' = "asking" /\ round' = round + 1
    /\ Begin(Agent, TRUE, TRUE) \/ Refused(Agent)
    /\ UNCHANGED <<build, calls, reply, pending>>

(* Mutant of TurnAnswered: a failed request is made again and not counted. *)
TurnAnswered_Retries ==
    /\ Up /\ turn = "asking" /\ pc[Agent] \in {"ok", "fail"}
    /\ Consume(Agent)
    /\ \/ /\ pc[Agent] = "fail"
          /\ turn' = "llm" /\ round' = round - 1
          /\ UNCHANGED <<calls, reply>>
       \/ /\ pc[Agent] = "ok"
          /\ turn' = "clean" /\ reply' = TRUE
          /\ UNCHANGED <<round, calls>>
       \/ /\ pc[Agent] = "ok"
          /\ turn' = "tools" /\ calls' \in 1 .. MaxCalls
          /\ UNCHANGED <<round, reply>>
    /\ UNCHANGED <<build, pending>>

(* It fails (also on a bad status or an answer that does not parse), or    *)
(* the message has tool calls, or it is the reply.                         *)
TurnAnswered ==
    /\ Up /\ turn = "asking" /\ pc[Agent] \in {"ok", "fail"}
    /\ Consume(Agent)
    /\ \/ turn' = "clean" /\ reply' = TRUE /\ UNCHANGED calls
       \/ /\ pc[Agent] = "ok"
          /\ turn' = "tools" /\ calls' \in 1 .. MaxCalls
          /\ UNCHANGED reply
    /\ UNCHANGED <<build, round, pending>>

(* fc_execute_tool_call: a tool that takes resources, or one that returns  *)
(* at once or does not exist.                                              *)
TurnTool ==
    /\ Up /\ turn = "tools" /\ calls > 0
    /\ turn' = "acting"
    /\ \/ HttpTool(Agent, FALSE) \/ LocalTool(Agent, FALSE) \/ OpenTool(Agent)
       \/ SendTool(Agent) \/ Refused(Agent)
    /\ UNCHANGED <<build, round, calls, reply, pending>>

TurnToolDone ==
    /\ Up /\ turn = "acting" /\ pc[Agent] \in {"ok", "fail"}
    /\ Consume(Agent)
    /\ turn' = "tools" /\ calls' = calls - 1
    /\ UNCHANGED <<build, round, reply, pending>>

(* Mutant of TurnRound: one iteration too many.                            *)
TurnRound_OneMore ==
    /\ Up /\ turn = "tools" /\ calls = 0
    /\ IF round <= MaxIterations
       THEN turn' = "llm" /\ UNCHANGED reply
       ELSE turn' = "clean" /\ reply' = TRUE
    /\ UNCHANGED <<laneVars, build, round, calls, pending>>

(* The next iteration, or "Tool iteration limit reached.".                 *)
TurnRound ==
    /\ Up /\ turn = "tools" /\ calls = 0
    /\ IF round < MaxIterations
       THEN turn' = "llm" /\ UNCHANGED reply
       ELSE turn' = "clean" /\ reply' = TRUE
    /\ UNCHANGED <<laneVars, build, round, calls, pending>>

(* The guard of the turn is stopped and the event recorded.                *)
TurnClean ==
    /\ Up /\ turn = "clean"
    /\ guard' = IF AgentGuard THEN None ELSE guard
    /\ Done(reply)
    /\ UNCHANGED <<lane, pc, call, board, build, round, calls>>

(* fc_agent_reply: printed, or sent to the chat.                           *)
TurnReply ==
    /\ Up /\ turn = "reply"
    /\ \/ turn' = "wait" /\ UNCHANGED laneVars
       \/ turn' = "sending" /\ TelegramCall(Agent)
    /\ UNCHANGED <<build, round, calls, reply, pending>>

TurnSent ==
    /\ Up /\ turn = "sending" /\ pc[Agent] \in {"ok", "fail"}
    /\ Consume(Agent)
    /\ turn' = "wait"
    /\ UNCHANGED <<build, round, calls, reply, pending>>

(* The board starts again.                                                 *)
Reset ==
    /\ board = "reset" /\ board' = "up"
    /\ lane' = None /\ guard' = None
    /\ pc' = [p \in Threads |-> "idle"]
    /\ call' = [p \in Threads |-> NoCall]
    /\ turn' = "wait" /\ round' = 0 /\ calls' = 0
    /\ reply' = FALSE /\ pending' = 0
    /\ UNCHANGED build
-----------------------------------------------------------------------------
AgentThread ==
    \/ TurnDirect \/ TurnScheduledTool \/ TurnScheduledDone \/ TurnNoMemory
    \/ TurnGuard \/ TurnAsks \/ TurnAnswered \/ TurnTool \/ TurnToolDone
    \/ TurnRound \/ TurnClean \/ TurnReply \/ TurnSent

CallSteps(p) ==
    /\ CallStep(p) \/ IoReturns(p) \/ Expire(p)
    /\ UNCHANGED <<build, turnVars>>

Next ==
    \/ TurnStart \/ AgentThread
    \/ \E p \in Telegram : TelegramThread(p)
    \/ \E p \in Mcp : McpThread(p)
    \/ \E p \in Threads : CallSteps(p)
    \/ Reset

Spec == Init /\ [][Next]_vars

(* The agent holds the guard of the whole turn.                            *)
OuterGuard ==
    AgentGuard /\ turn \in {"llm", "asking", "tools", "acting", "clean"}

(* p's operation is under a long guard, whose feeder stops at its budget,  *)
(* and not under the short guard of a local tool.                          *)
LongGuard(p) == guard = p /\ (call[p].locked \/ (p = Agent /\ OuterGuard))

(* Another thread waits for the guard and so re-arms the watchdog of a     *)
(* short guard (why HungOperationResets of Guard does not hold).           *)
Waited(p) ==
    \/ \E q \in Threads \ {p} : pc[q] = "guard"
    \/ p # Agent /\ AgentGuard /\ turn = "start"

(* The deadline meets an operation that does not return.                   *)
HangExpires(p) ==
    /\ pc[p] = "io" /\ (LongGuard(p) \/ ~Waited(p))
    /\ Expire(p)

(* The threads run, a wait has a deadline, and so has an operation under a *)
(* long guard (HungLongOperationResets of Guard) or under a short one that *)
(* nobody feeds (UnfedHangResets).  Nothing is assumed of an operation     *)
(* without a guard: it may hang.                                           *)
FairSpec ==
    /\ Spec
    /\ WF_vars(AgentThread) /\ WF_vars(Reset)
    /\ \A p \in Threads :
           /\ WF_vars(CallStep(p) /\ UNCHANGED <<build, turnVars>>)
           /\ WF_vars(HangExpires(p) /\ UNCHANGED <<build, turnVars>>)
-----------------------------------------------------------------------------
Turns == {"wait", "start", "scheduled", "llm", "asking", "tools", "acting",
          "clean", "reply", "sending"}

(* Type invariant: in particular a turn asks the LLM no more than          *)
(* CONFIG_FRUITCLAW_MAX_TOOL_ITERATIONS times.                             *)
TypeOK ==
    /\ LaneTypeOK
    /\ build \in SUBSET {"isolated", "agent-guard"}
    /\ turn \in Turns /\ round \in 0 .. MaxIterations /\ calls \in 0 .. MaxCalls
    /\ reply \in BOOLEAN /\ pending \in {0, 1}

(* Every way through fc_http_perform gives back what it took: the lane is  *)
(* held exactly by the thread that is in the middle of a locked call, the  *)
(* guard by the thread whose call took it or by the turn.                  *)
ResourcesReturned ==
    \A p \in Threads :
        /\ lane = p <=> InLane(p)
        /\ guard = p <=> call[p].own \/ (p = Agent /\ OuterGuard)

(* "The HTTP watchdog guard starts only after that shared HTTP mutex is    *)
(* acquired, so [requests] do not reset the board merely because they are  *)
(* waiting behind another normal HTTPS request" - unless the build guards  *)
(* the whole turn.                                                         *)
WaitingNeverResets ==
    board = "reset" /\ ~AgentGuard => pc[guard] # "lane"

(* A request that holds the HTTP lane runs under the guard of its thread,  *)
(* however the guard was refused, taken or given back before, so that a    *)
(* server that never answers cannot keep the lane from everybody else: but *)
(* for http.request as a scheduled tool, whose context says guarded when   *)
(* nothing is.                                                             *)
LaneIsSupervised ==
    lane # None /\ pc[lane] = "io" =>
        guard = lane \/ (lane = Agent /\ turn = "scheduled")

(* The lane always comes back, or the board is reset: a request that fails *)
(* or hangs at any step never shuts the others out for good.  (A scheduled *)
(* http.request that hangs does; the premise excludes it.)                 *)
LaneComesBack ==
    []<>~(turn = "scheduled" /\ pc[Agent] = "io") =>
        \A p \in Threads : lane = p ~> lane # p \/ ~Up

(* Every started event is recorded as done exactly once, on every way out  *)
(* of fc_agent_handle_event, and what is sent to the owner is not empty.   *)
EventsAccounted ==
    /\ pending = IF turn \in {"wait", "reply", "sending"} THEN 0 ELSE 1
    /\ turn \in {"reply", "sending"} => reply

(* No call waits for ever: although the turn may hold the guard while it   *)
(* waits for the lane and a request the lane while it waits for the guard, *)
(* both waits end.                                                         *)
WaitsEnd ==
    \A p \in Threads :
        pc[p] \in {"lane", "guard"} ~> pc[p] \notin {"lane", "guard"}

(* A turn that has come to the LLM leads to a reply, or the board is       *)
(* reset, whatever requests do and whatever the other threads hold or hang *)
(* in.  What the code does not secure is assumed of the agent's tools: one *)
(* without a guard returns, and so does one under a short guard, or other  *)
(* threads stop waiting for it in the end.                                 *)
TurnReplies ==
    (/\ []<>~(pc[Agent] = "io" /\ guard # Agent)
     /\ []<>(pc[Agent] = "io" => LongGuard(Agent)) \/ <>[]~Waited(Agent))
        => (turn = "llm" ~> turn = "reply" \/ ~Up)

(* Requests, tools and the turn use the guard as fc_guard.c offers it:     *)
(* they take it when it is free, and only the thread that took it gives it *)
(* back.                                                                   *)
Watchdog == INSTANCE ExclusiveGuard WITH live <- Up,
                holders <- IF Up /\ guard # None THEN {guard} ELSE {}
UsesExclusiveGuard == Watchdog!GuardSpec
=============================================================================
