--------------------------- MODULE AgentTurnProofs ---------------------------
(***************************************************************************)
(* Proofs about AgentTurn, for every set of threads, every number of       *)
(* iterations and tool calls and every build.                              *)
(*                                                                         *)
(* What the runs check is not inductive as it stands.  IInv adds what a    *)
(* thread holds at each place of a call (Holding), which calls ask for one *)
(* (Guarded) and how the place of the turn and the agent's call fit        *)
(* together (TurnPlace).                                                   *)
(***************************************************************************)
EXTENDS AgentTurn, TLAPS

(* What a thread in the middle of a call holds.                            *)
Holding ==
    \A p \in Threads :
        /\ call[p].own => pc[p] \in {"io", "stop"} /\ guard = p
        /\ pc[p] \in {"io", "stop"} /\ call[p].guarded => guard = p
        /\ pc[p] = "guard" => call[p].guarded
        /\ pc[p] = "lane" => call[p].locked

InCall(p) == pc[p] \in {"lane", "guard", "io"}

(* Which calls that use the lane ask for a guard.                          *)
Guarded ==
    \A p \in Threads :
        InCall(p) /\ call[p].locked
            => call[p].guarded \/ (p = Agent /\ turn = "scheduled")

(* The agent is in a call only where the turn waits for one.               *)
TurnPlace ==
    /\ turn \notin {"scheduled", "asking", "acting", "sending"}
           => pc[Agent] = "idle"
    /\ turn = "start" => round = 0
    /\ turn = "llm" => round < MaxIterations
    /\ turn = "acting" => calls > 0
    /\ turn = "clean" => reply
    /\ OuterGuard => ~call[Agent].own
    /\ board = "reset" => guard \in Threads

IInv ==
    /\ TypeOK /\ ResourcesReturned /\ EventsAccounted
    /\ Holding /\ Guarded /\ TurnPlace

(* The record of a call keeps its type.                                    *)
LEMMA CallType ==
    ASSUME NEW c \in [Threads -> Calls], NEW p \in Threads
    PROVE  /\ NoCall \in Calls
           /\ \A d \in Calls : [c EXCEPT ![p] = d] \in [Threads -> Calls]
           /\ \A b \in BOOLEAN :
                 [c EXCEPT ![p].own = b] \in [Threads -> Calls]
<1>1. NoCall \in Calls /\ \A d \in Calls : [c EXCEPT ![p] = d] \in [Threads -> Calls]
    BY DEF NoCall, Calls
<1>2. ASSUME NEW b \in BOOLEAN
      PROVE  [c EXCEPT ![p].own = b] \in [Threads -> Calls]
    <2>1. [c[p] EXCEPT !.own = b] \in Calls
        BY Zenon DEF Calls
    <2>2. [c EXCEPT ![p] = [c[p] EXCEPT !.own = b]] \in [Threads -> Calls]
        BY <2>1, <1>1
    <2> QED
        BY <2>2
<1> QED
    BY <1>1, <1>2

LEMMA GuardStartType ==
    ASSUME call \in [Threads -> Calls], NEW p \in Threads, GuardStart(p)
    PROVE  call' \in [Threads -> Calls]
<1>1. (guard = None) \in BOOLEAN
    OBVIOUS
<1>2. call' = call \/ call' = [call EXCEPT ![p].own = (guard = None)]
    BY Zenon DEF GuardStart
<1>3. [call EXCEPT ![p].own = (guard = None)] \in [Threads -> Calls]
    BY Zenon, <1>1, CallType
<1> QED
    BY Zenon, <1>2, <1>3

(* The invariant holds at the start.                                       *)
LEMMA InitIInv == Init => IInv
<1> SUFFICES ASSUME Init PROVE IInv
    OBVIOUS
<1>1. TypeOK
    <2>1. NoCall \in Calls
        BY DEF NoCall, Calls
    <2>2. call \in [Threads -> Calls]
        BY <2>1 DEF Init, LaneInit
    <2>3. build \in SUBSET {"isolated", "agent-guard"}
        BY TurnAssumption DEF Init
    <2>4. reply \in BOOLEAN
        BY Zenon DEF Init
    <2> QED
        BY <2>2, <2>3, <2>4, TurnAssumption
           DEF Init, LaneInit, TypeOK, LaneTypeOK, Turns
<1>2. ResourcesReturned
    BY LaneAssumption DEF Init, LaneInit, NoCall, ResourcesReturned, InLane,
                          OuterGuard
<1>3. EventsAccounted /\ Holding /\ Guarded /\ TurnPlace
    BY LaneAssumption, TurnAssumption
       DEF Init, LaneInit, NoCall, EventsAccounted, Holding, Guarded, InCall,
           TurnPlace, OuterGuard
<1> QED
    BY <1>1, <1>2, <1>3 DEF IInv
-----------------------------------------------------------------------------
(* A step inside a call.                                                   *)
LEMMA CallIInv ==
    ASSUME IInv, NEW p \in Threads, CallSteps(p)
    PROVE  IInv'
<1> USE LaneAssumption, TurnAssumption
<1> USE DEF IInv, TypeOK, LaneTypeOK, Calls, turnVars, Up, Goto
<1>a. CASE LaneLock(p)
    <2> USE <1>a DEF CallSteps, LaneLock, AfterLane
    <2>1. TypeOK'
        BY DEF Turns
    <2>2. ResourcesReturned'
        BY DEF ResourcesReturned, InLane, OuterGuard, AgentGuard, Holding
    <2>3. Holding'
        BY DEF Holding
    <2>4. (EventsAccounted /\ Guarded /\ TurnPlace)'
        BY DEF EventsAccounted, Guarded, InCall, TurnPlace, OuterGuard,
               AgentGuard, Isolated, Holding
    <2> QED
        BY <2>1, <2>2, <2>3, <2>4
<1>b. CASE GuardStart(p)
    <2> USE <1>b DEF CallSteps, GuardStart
    <2>1. TypeOK'
        <3>1. call' \in [Threads -> Calls]
            BY GuardStartType
        <3> QED
            BY <3>1 DEF Turns
    <2>2. ResourcesReturned'
        BY DEF ResourcesReturned, InLane, OuterGuard, AgentGuard, Holding
    <2>3. Holding'
        BY DEF Holding
    <2>4. (EventsAccounted /\ Guarded /\ TurnPlace)'
        BY DEF EventsAccounted, Guarded, InCall, TurnPlace, OuterGuard,
               AgentGuard, Isolated, Holding, ResourcesReturned
    <2> QED
        BY <2>1, <2>2, <2>3, <2>4
<1>c. CASE GuardStop(p)
    <2> USE <1>c DEF CallSteps, GuardStop
    <2>1. TypeOK'
        <3>1. call' \in [Threads -> Calls]
            BY CallType
        <3> QED
            BY <3>1 DEF Turns
    <2>2. ResourcesReturned'
        BY DEF ResourcesReturned, InLane, OuterGuard, AgentGuard, Holding,
               TurnPlace
    <2>3. Holding'
        BY DEF Holding
    <2>4. (EventsAccounted /\ Guarded /\ TurnPlace)'
        BY DEF EventsAccounted, Guarded, InCall, TurnPlace, OuterGuard,
               AgentGuard, Isolated, Holding
    <2> QED
        BY <2>1, <2>2, <2>3, <2>4
<1>d. CASE LaneUnlock(p)
    <2> USE <1>d DEF CallSteps, LaneUnlock
    <2>1. TypeOK'
        BY DEF Turns
    <2>2. ResourcesReturned'
        BY DEF ResourcesReturned, InLane, OuterGuard, AgentGuard, Holding
    <2>3. Holding'
        BY DEF Holding
    <2>4. (EventsAccounted /\ Guarded /\ TurnPlace)'
        BY DEF EventsAccounted, Guarded, InCall, TurnPlace, OuterGuard,
               AgentGuard, Isolated, Holding
    <2> QED
        BY <2>1, <2>2, <2>3, <2>4
<1>e. CASE IoReturns(p)
    <2> USE <1>e DEF CallSteps, IoReturns
    <2>1. TypeOK'
        BY DEF Turns
    <2>2. ResourcesReturned'
        BY DEF ResourcesReturned, InLane, OuterGuard, AgentGuard
    <2>3. (EventsAccounted /\ Holding /\ Guarded /\ TurnPlace)'
        BY DEF EventsAccounted, Guarded, InCall, TurnPlace, OuterGuard,
               AgentGuard, Isolated, Holding
    <2> QED
        BY <2>1, <2>2, <2>3
<1>f. CASE Expire(p)
    BY <1>f DEF CallSteps, Expire, Turns, ResourcesReturned, InLane, OuterGuard,
                AgentGuard, EventsAccounted, Guarded, InCall, TurnPlace,
                Isolated, Holding
<1> QED
    BY <1>a, <1>b, <1>c, <1>d, <1>e, <1>f DEF CallSteps, CallStep
-----------------------------------------------------------------------------
(* p starts a call, is refused one, or takes the result of one.            *)
Turnover(p, locked, guarded) ==
    \/ Begin(p, locked, guarded)
    \/ Refused(p)
    \/ pc[p] \in {"ok", "fail"} /\ Consume(p)

(* What such a step does to the thread and to the others.                  *)
LEMMA TurnoverEffect ==
    ASSUME LaneTypeOK, NEW p \in Threads, NEW l \in BOOLEAN, NEW g \in BOOLEAN,
           Turnover(p, l, g), ~call[p].own
    PROVE  /\ LaneTypeOK'
           /\ UNCHANGED <<lane, guard, board>>
           /\ \A q \in Threads : q # p => pc'[q] = pc[q] /\ call'[q] = call[q]
           /\ pc[p] \in {"idle", "ok", "fail"}
           /\ pc'[p] \in {"idle", "fail", "lane", "guard", "io"}
           /\ ~call'[p].own
           /\ pc'[p] = "lane" => call'[p].locked
           /\ pc'[p] \in {"guard", "io"} => ~call'[p].locked
           /\ pc'[p] = "guard" => call'[p].guarded
           /\ pc'[p] = "io" => ~call'[p].guarded
           /\ pc'[p] = "lane" => l
           /\ pc'[p] \in {"lane", "guard", "io"} => (g => call'[p].guarded)
<1>1. CASE Begin(p, l, g)
    <2> DEFINE c == [locked |-> l, guarded |-> g, own |-> FALSE]
    <2>1. c \in Calls
        BY Zenon DEF Calls
    <2>2. call' = [call EXCEPT ![p] = c] /\ call' \in [Threads -> Calls]
        BY <1>1, <2>1, CallType DEF Begin, LaneTypeOK
    <2>3. call'[p] = c
        BY <2>2 DEF LaneTypeOK
    <2> HIDE DEF c
    <2>4. c.locked = l /\ c.guarded = g /\ c.own = FALSE
        BY DEF c
    <2>5. pc' = [pc EXCEPT ![p] = IF l THEN "lane"
                                  ELSE IF g THEN "guard" ELSE "io"]
        BY <1>1 DEF Begin, Goto, AfterLane
    <2> QED
        BY <1>1, <2>2, <2>3, <2>4, <2>5 DEF Begin, LaneTypeOK
<1>2. CASE Refused(p)
    BY <1>2 DEF Refused, Goto, LaneTypeOK
<1>3. CASE pc[p] \in {"ok", "fail"} /\ Consume(p)
    <2>1. call' = [call EXCEPT ![p] = NoCall] /\ call' \in [Threads -> Calls]
        BY <1>3, CallType DEF Consume, LaneTypeOK
    <2> QED
        BY <1>3, <2>1 DEF Consume, Goto, LaneTypeOK, NoCall
<1> QED
    BY <1>1, <1>2, <1>3 DEF Turnover

(* It leaves lane and guard where they belong.                             *)
LEMMA TurnoverHolding ==
    ASSUME IInv, NEW p \in Threads, NEW l \in BOOLEAN, NEW g \in BOOLEAN,
           Turnover(p, l, g), OuterGuard' <=> OuterGuard
    PROVE  LaneTypeOK' /\ ResourcesReturned' /\ Holding'
<1>1. ~call[p].own
    BY DEF IInv, Holding, Turnover, Begin, Refused
<1>2. LaneTypeOK
    BY DEF IInv, TypeOK
<1>3. LaneTypeOK'
    BY <1>1, <1>2, TurnoverEffect
<1>4. \A q \in Threads : /\ (lane = q <=> InLane(q))'
                         /\ call'[q].own <=> call[q].own
    BY <1>1, <1>2, TurnoverEffect DEF IInv, ResourcesReturned, InLane
<1>5. ResourcesReturned'
    BY <1>1, <1>2, <1>4, TurnoverEffect DEF IInv, ResourcesReturned
<1>6. Holding'
    BY <1>1, <1>2, TurnoverEffect DEF IInv, Holding
<1> QED
    BY <1>3, <1>5, <1>6

(* Steps of the other threads.                                             *)
LEMMA OthersIInv ==
    ASSUME IInv, NEW p \in Threads,
           \/ p \in Telegram /\ TelegramThread(p)
           \/ p \in Mcp /\ McpThread(p)
    PROVE  IInv'
<1>1. UNCHANGED <<build, turn, round, calls, reply, pending>>
    BY DEF TelegramThread, McpThread, turnVars
<1>2. (OuterGuard' <=> OuterGuard) /\ (Isolated' <=> Isolated)
    BY <1>1 DEF OuterGuard, AgentGuard, Isolated
<1>3. PICK l \in BOOLEAN, g \in BOOLEAN :
         Turnover(p, l, g) /\ (l => g)
    <2>1. (~Isolated) \in BOOLEAN
        BY DEF Isolated
    <2>2. CASE p \in Telegram /\ TelegramThread(p)
        <3>1. Turnover(p, ~Isolated, ~Isolated)
            BY <2>2 DEF TelegramThread, TelegramCall, Turnover
        <3> QED
            BY <2>1, <2>2, <3>1
    <2>3. CASE p \in Mcp /\ McpThread(p)
        <3>1. Turnover(p, TRUE, ~FALSE) \/ Turnover(p, FALSE, ~FALSE)
            BY <2>3 DEF McpThread, HttpTool, LocalTool, Turnover
        <3>2. (~FALSE) = TRUE
            OBVIOUS
        <3> QED
            BY <3>1, <3>2
    <2> QED
        BY <2>2, <2>3
<1>4. p # Agent
    BY TurnAssumption
<1>5. ~call[p].own /\ LaneTypeOK
    BY <1>3 DEF IInv, TypeOK, Holding, Turnover, Begin, Refused
<1>6. LaneTypeOK' /\ ResourcesReturned' /\ Holding'
    BY <1>2, <1>3, TurnoverHolding
<1>7. Guarded'
    BY <1>1, <1>2, <1>3, <1>5, TurnoverEffect DEF IInv, Guarded, InCall
<1>8. TurnPlace'
    BY <1>1, <1>2, <1>3, <1>4, <1>5, TurnoverEffect, TurnAssumption
       DEF IInv, TurnPlace
<1>9. TypeOK' /\ EventsAccounted'
    BY <1>1, <1>6 DEF IInv, TypeOK, EventsAccounted
<1> QED
    BY <1>6, <1>7, <1>8, <1>9 DEF IInv
-----------------------------------------------------------------------------
(* Steps of the turn that make no call.                                    *)
LEMMA QuietIInv ==
    ASSUME IInv,
           \/ TurnStart \/ TurnDirect \/ TurnNoMemory \/ TurnRound
           \/ turn = "reply" /\ turn' = "wait" /\ UNCHANGED laneVars
              /\ UNCHANGED <<build, round, calls, reply, pending>>
    PROVE  IInv'
<1>1. UNCHANGED <<lane, guard, pc, call, board, build>>
    BY DEF TurnStart, TurnDirect, TurnNoMemory, TurnRound, laneVars
<1>2. (OuterGuard' <=> OuterGuard) /\ (Isolated' <=> Isolated)
    BY <1>1 DEF OuterGuard, AgentGuard, Isolated, TurnStart, TurnDirect,
                TurnNoMemory, TurnRound, Done
<1>3. turn \notin {"scheduled", "asking", "acting", "sending"}
    BY DEF TurnStart, TurnDirect, TurnNoMemory, TurnRound
<1>4. ResourcesReturned' /\ Holding'
    BY <1>1, <1>2 DEF IInv, ResourcesReturned, InLane, Holding
<1>5. Guarded'
    BY <1>1, <1>2, <1>3 DEF IInv, Guarded, InCall, TurnPlace
<1>6. reply' \in BOOLEAN
    BY Zenon DEF IInv, TypeOK, TurnStart, TurnDirect, TurnNoMemory, TurnRound,
                 Done
<1>7. pending' = IF turn' \in {"wait", "reply", "sending"} THEN 0 ELSE 1
    BY DEF IInv, EventsAccounted, TurnStart, TurnDirect, TurnNoMemory,
           TurnRound, Done
<1>8. (turn' \in {"clean", "reply", "sending"} => reply') /\ turn' \in Turns
    BY DEF TurnStart, TurnDirect, TurnNoMemory, TurnRound, Done, Turns
<1>9. /\ turn' = "llm" => round' < MaxIterations
      /\ turn' = "start" => round' = 0
      /\ turn' # "acting"
      /\ round' \in 0 .. MaxIterations /\ calls' \in 0 .. MaxCalls
    BY TurnAssumption DEF IInv, TypeOK, TurnStart, TurnDirect, TurnNoMemory,
                          TurnRound, Done
<1>10. TypeOK' /\ EventsAccounted'
    BY <1>1, <1>6, <1>7, <1>8, <1>9
       DEF IInv, TypeOK, LaneTypeOK, EventsAccounted
<1>11. TurnPlace'
    BY <1>1, <1>2, <1>3, <1>8, <1>9 DEF IInv, TurnPlace
<1> QED
    BY <1>4, <1>5, <1>10, <1>11 DEF IInv

(* The guard of the turn is taken or refused ...                           *)
LEMMA TurnGuardIInv == ASSUME IInv, TurnGuard PROVE IInv'
<1>1. /\ UNCHANGED <<lane, pc, call, board, build, round, calls>>
      /\ pc[Agent] = "idle" /\ ~OuterGuard /\ Agent \in Threads
      /\ turn' \in {"llm", "reply"} /\ turn = "start"
    BY TurnAssumption DEF TurnGuard, Done, IInv, TurnPlace, OuterGuard
<1>2. ~call[Agent].own
    BY <1>1 DEF IInv, Holding
<1>3. \/ AgentGuard /\ turn' = "llm" /\ guard = None /\ guard' = Agent
      \/ guard' = guard /\ ~OuterGuard'
    BY <1>1 DEF TurnGuard, Done, OuterGuard, AgentGuard
<1>4. (AgentGuard' <=> AgentGuard) /\ (Isolated' <=> Isolated)
    BY <1>1 DEF AgentGuard, Isolated
<1>5. ResourcesReturned'
    <2>1. \A q \in Threads : (lane = q <=> InLane(q))'
        BY <1>1 DEF IInv, ResourcesReturned, InLane
    <2>2. \A q \in Threads :
             (guard = q <=> call[q].own \/ (q = Agent /\ OuterGuard))'
        BY <1>1, <1>3, <1>4, LaneAssumption
           DEF IInv, ResourcesReturned, OuterGuard
    <2> QED
        BY <2>1, <2>2 DEF ResourcesReturned
<1>6. Holding'
    BY <1>1, <1>3, LaneAssumption DEF IInv, Holding
<1>7. Guarded'
    BY <1>1, <1>4 DEF IInv, Guarded, InCall
<1>8. reply' \in BOOLEAN /\ guard' \in Threads \cup {None}
    <2>1. reply' \in BOOLEAN
        BY Zenon DEF TurnGuard, Done, IInv, TypeOK
    <2> QED
        BY <1>1, <1>3, <2>1 DEF IInv, TypeOK, LaneTypeOK
<1>9. EventsAccounted'
    BY <1>1 DEF TurnGuard, Done, IInv, EventsAccounted
<1>10. TypeOK'
    BY <1>1, <1>8, <1>9 DEF IInv, TypeOK, LaneTypeOK, Turns, EventsAccounted
<1>11. TurnPlace'
    <2>1. round = 0
        BY <1>1 DEF IInv, TurnPlace
    <2> QED
        BY <1>1, <1>2, <1>3, <2>1, TurnAssumption DEF IInv, TurnPlace
<1> QED
    BY <1>5, <1>6, <1>7, <1>9, <1>10, <1>11 DEF IInv

(* ... and given back.                                                     *)
LEMMA TurnCleanIInv == ASSUME IInv, TurnClean PROVE IInv'
<1>1. /\ UNCHANGED <<lane, pc, call, board, build, round, calls, reply>>
      /\ pc[Agent] = "idle" /\ Agent \in Threads
      /\ turn' = "reply" /\ turn = "clean" /\ reply /\ board = "up"
    BY TurnAssumption DEF TurnClean, Done, IInv, TurnPlace, Up
<1>2. ~call[Agent].own /\ ~OuterGuard'
    BY <1>1 DEF IInv, Holding, OuterGuard
<1>3. IF AgentGuard THEN guard = Agent /\ guard' = None ELSE guard' = guard
    BY <1>1 DEF TurnClean, IInv, ResourcesReturned, OuterGuard
<1>4. (AgentGuard' <=> AgentGuard) /\ (Isolated' <=> Isolated)
    BY <1>1 DEF AgentGuard, Isolated
<1>5. ResourcesReturned'
    <2>1. \A q \in Threads : (lane = q <=> InLane(q))'
        BY <1>1 DEF IInv, ResourcesReturned, InLane
    <2>2. \A q \in Threads : (guard = q <=> call[q].own)'
        BY <1>1, <1>2, <1>3, LaneAssumption
           DEF IInv, ResourcesReturned, OuterGuard, Holding
    <2> QED
        BY <1>2, <2>1, <2>2 DEF ResourcesReturned
<1>6. Holding'
    BY <1>1, <1>2, <1>3, LaneAssumption DEF IInv, Holding
<1>7. Guarded'
    BY <1>1, <1>4 DEF IInv, Guarded, InCall
<1>8. EventsAccounted'
    BY <1>1 DEF TurnClean, Done, IInv, EventsAccounted
<1>9. TypeOK'
    BY <1>1, <1>3, <1>8 DEF IInv, TypeOK, LaneTypeOK, Turns, EventsAccounted
<1>10. TurnPlace'
    BY <1>1, <1>2, <1>3 DEF IInv, TurnPlace
<1> QED
    BY <1>5, <1>6, <1>7, <1>8, <1>9, <1>10 DEF IInv

(* Steps of the turn that start or end a call of the agent.                *)
CallingTurn ==
    \/ TurnScheduledTool \/ TurnScheduledDone \/ TurnAsks \/ TurnAnswered
    \/ TurnTool \/ TurnToolDone \/ TurnSent
    \/ turn' = "sending" /\ TurnReply

LEMMA CallingIInv == ASSUME IInv, CallingTurn PROVE IInv'
<1>1. /\ UNCHANGED build /\ board = "up" /\ Agent \in Threads
      /\ turn \in {"start", "scheduled", "llm", "asking", "tools", "acting",
                   "reply", "sending"}
    BY TurnAssumption
       DEF CallingTurn, TurnScheduledTool, TurnScheduledDone, TurnAsks,
           TurnAnswered, TurnTool, TurnToolDone, TurnSent, TurnReply, Up
<1>2. (OuterGuard' <=> OuterGuard) /\ (Isolated' <=> Isolated)
    BY <1>1 DEF OuterGuard, AgentGuard, Isolated, CallingTurn,
                TurnScheduledTool, TurnScheduledDone, TurnAsks, TurnAnswered,
                TurnTool, TurnToolDone, TurnSent, TurnReply, Done
<1>3. PICK l \in BOOLEAN, g \in BOOLEAN :
         /\ Turnover(Agent, l, g)
         /\ (l => g) \/ turn' = "scheduled"
    <2>1. (~Isolated) \in BOOLEAN
        BY DEF Isolated
    <2>2. CASE TurnScheduledTool
        <3>1. \/ Turnover(Agent, TRUE, ~TRUE) \/ Turnover(Agent, FALSE, ~TRUE)
              \/ Turnover(Agent, FALSE, FALSE)
              \/ Turnover(Agent, ~Isolated, ~Isolated)
            BY <2>2 DEF TurnScheduledTool, HttpTool, LocalTool, OpenTool,
                        SendTool, TelegramCall, Turnover
        <3>2. (~TRUE) = FALSE /\ turn' = "scheduled"
            BY <2>2 DEF TurnScheduledTool
        <3> QED
            BY <2>1, <3>1, <3>2
    <2>3. CASE TurnScheduledDone \/ TurnAnswered \/ TurnToolDone \/ TurnSent
        <3>1. pc[Agent] \in {"ok", "fail"} /\ Consume(Agent)
            BY <2>3 DEF TurnScheduledDone, TurnAnswered, TurnToolDone, TurnSent
        <3>2. Turnover(Agent, TRUE, TRUE)
            BY <3>1 DEF Turnover
        <3> QED
            BY <3>2
    <2>4. CASE TurnAsks
        BY <2>4 DEF TurnAsks, Turnover
    <2>5. CASE TurnTool
        <3>1. \/ Turnover(Agent, TRUE, ~FALSE) \/ Turnover(Agent, FALSE, ~FALSE)
              \/ Turnover(Agent, FALSE, FALSE)
              \/ Turnover(Agent, ~Isolated, ~Isolated)
            BY <2>5 DEF TurnTool, HttpTool, LocalTool, OpenTool, SendTool,
                        TelegramCall, Turnover
        <3>2. (~FALSE) = TRUE
            OBVIOUS
        <3> QED
            BY <2>1, <3>1, <3>2
    <2>6. CASE turn' = "sending" /\ TurnReply
        <3>1. Turnover(Agent, ~Isolated, ~Isolated)
            BY <2>6 DEF TurnReply, TelegramCall, Turnover
        <3> QED
            BY <2>1, <2>6, <3>1
    <2> QED
        BY <2>2, <2>3, <2>4, <2>5, <2>6 DEF CallingTurn
<1>4. ~call[Agent].own /\ LaneTypeOK
    BY <1>1, <1>3 DEF IInv, TypeOK, Holding, Turnover, Begin, Refused
<1>5. LaneTypeOK' /\ ResourcesReturned' /\ Holding'
    BY <1>1, <1>2, <1>3, TurnoverHolding
<1>6. Guarded'
    BY <1>1, <1>2, <1>3, <1>4, TurnoverEffect DEF IInv, Guarded, InCall
<1>7. /\ turn' \in Turns /\ turn' # "start"
      /\ turn' \in {"clean", "reply", "sending"} => reply'
      /\ turn' \notin {"scheduled", "asking", "acting", "sending"}
            => pc'[Agent] = "idle"
    <2> USE <1>1, <1>4 DEF Turns, LaneTypeOK, Consume, Goto
    <2>1. CASE TurnScheduledTool \/ TurnAsks \/ TurnTool
        BY <2>1 DEF TurnScheduledTool, TurnAsks, TurnTool
    <2>2. CASE TurnScheduledDone \/ TurnToolDone \/ TurnSent
        BY <2>2 DEF TurnScheduledDone, TurnToolDone, TurnSent, Done
    <2>3. CASE TurnAnswered
        BY <2>3 DEF TurnAnswered
    <2>4. CASE turn' = "sending" /\ TurnReply
        BY <2>4 DEF TurnReply, IInv, EventsAccounted
    <2> QED
        BY <2>1, <2>2, <2>3, <2>4 DEF CallingTurn
<1>8. pending' = IF turn' \in {"wait", "reply", "sending"} THEN 0 ELSE 1
    <2>1. pending = IF turn \in {"wait", "reply", "sending"} THEN 0 ELSE 1
        BY DEF IInv, EventsAccounted
    <2>2. CASE \/ TurnScheduledTool \/ TurnAsks \/ TurnTool \/ TurnToolDone
        BY <2>1, <2>2 DEF TurnScheduledTool, TurnAsks, TurnTool, TurnToolDone
    <2>3. CASE TurnScheduledDone
        BY <2>1, <2>3 DEF TurnScheduledDone, Done
    <2>4. CASE TurnAnswered
        BY <2>1, <2>4 DEF TurnAnswered
    <2>5. CASE TurnSent \/ (turn' = "sending" /\ TurnReply)
        BY <2>1, <2>5 DEF TurnSent, TurnReply
    <2> QED
        BY <2>2, <2>3, <2>4, <2>5 DEF CallingTurn
<1>9. reply' \in BOOLEAN
    BY Zenon DEF IInv, TypeOK, CallingTurn, TurnScheduledTool, TurnScheduledDone,
                 TurnAsks, TurnAnswered, TurnTool, TurnToolDone, TurnSent,
                 TurnReply, Done
<1>10. /\ round' \in 0 .. MaxIterations /\ calls' \in 0 .. MaxCalls
       /\ turn' # "llm" /\ (turn' = "acting" => calls' > 0)
    <2>1. CASE TurnAsks
        BY <2>1, TurnAssumption DEF TurnAsks, IInv, TypeOK, TurnPlace
    <2>2. CASE TurnAnswered
        BY <2>2, TurnAssumption DEF TurnAnswered, IInv, TypeOK
    <2>3. CASE TurnToolDone
        BY <2>3, TurnAssumption DEF TurnToolDone, IInv, TypeOK, TurnPlace
    <2>4. CASE \/ TurnScheduledTool \/ TurnScheduledDone \/ TurnTool \/ TurnSent
               \/ turn' = "sending" /\ TurnReply
        BY <2>4 DEF TurnScheduledTool, TurnScheduledDone, TurnTool, TurnSent,
                    TurnReply, Done, IInv, TypeOK
    <2> QED
        BY <2>1, <2>2, <2>3, <2>4 DEF CallingTurn
<1>11. TypeOK' /\ EventsAccounted'
    BY <1>1, <1>5, <1>7, <1>8, <1>9, <1>10 DEF IInv, TypeOK, EventsAccounted
<1>12. TurnPlace'
    BY <1>1, <1>2, <1>3, <1>4, <1>7, <1>10, TurnoverEffect DEF IInv, TurnPlace
<1> QED
    BY <1>5, <1>6, <1>11, <1>12 DEF IInv
-----------------------------------------------------------------------------
LEMMA NextIInv == IInv /\ [Next]_vars => IInv'
<1> SUFFICES ASSUME IInv, [Next]_vars PROVE IInv'
    OBVIOUS
<1>1. CASE TurnStart
    BY <1>1, QuietIInv
<1>2. CASE AgentThread
    <2>1. CASE TurnReply /\ turn' = "wait" /\ UNCHANGED laneVars
        BY <2>1, QuietIInv DEF TurnReply
    <2>2. TurnReply => \/ turn' = "sending"
                       \/ turn' = "wait" /\ UNCHANGED laneVars
        BY DEF TurnReply
    <2> QED
        BY <1>2, <2>1, <2>2, QuietIInv, TurnGuardIInv, TurnCleanIInv,
           CallingIInv DEF AgentThread, CallingTurn
<1>3. CASE \E p \in Telegram : TelegramThread(p)
    BY <1>3, OthersIInv, TurnAssumption
<1>4. CASE \E p \in Mcp : McpThread(p)
    BY <1>4, OthersIInv, TurnAssumption
<1>5. CASE \E p \in Threads : CallSteps(p)
    BY <1>5, CallIInv
<1>6. CASE Reset
    <2>1. NoCall \in Calls /\ NoCall.own = FALSE
        BY DEF NoCall, Calls
    <2>2. call' \in [Threads -> Calls] /\ reply' \in BOOLEAN
        <3>1. reply' \in BOOLEAN
            BY Zenon, <1>6 DEF Reset
        <3> QED
            BY <1>6, <2>1, <3>1 DEF Reset
    <2>3. TypeOK'
        BY <1>6, <2>2, TurnAssumption DEF Reset, IInv, TypeOK, LaneTypeOK, Turns
    <2>4. ResourcesReturned'
        BY <1>6, <2>1, LaneAssumption
           DEF Reset, ResourcesReturned, InLane, OuterGuard
    <2>5. (EventsAccounted /\ Holding /\ Guarded /\ TurnPlace)'
        BY <1>6, <2>1, TurnAssumption
           DEF Reset, EventsAccounted, Holding, Guarded, InCall, TurnPlace,
               OuterGuard
    <2> QED
        BY <2>3, <2>4, <2>5 DEF IInv
<1>7. CASE UNCHANGED vars
    BY <1>7 DEF vars, laneVars, turnVars, IInv, TypeOK, LaneTypeOK,
                ResourcesReturned, InLane, OuterGuard, AgentGuard,
                EventsAccounted, Holding, Guarded, InCall, Isolated, TurnPlace
<1> QED
    BY <1>1, <1>2, <1>3, <1>4, <1>5, <1>6, <1>7 DEF Next

LEMMA Invariant == Spec => []IInv
    BY InitIInv, NextIInv, PTL DEF Spec

(* Type correctness: in particular fc_agent_handle_event asks the LLM at   *)
(* most CONFIG_FRUITCLAW_MAX_TOOL_ITERATIONS times.                        *)
THEOREM TypeCorrect == Spec => []TypeOK
<1>1. IInv => TypeOK
    BY DEF IInv
<1> QED
    BY <1>1, Invariant, PTL

(* Every way through fc_http_perform and the turn gives back the lane and  *)
(* the guard, for every set of threads.                                    *)
THEOREM NothingKept == Spec => []ResourcesReturned
<1>1. IInv => ResourcesReturned
    BY DEF IInv
<1> QED
    BY <1>1, Invariant, PTL

(* Every started event is recorded as done on every way out of             *)
(* fc_agent_handle_event, and no empty reply is sent.                      *)
THEOREM EventsRecorded == Spec => []EventsAccounted
<1>1. IInv => EventsAccounted
    BY DEF IInv
<1> QED
    BY <1>1, Invariant, PTL

(* A request that waits for the HTTP lane never resets the board, in       *)
(* builds that do not guard the whole turn.                                *)
THEOREM WaitingIsSafe == Spec => []WaitingNeverResets
<1>1. IInv => WaitingNeverResets
    BY DEF IInv, WaitingNeverResets, TurnPlace, ResourcesReturned, Holding,
           OuterGuard
<1> QED
    BY <1>1, Invariant, PTL

(* Whoever holds the HTTP lane over an operation that may hang is under    *)
(* the watchdog guard of its thread, through every refusal of guard and    *)
(* lane: fc_http_perform never goes on without the guard it asked for.     *)
(* The scheduled http.request, which asks for none, is the one exception.  *)
THEOREM LaneSupervised == Spec => []LaneIsSupervised
<1>1. IInv => LaneIsSupervised
    <2> SUFFICES ASSUME IInv, lane # None, pc[lane] = "io"
                 PROVE  guard = lane \/ (lane = Agent /\ turn = "scheduled")
        BY DEF LaneIsSupervised
    <2>1. lane \in Threads /\ call[lane].locked
        BY DEF IInv, TypeOK, LaneTypeOK, ResourcesReturned, InLane
    <2> QED
        BY <2>1 DEF IInv, Guarded, InCall, Holding
<1> QED
    BY <1>1, Invariant, PTL
-----------------------------------------------------------------------------
(* The guard as the calls use it.                                          *)

(* A step takes a free guard, gives its own back, or leaves the guard and  *)
(* the board alone, unless the board goes down or comes up.                *)
LEMMA GuardUse ==
    ASSUME IInv, [Next]_vars
    PROVE  \/ board = "up" /\ board' = "reset"
           \/ board = "reset" /\ board' = "up" /\ guard' = None
           \/ /\ board = "up" /\ board' = "up"
              /\ \E p \in Threads : \/ guard = None /\ guard' = p
                                    \/ guard = p /\ guard' = None
           \/ UNCHANGED <<board, guard>>
<1> USE DEF Up
<1>1. ASSUME NEW p \in Threads, CallSteps(p)
      PROVE  \/ board = "up" /\ board' = "reset"
             \/ /\ board = "up" /\ board' = "up"
                /\ \/ guard = None /\ guard' = p
                   \/ guard = p /\ guard' = None
             \/ UNCHANGED <<board, guard>>
    <2>1. CASE GuardStart(p)
        BY <2>1 DEF GuardStart
    <2>2. CASE GuardStop(p)
        <3>1. call[p].own => guard = p
            BY DEF IInv, Holding
        <3> QED
            BY <2>2, <3>1 DEF GuardStop
    <2>3. CASE Expire(p)
        BY <2>3 DEF Expire
    <2>4. CASE LaneLock(p) \/ LaneUnlock(p) \/ IoReturns(p)
        BY <2>4 DEF LaneLock, LaneUnlock, IoReturns
    <2> QED
        BY <1>1, <2>1, <2>2, <2>3, <2>4 DEF CallSteps, CallStep
<1>2. CASE TurnGuard
    BY <1>2, TurnAssumption DEF TurnGuard
<1>3. CASE TurnClean
    <2>1. AgentGuard => guard = Agent
        BY <1>3, TurnAssumption
           DEF TurnClean, IInv, ResourcesReturned, OuterGuard
    <2> QED
        BY <1>3, <2>1, TurnAssumption DEF TurnClean
<1>4. CASE Reset
    BY <1>4 DEF Reset
<1>5. CASE \/ TurnStart \/ TurnDirect \/ TurnNoMemory \/ TurnRound
           \/ UNCHANGED vars
    BY <1>5 DEF TurnStart, TurnDirect, TurnNoMemory, TurnRound, vars, laneVars
<1>6. CASE \/ TurnScheduledTool \/ TurnScheduledDone \/ TurnAsks
           \/ TurnAnswered \/ TurnTool \/ TurnToolDone \/ TurnReply \/ TurnSent
           \/ \E p \in Telegram : TelegramThread(p)
           \/ \E p \in Mcp : McpThread(p)
    BY <1>6 DEF TurnScheduledTool, TurnScheduledDone, TurnAsks, TurnAnswered,
                TurnTool, TurnToolDone, TurnReply, TurnSent, TelegramThread,
                McpThread, TelegramCall, HttpTool, LocalTool, OpenTool,
                SendTool, Begin, Refused,
                Consume, laneVars
<1> QED
    BY <1>1, <1>2, <1>3, <1>4, <1>5, <1>6 DEF Next, AgentThread

(* Refinement: fc_http_perform, the guarded tools and the agent's turn use *)
(* the guard exactly as ExclusiveGuard offers it, which is what fc_guard.c *)
(* implements (GuardProofs): nobody takes a guard that is taken or gives   *)
(* back one it did not take.                                               *)
THEOREM GuardUsedAsOffered == Spec => UsesExclusiveGuard
<1>1. Init => Watchdog!GuardInit
    BY DEF Init, LaneInit, Watchdog!GuardInit, Up
<1>2. ASSUME IInv, [Next]_vars
      PROVE  [Watchdog!GuardNext]_(Watchdog!guardVars)
    <2>1. board \in {"up", "reset"} /\ None \notin Threads
        BY <1>2, LaneAssumption DEF IInv, TypeOK, LaneTypeOK
    <2>2. CASE board = "up" /\ board' = "reset"
        BY <2>2 DEF Watchdog!GuardNext, Watchdog!GoDown, Up
    <2>3. CASE board = "reset" /\ board' = "up" /\ guard' = None
        BY <2>3 DEF Watchdog!GuardNext, Watchdog!ComeUp, Up
    <2>4. ASSUME NEW p \in Threads, board = "up", board' = "up",
                 \/ guard = None /\ guard' = p
                 \/ guard = p /\ guard' = None
          PROVE  Watchdog!GuardNext
        <3>1. p # None
            BY <2>1
        <3>2. CASE guard = None /\ guard' = p
            <4>1. Watchdog!Take(p)
                BY <2>4, <3>1, <3>2 DEF Watchdog!Take, Up
            <4> QED
                BY <4>1 DEF Watchdog!GuardNext
        <3>3. CASE guard = p /\ guard' = None
            <4>1. Watchdog!Release(p)
                BY <2>4, <3>1, <3>3 DEF Watchdog!Release, Up
            <4> QED
                BY <4>1 DEF Watchdog!GuardNext
        <3> QED
            BY <2>4, <3>2, <3>3
    <2>5. CASE UNCHANGED <<board, guard>>
        BY <2>5 DEF Watchdog!guardVars, Up
    <2> QED
        BY <1>2, <2>2, <2>3, <2>4, <2>5, GuardUse
<1> QED
    BY <1>1, <1>2, Invariant, PTL
       DEF Spec, UsesExclusiveGuard, Watchdog!GuardSpec
=============================================================================
