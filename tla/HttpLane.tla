------------------------------ MODULE HttpLane ------------------------------
(***************************************************************************)
(* Calls that take shared resources: fc_http_perform of net/fc_http.c,     *)
(* which takes the HTTP lane and then the watchdog guard, and local tools  *)
(* under fc_tool_guard_arm, which take the guard only.                     *)
(*                                                                         *)
(* The guard is what Guard promises (ExclusiveGuard): one owner, and, from *)
(* WaiterReturns, a wait of bounded length; nothing happens when its owner *)
(* takes it again.                                                         *)
(***************************************************************************)
EXTENDS Naturals

CONSTANTS
    Threads, \* the threads that make calls
    None     \* nobody

ASSUME LaneAssumption == None \notin Threads

VARIABLES
    lane,  \* owner of g_http_lock
    guard, \* owner of the watchdog guard
    pc,    \* pc[p]: "idle", a place in the call, or its result "ok" or "fail"
    call,  \* call[p]: which resources the call uses
    board  \* "up", or "reset" by the watchdog

laneVars == <<lane, guard, pc, call, board>>

(* lock_http, guard_timeout_ms > 0, and whether the call itself took the   *)
(* guard.                                                                  *)
Calls == [locked : BOOLEAN, guarded : BOOLEAN, own : BOOLEAN]
NoCall == [locked |-> FALSE, guarded |-> FALSE, own |-> FALSE]

LaneInit ==
    /\ lane = None /\ guard = None /\ board = "up"
    /\ pc = [p \in Threads |-> "idle"]
    /\ call = [p \in Threads |-> NoCall]

Up == board = "up"

Goto(p, l) == pc' = [pc EXCEPT ![p] = l]

(* Where a call goes on once it has the lane, or needs none.               *)
AfterLane(c) == IF c.guarded THEN "guard" ELSE "io"

(* Mutant of Begin: the guard is started before the lane is waited for.    *)
Begin_GuardFirst(p, locked, guarded) ==
    /\ pc[p] = "idle"
    /\ LET early == guarded /\ guard = None
           c == [locked |-> locked, guarded |-> guarded, own |-> early]
       IN /\ call' = [call EXCEPT ![p] = c]
          /\ guard' = IF early THEN p ELSE guard
          /\ Goto(p, IF locked THEN "lane" ELSE AfterLane(c))
    /\ UNCHANGED <<lane, board>>

(* Thread p calls fc_http_perform, or a local tool with locked = FALSE.    *)
Begin(p, locked, guarded) ==
    /\ pc[p] = "idle"
    /\ LET c == [locked |-> locked, guarded |-> guarded, own |-> FALSE]
       IN /\ call' = [call EXCEPT ![p] = c]
          /\ Goto(p, IF locked THEN "lane" ELSE AfterLane(c))
    /\ UNCHANGED <<lane, guard, board>>

(* The call fails before it takes anything: URL or path not allowed, no    *)
(* memory, no key.                                                         *)
Refused(p) ==
    /\ pc[p] = "idle"
    /\ Goto(p, "fail")
    /\ UNCHANGED <<lane, guard, call, board>>

(* The caller has seen the result.                                         *)
Consume(p) ==
    /\ Goto(p, "idle")
    /\ call' = [call EXCEPT ![p] = NoCall]
    /\ UNCHANGED <<lane, guard, board>>
-----------------------------------------------------------------------------
(* Mutant of LaneLock: the lane is waited for without a deadline.          *)
LaneLock_Untimed(p) ==
    /\ Up /\ pc[p] = "lane" /\ lane = None
    /\ lane' = p /\ Goto(p, AfterLane(call[p]))
    /\ UNCHANGED <<guard, call, board>>

(* fc_http_lock_timed.                                                     *)
LaneLock(p) ==
    /\ Up /\ pc[p] = "lane"
    /\ IF lane = None
       THEN lane' = p /\ Goto(p, AfterLane(call[p]))
       ELSE Goto(p, "fail") /\ UNCHANGED lane
    /\ UNCHANGED <<guard, call, board>>

(* Mutant of GuardStart: a refused guard leaves the lane locked.           *)
GuardStart_KeepsLane(p) ==
    /\ Up /\ pc[p] = "guard"
    /\ \/ /\ guard \in {None, p}
          /\ guard' = p
          /\ call' = [call EXCEPT ![p].own = guard = None]
          /\ Goto(p, "io")
          /\ UNCHANGED lane
       \/ /\ guard # p
          /\ Goto(p, "fail")
          /\ UNCHANGED <<lane, guard, call>>
    /\ UNCHANGED board

(* Mutant of GuardStart: a refused guard is gone without.                  *)
GuardStart_GoesOn(p) ==
    /\ Up /\ pc[p] = "guard"
    /\ guard' = IF guard = None THEN p ELSE guard
    /\ call' = [call EXCEPT ![p].own = guard = None]
    /\ Goto(p, "io")
    /\ UNCHANGED <<lane, board>>

(* fc_guard_long_start or fc_guard_arm: taken, nothing to do for a thread  *)
(* that already owns it, or refused (busy for too long, no descriptor);    *)
(* then the lane is given back.                                            *)
GuardStart(p) ==
    /\ Up /\ pc[p] = "guard"
    /\ \/ /\ guard \in {None, p}
          /\ guard' = p
          /\ call' = [call EXCEPT ![p].own = guard = None]
          /\ Goto(p, "io")
          /\ UNCHANGED lane
       \/ /\ guard # p
          /\ Goto(p, "fail")
          /\ lane' = IF lane = p THEN None ELSE lane
          /\ UNCHANGED <<guard, call>>
    /\ UNCHANGED board

(* webclient_perform returns, or the tool's own operation does.            *)
IoReturns(p) ==
    /\ Up /\ pc[p] = "io"
    /\ Goto(p, "stop")
    /\ UNCHANGED <<lane, guard, call, board>>

(* fc_guard_long_stop or fc_guard_disarm.                                  *)
GuardStop(p) ==
    /\ Up /\ pc[p] = "stop"
    /\ guard' = IF call[p].own THEN None ELSE guard
    /\ call' = [call EXCEPT ![p].own = FALSE]
    /\ Goto(p, "unlock")
    /\ UNCHANGED <<lane, board>>

(* The lane is given back, and the call has a result.                      *)
LaneUnlock(p) ==
    /\ Up /\ pc[p] = "unlock"
    /\ lane' = IF call[p].locked THEN None ELSE lane
    /\ \E r \in {"ok", "fail"} : Goto(p, r)
    /\ UNCHANGED <<guard, call, board>>

(* The deadline of a guard passes before its owner stops it.               *)
Expire(p) ==
    /\ Up /\ guard = p
    /\ board' = "reset"
    /\ UNCHANGED <<lane, guard, pc, call>>

CallStep(p) == LaneLock(p) \/ GuardStart(p) \/ GuardStop(p) \/ LaneUnlock(p)

(* p holds the lane for its call.                                          *)
InLane(p) == call[p].locked /\ pc[p] \in {"guard", "io", "stop", "unlock"}

LaneTypeOK ==
    /\ lane \in Threads \cup {None} /\ guard \in Threads \cup {None}
    /\ pc \in [Threads -> {"idle", "lane", "guard", "io", "stop", "unlock",
                           "ok", "fail"}]
    /\ call \in [Threads -> Calls]
    /\ board \in {"up", "reset"}
=============================================================================
