------------------------------- MODULE Guard -------------------------------
(***************************************************************************)
(* core/fc_guard.c: one RP23xx watchdog shared by every risky operation    *)
(* (short and long guards), by the session progress monitor and by the     *)
(* recovery paths.                                                         *)
(*                                                                         *)
(* g_guard_lock only covers the variables: the watchdog registers are      *)
(* written outside it, with values read earlier.  Every critical section   *)
(* of g_guard_lock, and every group of register writes between two of      *)
(* them, is therefore a step of its own.  A guard stage word is abstracted *)
(* to the thread whose operation it names.  Time is counted in ticks.      *)
(***************************************************************************)
EXTENDS Naturals, FiniteSets

CONSTANTS
    Threads,        \* threads that run guarded operations
    Fds,            \* descriptors open("/dev/watchdog0") can return
    Group,          \* Group[p]: task group of p; descriptors are per group
    NoFd,           \* guard_fd = -1
    None,           \* no owner, stage 0
    System,         \* the session, uptime and recovery threads
    GuardTicks,     \* CONFIG_FRUITCLAW_GUARD_TIMEOUT_MS
    SessionHwTicks, \* CONFIG_FRUITCLAW_SESSION_GUARD_HW_TIMEOUT_MS
    HwMaxTicks,     \* RP23XX_WATCHDOG_LOAD_MASK
    AcquireTicks,   \* CONFIG_FRUITCLAW_GUARD_ACQUIRE_TIMEOUT_MS
    LongTicks,      \* timeout_ms of a long guard
    SessionTicks,   \* CONFIG_FRUITCLAW_SESSION_GUARD_TIMEOUT_MS
    Features,       \* which of "session", "uptime", "reboot", "recover", "long"
    Failures        \* which of "open", "ioctl", "spawn" may fail

ASSUME ThreadsAssumption == None \notin Threads /\ System \notin Threads
                            /\ None # System
ASSUME FdsAssumption == NoFd \notin Fds
ASSUME TicksAssumption ==
    /\ GuardTicks \in Nat /\ SessionHwTicks \in Nat /\ HwMaxTicks \in Nat
    /\ AcquireTicks \in Nat /\ LongTicks \in Nat /\ SessionTicks \in Nat

VARIABLES
    owner,      \* g_short_guard_owner; None when !g_short_guard_active
    boundFd,    \* g_short_guard_fd
    stage,      \* g_guard_active_stage
    hw,         \* watchdog registers: enabled, scratch stage, ticks to go
    pc,         \* pc[p]: where p is in a guard call, "run" outside of one
    fd,         \* fd[p]: the descriptor of p's guard
    seen,       \* seen[p]: active_stage that waiting p read under the lock
    waited,     \* waited[p]: ticks since p called fc_guard_begin_short
    feeder,     \* feeder[p]: the thread of p's long guard
    left,       \* left[p]: ticks until deadline_ms of p's long guard
    sess,       \* session thread: "off", "top", "act" or "exit"
    sessStop,   \* g_session_stop
    sessStale,  \* now - last > timeout, as read at the top of the loop
    beatAge,    \* ticks since g_session_last_ms
    tripped,    \* g_uptime_tripped
    recovering, \* fc_guard_recover_now was entered
    reboot,     \* fc_guard_prepare_controlled_reboot: "no", "join", "ready"
    down        \* the board is being reset

shortVars == <<owner, boundFd, stage>>
callVars == <<pc, fd, seen, waited>>
feedVars == <<feeder, left>>
sessVars == <<sess, sessStop, sessStale>>
recoveryVars == <<tripped, recovering, reboot, down>>
vars == <<shortVars, hw, callVars, feedVars, sessVars, beatAge, recoveryVars>>

CallPcs == {"run", "feed", "sleep", "open", "stop", "arm", "unwind", "spawn",
            "join", "check", "disarm", "release"}

Lesser(a, b) == IF a < b THEN a ELSE b

Init ==
    /\ owner = None /\ boundFd = NoFd /\ stage = None
    /\ hw = [on |-> FALSE, stage |-> None, left |-> 0]
    /\ pc = [p \in Threads |-> "run"]
    /\ fd = [p \in Threads |-> NoFd]
    /\ seen = [p \in Threads |-> None]
    /\ waited = [p \in Threads |-> 0]
    /\ feeder = [p \in Threads |-> "none"]
    /\ left = [p \in Threads |-> 0]
    /\ sess = "off" /\ sessStop = FALSE /\ sessStale = FALSE
    /\ beatAge = 0
    /\ tripped = FALSE /\ recovering = FALSE /\ reboot = "no" /\ down = FALSE

(* p is inside an operation guarded by its own watchdog.                   *)
InRegion(p) == pc[p] = "run" /\ fd[p] # NoFd

-----------------------------------------------------------------------------
(* Watchdog registers.                                                     *)

(* Mutant of HwArm: the clamp to the register width is missing.            *)
HwArm_Unclamped(ticks, st) ==
    hw' = [on |-> TRUE, stage |-> st, left |-> ticks]

(* fc_guard_hw_arm: the load register saturates at its width.              *)
HwArm(ticks, st) ==
    hw' = [on |-> TRUE, stage |-> st, left |-> Lesser(ticks, HwMaxTicks)]

(* fc_guard_hw_clear_scratch and fc_guard_hw_stop.                         *)
HwStop == hw' = [on |-> FALSE, stage |-> None, left |-> 0]

Heartbeat == beatAge' = 0

(* fc_guard_set_short_active(true, st) called by w.                        *)
SetShortActive(w, st) == owner' = w /\ boundFd' = NoFd /\ stage' = st

(* fc_guard_set_short_active(false, 0).                                    *)
SetShortInactive == owner' = None /\ boundFd' = NoFd /\ stage' = None

Goto(p, l) == pc' = [pc EXCEPT ![p] = l]
-----------------------------------------------------------------------------
(* Taking the guard: fc_guard_begin_short, fc_guard_arm,                   *)
(* fc_guard_long_start.                                                    *)

(* The critical section of fc_guard_begin_short when the guard is free.    *)
Acquire(p) ==
    /\ ~tripped
    /\ owner = None
    /\ SetShortActive(p, p)
    /\ Goto(p, "open")
    /\ seen' = [seen EXCEPT ![p] = None]
    /\ waited' = [waited EXCEPT ![p] = 0]

(* Mutant of Busy: the deadline is computed anew in every iteration.       *)
Busy_FreshDeadline(p) ==
    /\ ~tripped
    /\ owner \notin {None, p}
    /\ seen' = [seen EXCEPT ![p] = stage]
    /\ Goto(p, "feed")
    /\ waited' = [waited EXCEPT ![p] = 0]
    /\ UNCHANGED shortVars

(* The critical section when somebody else holds it and time is left.      *)
Busy(p) ==
    /\ ~tripped
    /\ owner \notin {None, p}
    /\ seen' = [seen EXCEPT ![p] = stage]
    /\ Goto(p, "feed")
    /\ UNCHANGED <<shortVars, waited>>

(* A guarded operation starts.  A refusal (uptime tripped, or busy with no *)
(* acquire timeout) changes nothing, and so does a guarded call inside a   *)
(* guarded operation of the same thread: begin_short returns 1, the handle *)
(* is -1 and its disarm returns at once.                                   *)
Begin(p) ==
    /\ pc[p] = "run" /\ fd[p] = NoFd
    /\ Acquire(p) \/ (Busy(p) /\ AcquireTicks > 0)
    /\ UNCHANGED <<hw, fd, feedVars, sessVars, beatAge, recoveryVars>>

(* Outside the lock, a waiter feeds the watchdog of the operation it saw   *)
(* and refreshes the session heartbeat.                                    *)
WaiterFeed(p) ==
    /\ pc[p] = "feed"
    /\ HwArm(GuardTicks, seen[p])
    /\ Heartbeat
    /\ Goto(p, "sleep")
    /\ UNCHANGED <<shortVars, fd, seen, waited, feedVars,
                   sessVars, recoveryVars>>

(* Mutant of WaiterRetry: at the deadline the waiter takes the guard over. *)
WaiterRetry_TakesOver(p) ==
    /\ pc[p] = "sleep"
    /\ \/ Acquire(p)
       \/ Busy(p) /\ waited[p] < AcquireTicks
       \/ /\ owner # None /\ waited[p] >= AcquireTicks
          /\ SetShortActive(p, p)
          /\ Goto(p, "open")
          /\ seen' = [seen EXCEPT ![p] = None]
          /\ waited' = [waited EXCEPT ![p] = 0]
    /\ UNCHANGED <<hw, fd, feedVars, sessVars, beatAge, recoveryVars>>

(* After usleep the waiter takes the lock again; it gives up (-EBUSY) only *)
(* when the guard is still taken and the acquire deadline has passed.      *)
WaiterRetry(p) ==
    /\ pc[p] = "sleep"
    /\ \/ Acquire(p)
       \/ Busy(p) /\ waited[p] < AcquireTicks
       \/ /\ tripped \/ (owner # None /\ waited[p] >= AcquireTicks)
          /\ Goto(p, "run")
          /\ seen' = [seen EXCEPT ![p] = None]
          /\ waited' = [waited EXCEPT ![p] = 0]
          /\ UNCHANGED shortVars
    /\ UNCHANGED <<hw, fd, feedVars, sessVars, beatAge, recoveryVars>>

(* Mutant of Open: the descriptor is not bound to the guard.               *)
Open_NotBound(p) ==
    /\ pc[p] = "open"
    /\ \E f \in Fds :
        /\ \A q \in Threads : Group[q] = Group[p] => fd[q] # f
        /\ fd' = [fd EXCEPT ![p] = f]
    /\ Goto(p, "stop")
    /\ UNCHANGED <<shortVars, hw, seen, waited, feedVars, sessVars, beatAge,
                   recoveryVars>>

(* open() and fc_guard_bind_short_fd.  A failed open gives the guard back  *)
(* without touching the watchdog.                                          *)
Open(p) ==
    /\ pc[p] = "open"
    /\ \/ \E f \in Fds :
            /\ \A q \in Threads : Group[q] = Group[p] => fd[q] # f
            /\ fd' = [fd EXCEPT ![p] = f]
            /\ boundFd' = IF owner # None THEN f ELSE boundFd
            /\ Goto(p, "stop")
            /\ UNCHANGED <<owner, stage>>
       \/ /\ "open" \in Failures
          /\ SetShortInactive
          /\ Goto(p, "run")
          /\ UNCHANGED fd
    /\ UNCHANGED <<hw, seen, waited, feedVars, sessVars, beatAge,
                   recoveryVars>>

(* WDIOC_STOP before the watchdog is programmed.  On an error the watchdog *)
(* is stopped as well.                                                     *)
StopDevice(p) ==
    /\ pc[p] = "stop"
    /\ HwStop
    /\ \/ Goto(p, "arm")
       \/ "ioctl" \in Failures /\ Goto(p, "unwind")
    /\ UNCHANGED <<shortVars, fd, seen, waited, feedVars, sessVars,
                   beatAge, recoveryVars>>

(* fc_guard_program_fd, or its failure: clear the scratch words, stop.     *)
(* fc_guard_arm ends here; fc_guard_long_start goes on to its feeder.      *)
ProgramFd(p) ==
    /\ pc[p] = "arm"
    /\ \/ /\ HwArm(GuardTicks, p)
          /\ Goto(p, "run") \/ ("long" \in Features /\ Goto(p, "spawn"))
       \/ "ioctl" \in Failures /\ HwStop /\ Goto(p, "unwind")
    /\ UNCHANGED <<shortVars, fd, seen, waited, feedVars, sessVars,
                   beatAge, recoveryVars>>

(* errout: release the guard, close, return the error.                     *)
Unwind(p) ==
    /\ pc[p] = "unwind"
    /\ SetShortInactive
    /\ fd' = [fd EXCEPT ![p] = NoFd]
    /\ Goto(p, "run")
    /\ UNCHANGED <<hw, seen, waited, feedVars, sessVars, beatAge,
                   recoveryVars>>

(* pthread_create of the feeder; a failure disarms the guard again.  The   *)
(* budget starts here; the code has computed its deadline before it waited *)
(* for the guard, so its budget is shorter by the time of that wait.       *)
SpawnFeeder(p) ==
    /\ pc[p] = "spawn"
    /\ \/ /\ feeder' = [feeder EXCEPT ![p] = "feeding"]
          /\ left' = [left EXCEPT ![p] = LongTicks]
          /\ Goto(p, "run")
       \/ "spawn" \in Failures /\ Goto(p, "check") /\ UNCHANGED feedVars
    /\ UNCHANGED <<shortVars, hw, fd, seen, waited, sessVars, beatAge,
                   recoveryVars>>
-----------------------------------------------------------------------------
(* During and after the operation.                                         *)

(* Mutant of FeederStep: the deadline is not looked at.                    *)
FeederStep_NoDeadline(p) ==
    /\ \/ /\ feeder[p] = "feeding"
          /\ HwArm(GuardTicks, p)
          /\ Heartbeat
          /\ UNCHANGED feedVars
       \/ /\ feeder[p] = "stopping"
          /\ feeder' = [feeder EXCEPT ![p] = "none"]
          /\ UNCHANGED <<hw, beatAge, left>>
    /\ UNCHANGED <<shortVars, callVars, sessVars, recoveryVars>>

(* fc_guard_long_thread: feed the watchdog until told to stop, or go into  *)
(* recovery at the deadline (the expired flag keeps the owner waiting).    *)
FeederStep(p) ==
    /\ \/ /\ feeder[p] = "feeding" /\ left[p] > 0
          /\ HwArm(GuardTicks, p)
          /\ Heartbeat
          /\ UNCHANGED <<shortVars, feeder, recovering>>
       \/ /\ feeder[p] = "feeding" /\ left[p] = 0
          /\ feeder' = [feeder EXCEPT ![p] = "expired"]
          /\ SetShortActive(System, p)
          /\ recovering' = TRUE
          /\ UNCHANGED <<hw, beatAge>>
       \/ /\ feeder[p] = "stopping"
          /\ feeder' = [feeder EXCEPT ![p] = "none"]
          /\ UNCHANGED <<shortVars, hw, beatAge, recovering>>
    /\ left' = IF feeder[p] = "stopping" THEN [left EXCEPT ![p] = 0] ELSE left
    /\ UNCHANGED <<callVars, sessVars, tripped, reboot, down>>

(* fc_guard_long_set_stage between two phases of a long operation.         *)
SetStage(p) ==
    /\ InRegion(p) /\ feeder[p] # "none"
    /\ stage' = IF owner # None THEN p ELSE stage
    /\ HwArm(GuardTicks, p)
    /\ UNCHANGED <<owner, boundFd, callVars, feedVars, sessVars, beatAge,
                   recoveryVars>>

(* The operation unwinds: fc_guard_disarm, or fc_guard_long_stop, which    *)
(* first raises guard->stop and joins the feeder.                          *)
End(p) ==
    /\ InRegion(p)
    /\ Goto(p, IF feeder[p] = "none" THEN "check" ELSE "join")
    /\ feeder' = IF feeder[p] = "feeding"
                 THEN [feeder EXCEPT ![p] = "stopping"] ELSE feeder
    /\ UNCHANGED <<shortVars, hw, fd, seen, waited, left, sessVars,
                   beatAge, recoveryVars>>

Join(p) ==
    /\ pc[p] = "join" /\ feeder[p] = "none"
    /\ Goto(p, "check")
    /\ UNCHANGED <<shortVars, hw, fd, seen, waited, feedVars, sessVars,
                   beatAge, recoveryVars>>

(* fc_guard_short_fd_matches.                                              *)
FdMatches(p) == owner # None /\ boundFd \in {NoFd, fd[p]}

(* Mutant of DisarmCheck: the guard is released before the watchdog is     *)
(* stopped.                                                                *)
DisarmCheck_ReleasesFirst(p) ==
    /\ pc[p] = "check"
    /\ \/ /\ tripped \/ ~FdMatches(p)
          /\ fd' = [fd EXCEPT ![p] = NoFd]
          /\ Goto(p, "run")
          /\ UNCHANGED shortVars
       \/ /\ ~tripped /\ FdMatches(p)
          /\ Goto(p, "disarm")
          /\ SetShortInactive
          /\ UNCHANGED fd
    /\ UNCHANGED <<hw, seen, waited, feedVars, sessVars, beatAge, recoveryVars>>

(* fc_guard_disarm up to its first register write: a tripped uptime guard  *)
(* or a stale descriptor only closes the descriptor.                       *)
DisarmCheck(p) ==
    /\ pc[p] = "check"
    /\ \/ /\ tripped \/ ~FdMatches(p)
          /\ fd' = [fd EXCEPT ![p] = NoFd]
          /\ Goto(p, "run")
       \/ /\ ~tripped /\ FdMatches(p)
          /\ Goto(p, "disarm")
          /\ UNCHANGED fd
    /\ UNCHANGED <<shortVars, hw, seen, waited, feedVars, sessVars,
                   beatAge, recoveryVars>>

(* Clear the scratch words, WDIOC_STOP, fc_guard_hw_stop (the ioctls may   *)
(* fail, the direct register write does not).                              *)
DisarmHw(p) ==
    /\ pc[p] = "disarm"
    /\ HwStop
    /\ Goto(p, "release")
    /\ UNCHANGED <<shortVars, fd, seen, waited, feedVars, sessVars,
                   beatAge, recoveryVars>>

(* close() and fc_guard_set_short_active(false, 0).                        *)
DisarmRelease(p) ==
    /\ pc[p] = "release"
    /\ SetShortInactive
    /\ fd' = [fd EXCEPT ![p] = NoFd]
    /\ Goto(p, "run")
    /\ UNCHANGED <<hw, seen, waited, feedVars, sessVars, beatAge,
                   recoveryVars>>
-----------------------------------------------------------------------------
(* The session thread.                                                     *)

(* fc_guard_session_start.                                                 *)
SessionStart ==
    /\ "session" \in Features
    /\ sess = "off" /\ reboot # "join"
    /\ sess' = "top"
    /\ sessStop' = FALSE
    /\ Heartbeat
    /\ UNCHANGED <<shortVars, hw, callVars, feedVars, sessStale, recoveryVars>>

(* Mutant of SessionRead: an active guard does not hold the feeding back.  *)
SessionRead_IgnoresGuard ==
    /\ sess = "top"
    /\ \/ sessStop /\ sess' = "exit" /\ UNCHANGED sessStale
       \/ /\ ~sessStop
          /\ sess' = "act"
          /\ sessStale' = (beatAge > SessionTicks)
    /\ UNCHANGED <<shortVars, hw, callVars, feedVars, sessStop, beatAge,
                   recoveryVars>>

(* One locked read of heartbeat, guard and stop flag per iteration.  With  *)
(* a guard active the thread leaves the watchdog alone and sleeps.         *)
SessionRead ==
    /\ sess = "top"
    /\ \/ sessStop /\ sess' = "exit" /\ UNCHANGED sessStale
       \/ /\ ~sessStop /\ owner = None
          /\ sess' = "act"
          /\ sessStale' = (beatAge > SessionTicks)
    /\ UNCHANGED <<shortVars, hw, callVars, feedVars, sessStop, beatAge,
                   recoveryVars>>

(* Mutant of SessionAct: stale heartbeats are fed like fresh ones.         *)
SessionAct_AlwaysFeeds ==
    /\ sess = "act"
    /\ sess' = "top" /\ sessStale' = FALSE
    /\ HwArm(SessionHwTicks, System)
    /\ UNCHANGED <<shortVars, callVars, feedVars, sessStop, beatAge,
                   recoveryVars>>

(* What the thread does with the values it read: program and feed the      *)
(* watchdog as the session, or trip and recover.  (The first branch of the *)
(* code, program when !session_armed, writes the same register values.)    *)
SessionAct ==
    /\ sess = "act"
    /\ sess' = "top" /\ sessStale' = FALSE
    /\ \/ /\ ~sessStale
          /\ HwArm(SessionHwTicks, System)
          /\ UNCHANGED <<shortVars, recovering>>
       \/ /\ sessStale
          /\ UNCHANGED hw \/ HwArm(SessionHwTicks, System)
          /\ SetShortActive(System, System)
          /\ recovering' = TRUE
    /\ UNCHANGED <<callVars, feedVars, sessStop, beatAge, tripped, reboot, down>>

(* The thread's exit path stops the watchdog and frees the guard, whoever  *)
(* holds it.                                                               *)
SessionExit ==
    /\ sess = "exit"
    /\ HwStop
    /\ SetShortInactive
    /\ sess' = "off"
    /\ UNCHANGED <<callVars, feedVars, sessStop, sessStale, beatAge,
                   recoveryVars>>

(* fc_guard_session_heartbeat from the workers.                            *)
WorkerBeat ==
    /\ Heartbeat
    /\ UNCHANGED <<shortVars, hw, callVars, feedVars, sessVars, recoveryVars>>
-----------------------------------------------------------------------------
(* Recovery, reboot, time.                                                 *)

(* The uptime deadline, seen by its own thread or by the session thread.   *)
UptimeTrip ==
    /\ "uptime" \in Features
    /\ ~tripped
    /\ tripped' = TRUE
    /\ UNCHANGED <<shortVars, hw, callVars, feedVars, sessVars, beatAge,
                   recovering, reboot, down>>

(* fc_guard_recover_now, entered after the trip or by                      *)
(* fc_guard_force_recovery.                                                *)
RecoverNow ==
    /\ tripped \/ "recover" \in Features
    /\ ~recovering
    /\ recovering' = TRUE
    /\ SetShortActive(System, System)
    /\ UNCHANGED <<hw, callVars, feedVars, sessVars, beatAge, tripped, reboot,
                   down>>

(* fc_guard_prepare_controlled_reboot up to the join.                      *)
PrepareReboot ==
    /\ "reboot" \in Features
    /\ reboot = "no"
    /\ reboot' = "join"
    /\ sessStop' = IF sess = "off" THEN sessStop ELSE TRUE
    /\ UNCHANGED <<shortVars, hw, callVars, feedVars, sess, sessStale, beatAge,
                   tripped, recovering, down>>

(* ... and after it.                                                       *)
RebootReady ==
    /\ reboot = "join" /\ sess = "off"
    /\ reboot' = "ready"
    /\ sessStop' = FALSE
    /\ HwStop
    /\ UNCHANGED <<shortVars, callVars, feedVars, sess, sessStale, beatAge,
                   tripped, recovering, down>>

(* The reset itself: the watchdog runs out, fc_guard_hw_reset_now or       *)
(* up_systemreset, or boardctl(BOARDIOC_RESET) after the preparation.      *)
Reset ==
    /\ ~down
    /\ recovering \/ reboot = "ready" \/ (hw.on /\ hw.left = 0)
    /\ down' = TRUE
    /\ UNCHANGED <<shortVars, hw, callVars, feedVars, sessVars, beatAge,
                   tripped, recovering, reboot>>

(* After the reset every variable has its initial value again.             *)
Restart ==
    /\ down
    /\ owner' = None /\ boundFd' = NoFd /\ stage' = None
    /\ HwStop
    /\ pc' = [p \in Threads |-> "run"]
    /\ fd' = [p \in Threads |-> NoFd]
    /\ seen' = [p \in Threads |-> None]
    /\ waited' = [p \in Threads |-> 0]
    /\ feeder' = [p \in Threads |-> "none"]
    /\ left' = [p \in Threads |-> 0]
    /\ sess' = "off" /\ sessStop' = FALSE /\ sessStale' = FALSE
    /\ beatAge' = 0
    /\ tripped' = FALSE /\ recovering' = FALSE /\ reboot' = "no" /\ down' = FALSE

(* Time passes.                                                            *)
Tick ==
    /\ ~(hw.on /\ hw.left = 0)
    /\ hw' = IF hw.on THEN [hw EXCEPT !.left = hw.left - 1] ELSE hw
    /\ waited' = [p \in Threads |-> IF pc[p] \in {"feed", "sleep"}
                                    THEN Lesser(waited[p] + 1, AcquireTicks)
                                    ELSE waited[p]]
    /\ left' = [p \in Threads |-> IF left[p] > 0 THEN left[p] - 1 ELSE 0]
    /\ beatAge' = Lesser(beatAge + 1, SessionTicks + 1)
    /\ UNCHANGED <<shortVars, pc, fd, seen, feeder, sessVars,
                   recoveryVars>>
-----------------------------------------------------------------------------
CallStep(p) ==
    \/ WaiterFeed(p) \/ WaiterRetry(p) \/ Open(p) \/ StopDevice(p)
    \/ ProgramFd(p) \/ Unwind(p) \/ SpawnFeeder(p) \/ Join(p)
    \/ DisarmCheck(p) \/ DisarmHw(p) \/ DisarmRelease(p)

ThreadStep(p) ==
    \/ Begin(p) \/ CallStep(p) \/ FeederStep(p) \/ SetStage(p) \/ End(p)

SystemStep ==
    \/ SessionStart \/ SessionRead \/ SessionAct \/ SessionExit \/ WorkerBeat
    \/ UptimeTrip \/ RecoverNow \/ PrepareReboot \/ RebootReady \/ Tick

Next ==
    \/ ~down /\ ((\E p \in Threads : ThreadStep(p)) \/ SystemStep)
    \/ Reset
    \/ Restart

Spec == Init /\ [][Next]_vars

(* Time passes, a started register write or lock section completes, the    *)
(* high-priority feeder and session threads run, and a reset that is due   *)
(* happens.  Nothing forces an operation to unwind (End), a worker to beat *)
(* or a new operation to begin.  The session thread samples the guard once *)
(* a second, so it meets a moment without a guard if those keep coming     *)
(* (strong fairness).                                                      *)
Fairness ==
    /\ WF_vars(~down /\ Tick)
    /\ WF_vars(Reset)
    /\ WF_vars(~down /\ tripped /\ RecoverNow)
    /\ SF_vars(~down /\ SessionRead)
    /\ WF_vars(~down /\ (SessionAct \/ SessionExit))
    /\ \A p \in Threads :
        /\ WF_vars(~down /\ CallStep(p))
        /\ WF_vars(~down /\ FeederStep(p))

FairSpec == Spec /\ Fairness
-----------------------------------------------------------------------------
(* Type invariant of the guard's variables and of the threads in it.       *)
TypeOK ==
    /\ owner \in Threads \cup {None, System}
    /\ boundFd \in Fds \cup {NoFd}
    /\ stage \in Threads \cup {None, System}
    /\ hw \in [on : BOOLEAN, stage : Threads \cup {None, System},
              left : 0 .. HwMaxTicks]
    /\ pc \in [Threads -> CallPcs]
    /\ fd \in [Threads -> Fds \cup {NoFd}]
    /\ seen \in [Threads -> Threads \cup {None, System}]
    /\ waited \in [Threads -> Nat]
    /\ feeder \in [Threads -> {"none", "feeding", "stopping", "expired"}]
    /\ left \in [Threads -> Nat]
    /\ sess \in {"off", "top", "act", "exit"}
    /\ sessStop \in BOOLEAN /\ sessStale \in BOOLEAN
    /\ beatAge \in Nat
    /\ tripped \in BOOLEAN /\ recovering \in BOOLEAN /\ down \in BOOLEAN
    /\ reboot \in {"no", "join", "ready"}

(* Only one guarded operation runs at a time, whatever the order in which  *)
(* fc_guard_arm, its error paths, waiting threads, fc_guard_disarm and the *)
(* recovery paths interleave (README: "Only one short/long risky-operation *)
(* guard may own the RP2350 watchdog at a time").                          *)
OneGuardOwner == \A p, q \in Threads : InRegion(p) /\ InRegion(q) => p = q

(* The same, for as long as no controlled reboot is being prepared.        *)
GuardExclusive == reboot = "no" => OneGuardOwner

(* While a guarded operation runs the watchdog is enabled: no disarm, no   *)
(* failed arm and no waiter of another thread switches it off under it.    *)
WatchdogCoversOperation ==
    reboot = "no" => \A p \in Threads : InRegion(p) => hw.on

(* fc_guard_disarm never takes the guard of the calling thread for a stale *)
(* one (it would then leave the guard taken for ever).                     *)
DisarmFindsOwnGuard ==
    reboot = "no" /\ ~recovering =>
        \A p \in Threads : pc[p] = "check" => owner = p /\ boundFd = fd[p]

(* "If the operation does not unwind, the watchdog resets the board."      *)
HungOperationResets ==
    \A p \in Threads : InRegion(p) ~> (~InRegion(p) \/ down)

(* The same, if from some time on no thread waits for the guard: neither   *)
(* the session thread, which may overwrite the operation's watchdog once   *)
(* with a value it read before, nor heartbeats of workers keep a hung      *)
(* operation alive.                                                        *)
UnfedHangResets ==
    <>[](\A q \in Threads : pc[q] \notin {"feed", "sleep"}) => HungOperationResets

(* A long guard resets the board at its deadline even while other threads  *)
(* wait for it and keep feeding the watchdog.                              *)
HungLongOperationResets ==
    \A p \in Threads : InRegion(p) /\ feeder[p] # "none"
                       ~> (~InRegion(p) \/ down)

(* fc_guard_begin_short does not wait for ever: a waiter gets the guard or *)
(* gives up, although every retry may find another owner.                  *)
WaiterReturns ==
    \A p \in Threads : pc[p] \in {"feed", "sleep"}
                       ~> (pc[p] \notin {"feed", "sleep"} \/ down)

(* "The watchdog is kept alive only while those heartbeats remain fresh":  *)
(* once they are stale they come back or the board resets.                 *)
StaleSessionResets ==
    sess # "off" /\ beatAge > SessionTicks ~> (beatAge <= SessionTicks \/ down)

(* p has the guard: from the critical section of fc_guard_begin_short that *)
(* took it to the one that gives it back.                                  *)
Holds(p) ==
    \/ pc[p] \in {"open", "stop", "arm", "unwind", "spawn", "join", "check",
                  "disarm", "release"}
    \/ InRegion(p)

Live == reboot = "no" /\ ~down

(* What fc_guard.c does for its callers: its waits, error paths, feeders,  *)
(* takeovers by a recovery and stale disarms never let a second thread in, *)
(* and the guard passes from one thread to the next only through a free    *)
(* guard.                                                                  *)
Exclusive == INSTANCE ExclusiveGuard WITH live <- Live,
                 holders <- IF Live THEN {p \in Threads : Holds(p)} ELSE {}
ImplementsExclusiveGuard == Exclusive!GuardSpec
=============================================================================
