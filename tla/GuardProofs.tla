---------------------------- MODULE GuardProofs ----------------------------
(***************************************************************************)
(* Proofs about core/fc_guard.c for every set of threads, every assignment *)
(* of threads to task groups, every timeout and every combination of       *)
(* features and failures.                                                  *)
(***************************************************************************)
EXTENDS Guard, TLAPS

(* A thread that waits for the guard, or has not opened it yet, has no     *)
(* descriptor.                                                             *)
NoEarlyFd ==
    \A p \in Threads : pc[p] \in {"feed", "sleep", "open"} => fd[p] = NoFd

(* The session thread leaves its loop only for a controlled reboot.        *)
SessionStays == reboot = "no" => ~sessStop /\ sess # "exit"

(* The guard is taken whenever somebody holds it.                          *)
HeldIsActive == reboot = "no" => \A p \in Threads : Holds(p) => owner # None

(* There is one holder.                                                    *)
OneHolder ==
    reboot = "no" => \A p, q \in Threads : Holds(p) /\ Holds(q) => p = q

(* The watchdog is enabled from the end of fc_guard_program_fd on.         *)
CoveredHold ==
    reboot = "no" =>
        \A p \in Threads : InRegion(p) \/ pc[p] = "spawn" => hw.on

(* Unless a recovery took the guard over, its owner is the holder, and it  *)
(* is bound to the holder's descriptor once that is open.                  *)
HolderOwns ==
    reboot = "no" /\ ~recovering =>
        \A p \in Threads :
            Holds(p) => owner = p /\ (pc[p] # "open" => boundFd = fd[p])

GuardInv ==
    /\ NoEarlyFd
    /\ SessionStays
    /\ HeldIsActive
    /\ OneHolder
    /\ CoveredHold
    /\ HolderOwns

USE DEF shortVars, callVars, feedVars, sessVars, recoveryVars
-----------------------------------------------------------------------------
(* Type correctness.                                                       *)

(* The clamp of fc_guard_hw_arm keeps the load value in range.             *)
LEMMA LesserType ==
    ASSUME NEW a \in Nat, NEW b \in Nat
    PROVE  Lesser(a, b) \in 0 .. b
BY DEF Lesser

(* Arming or stopping the watchdog leaves registers of the right type.     *)
LEMMA HwType ==
    ASSUME NEW st \in Threads \cup {None, System}, NEW t \in Nat,
           HwArm(t, st) \/ HwStop
    PROVE  hw' \in [on : BOOLEAN, stage : Threads \cup {None, System},
                    left : 0 .. HwMaxTicks]
<1>1. Lesser(t, HwMaxTicks) \in 0 .. HwMaxTicks
  BY LesserType, TicksAssumption
<1>2. 0 \in 0 .. HwMaxTicks
  BY TicksAssumption
<1>3. CASE HwArm(t, st)
  BY <1>1, <1>3, Zenon DEF HwArm
<1>4. CASE HwStop
  BY <1>2, <1>4, Zenon DEF HwStop
<1>5. QED
  BY <1>3, <1>4

(* Every step of a thread keeps the types.                                 *)
LEMMA ThreadType ==
    ASSUME TypeOK, NEW p \in Threads, ThreadStep(p)
    PROVE  TypeOK'
<1> USE TicksAssumption, HwType DEF TypeOK, CallPcs, Goto, SetShortActive,
        SetShortInactive
<1>1. CASE Begin(p)
  BY <1>1 DEF Begin, Acquire, Busy
<1>2. CASE WaiterFeed(p)
  <2>1. seen[p] \in Threads \cup {None, System} /\ HwArm(GuardTicks, seen[p])
    BY <1>2 DEF WaiterFeed
  <2>2. hw' \in [on : BOOLEAN, stage : Threads \cup {None, System},
                 left : 0 .. HwMaxTicks]
    BY <2>1
  <2>3. QED
    BY <1>2, <2>2 DEF WaiterFeed, Heartbeat
<1>3. CASE WaiterRetry(p)
  BY <1>3 DEF WaiterRetry, Acquire, Busy
<1>4. CASE Open(p)
  BY <1>4 DEF Open
<1>5. CASE StopDevice(p)
  BY <1>5 DEF StopDevice
<1>6. CASE ProgramFd(p)
  BY <1>6 DEF ProgramFd
<1>7. CASE Unwind(p)
  BY <1>7 DEF Unwind
<1>8. CASE SpawnFeeder(p)
  BY <1>8 DEF SpawnFeeder
<1>9. CASE Join(p) \/ DisarmCheck(p)
  BY <1>9 DEF Join, DisarmCheck
<1>10. CASE DisarmHw(p)
  BY <1>10 DEF DisarmHw
<1>11. CASE DisarmRelease(p)
  BY <1>11 DEF DisarmRelease
<1>12. CASE FeederStep(p)
  <2>1. hw' \in [on : BOOLEAN, stage : Threads \cup {None, System},
                 left : 0 .. HwMaxTicks]
    BY <1>12 DEF FeederStep
  <2>2. left' \in [Threads -> Nat] /\ beatAge' \in Nat
    BY <1>12 DEF FeederStep, Heartbeat
  <2>3. feeder' \in [Threads -> {"none", "feeding", "stopping", "expired"}]
    BY <1>12 DEF FeederStep
  <2>4. /\ owner' \in Threads \cup {None, System}
        /\ boundFd' \in Fds \cup {NoFd}
        /\ stage' \in Threads \cup {None, System}
        /\ recovering' \in BOOLEAN
    BY <1>12 DEF FeederStep
  <2>5. UNCHANGED <<callVars, sessVars, tripped, reboot, down>>
    BY <1>12 DEF FeederStep
  <2>6. QED
    BY <2>1, <2>2, <2>3, <2>4, <2>5
<1>13. CASE SetStage(p)
  BY <1>13 DEF SetStage
<1>14. CASE End(p)
  BY <1>14 DEF End
<1>15. QED
  BY <1>1, <1>2, <1>3, <1>4, <1>5, <1>6, <1>7, <1>8, <1>9, <1>10, <1>11,
     <1>12, <1>13, <1>14 DEF ThreadStep, CallStep

(* So does every other step.                                               *)
LEMMA SystemType ==
    ASSUME TypeOK, SystemStep \/ Reset \/ Restart \/ UNCHANGED vars
    PROVE  TypeOK'
<1> USE TicksAssumption, HwType DEF TypeOK, CallPcs, SetShortActive,
        SetShortInactive
<1>0. CASE SessionStart \/ WorkerBeat
  <2>1. sessStop' \in BOOLEAN /\ sess' \in {"off", "top", "act", "exit"}
    BY <1>0, Zenon DEF SessionStart, WorkerBeat
  <2>2. beatAge' \in Nat
    BY <1>0 DEF SessionStart, WorkerBeat, Heartbeat
  <2>3. UNCHANGED <<shortVars, hw, callVars, feedVars, sessStale, recoveryVars>>
    BY <1>0, Zenon DEF SessionStart, WorkerBeat
  <2>4. QED
    BY <2>1, <2>2, <2>3
<1>1. CASE SessionRead
  <2>1. sessStale' \in BOOLEAN
    <3>1. (beatAge > SessionTicks) \in BOOLEAN
      OBVIOUS
    <3>2. QED
      BY <1>1, <3>1, Zenon DEF SessionRead
  <2>2. QED
    BY <1>1, <2>1 DEF SessionRead
<1>2. CASE SessionAct
  <2>1. hw' \in [on : BOOLEAN, stage : Threads \cup {None, System},
                 left : 0 .. HwMaxTicks]
    BY <1>2 DEF SessionAct
  <2>2. QED
    BY <1>2, <2>1 DEF SessionAct
<1>3. CASE SessionExit
  BY <1>3 DEF SessionExit
<1>4. CASE UptimeTrip \/ RecoverNow \/ Reset
  <2>1. tripped' \in BOOLEAN /\ recovering' \in BOOLEAN /\ down' \in BOOLEAN
    BY <1>4, Zenon DEF UptimeTrip, RecoverNow, Reset
  <2>2. /\ owner' \in Threads \cup {None, System}
        /\ boundFd' \in Fds \cup {NoFd}
        /\ stage' \in Threads \cup {None, System}
    BY <1>4 DEF UptimeTrip, RecoverNow, Reset
  <2>3. UNCHANGED <<hw, callVars, feedVars, sessVars, beatAge, reboot>>
    BY <1>4, Zenon DEF UptimeTrip, RecoverNow, Reset
  <2>4. QED
    BY <2>1, <2>2, <2>3
<1>9. CASE PrepareReboot
  <2>1. sessStop' \in BOOLEAN
    BY <1>9, Zenon DEF PrepareReboot
  <2>2. /\ reboot' \in {"no", "join", "ready"}
        /\ UNCHANGED <<shortVars, hw, callVars, feedVars, sess, sessStale,
                       beatAge, tripped, recovering, down>>
    BY <1>9, Zenon DEF PrepareReboot
  <2>3. QED
    BY <2>1, <2>2
<1>5. CASE RebootReady
  <2>1. hw' \in [on : BOOLEAN, stage : Threads \cup {None, System},
                 left : 0 .. HwMaxTicks]
    BY <1>5 DEF RebootReady
  <2>2. QED
    BY <1>5, <2>1 DEF RebootReady
<1>6. CASE Tick
  <2>1. beatAge' \in Nat
    BY <1>6 DEF Tick, Lesser
  <2>2. waited' \in [Threads -> Nat]
    BY <1>6 DEF Tick, Lesser
  <2>3. left' \in [Threads -> Nat]
    BY <1>6 DEF Tick
  <2>4. hw' \in [on : BOOLEAN, stage : Threads \cup {None, System},
                 left : 0 .. HwMaxTicks]
    <3>1. CASE hw.on
      <4>1. hw.left \in 1 .. HwMaxTicks
        BY <1>6, <3>1 DEF Tick
      <4>2. hw.left - 1 \in 0 .. HwMaxTicks
        BY <4>1
      <4>3. QED
        BY <1>6, <3>1, <4>2 DEF Tick
    <3>2. CASE ~hw.on
      BY <1>6, <3>2 DEF Tick
    <3>3. QED
      BY <3>1, <3>2
  <2>5. QED
    BY <1>6, <2>1, <2>2, <2>3, <2>4 DEF Tick
<1>7. CASE Restart
  BY <1>7 DEF Restart
<1>8. CASE UNCHANGED vars
  BY <1>8 DEF vars
<1>10. QED
  BY <1>0, <1>1, <1>2, <1>3, <1>4, <1>5, <1>6, <1>7, <1>8, <1>9
     DEF SystemStep

(* Type correctness is preserved by every step.                            *)
LEMMA TypeStep == TypeOK /\ [Next]_vars => TypeOK'
BY ThreadType, SystemType DEF Next
-----------------------------------------------------------------------------
(* The guard.                                                              *)

(* Every step of a thread preserves the inductive invariant.               *)
LEMMA ThreadInv ==
    ASSUME TypeOK, GuardInv, NEW p \in Threads, ThreadStep(p)
    PROVE  GuardInv'
<1> USE ThreadsAssumption, FdsAssumption
    DEF TypeOK, CallPcs, Goto, SetShortActive, SetShortInactive, HwArm, HwStop,
        InRegion, Holds, GuardInv, NoEarlyFd, SessionStays, HeldIsActive,
        OneHolder, CoveredHold, HolderOwns
<1>1. CASE Begin(p)
  BY <1>1 DEF Begin, Acquire, Busy
<1>2. CASE WaiterFeed(p)
  BY <1>2 DEF WaiterFeed
<1>3. CASE WaiterRetry(p)
  BY <1>3 DEF WaiterRetry, Acquire, Busy
<1>4. CASE Open(p)
  BY <1>4 DEF Open
<1>5. CASE StopDevice(p)
  BY <1>5 DEF StopDevice
<1>6. CASE ProgramFd(p)
  BY <1>6 DEF ProgramFd
<1>7. CASE Unwind(p)
  BY <1>7 DEF Unwind
<1>8. CASE SpawnFeeder(p)
  BY <1>8 DEF SpawnFeeder
<1>9. CASE Join(p)
  BY <1>9 DEF Join
<1>10. CASE DisarmCheck(p)
  BY <1>10 DEF DisarmCheck, FdMatches
<1>11. CASE DisarmHw(p)
  BY <1>11 DEF DisarmHw
<1>12. CASE DisarmRelease(p)
  BY <1>12 DEF DisarmRelease
<1>13. CASE FeederStep(p)
  BY <1>13 DEF FeederStep
<1>14. CASE SetStage(p)
  BY <1>14 DEF SetStage
<1>15. CASE End(p)
  BY <1>15 DEF End
<1>16. QED
  BY <1>1, <1>2, <1>3, <1>4, <1>5, <1>6, <1>7, <1>8, <1>9, <1>10, <1>11,
     <1>12, <1>13, <1>14, <1>15 DEF ThreadStep, CallStep

(* So does every other step: the session thread and the recovery paths     *)
(* take the guard over or feed the watchdog but never free a held guard    *)
(* or stop its watchdog, unless a reboot is being prepared.                *)
LEMMA SystemInv ==
    ASSUME TypeOK, GuardInv, SystemStep \/ Reset \/ Restart \/ UNCHANGED vars
    PROVE  GuardInv'
<1> USE ThreadsAssumption, FdsAssumption
    DEF TypeOK, CallPcs, SetShortActive, SetShortInactive, HwArm, HwStop,
        InRegion, Holds, GuardInv, NoEarlyFd, SessionStays, HeldIsActive,
        OneHolder, CoveredHold, HolderOwns
<1>1. CASE SessionStart \/ SessionRead \/ WorkerBeat
  BY <1>1 DEF SessionStart, SessionRead, WorkerBeat
<1>2. CASE SessionAct
  BY <1>2 DEF SessionAct
<1>3. CASE SessionExit
  BY <1>3 DEF SessionExit
<1>4. CASE UptimeTrip \/ Reset
  BY <1>4 DEF UptimeTrip, Reset
<1>9. CASE RecoverNow
  BY <1>9 DEF RecoverNow
<1>10. CASE PrepareReboot
  BY <1>10 DEF PrepareReboot
<1>5. CASE RebootReady
  BY <1>5 DEF RebootReady
<1>6. CASE Tick
  BY <1>6 DEF Tick
<1>7. CASE Restart
  BY <1>7 DEF Restart
<1>8. CASE UNCHANGED vars
  BY <1>8 DEF vars
<1>11. QED
  BY <1>1, <1>2, <1>3, <1>4, <1>5, <1>6, <1>7, <1>8, <1>9, <1>10
     DEF SystemStep

(* The invariant is inductive.                                             *)
LEMMA InvStep == TypeOK /\ GuardInv /\ [Next]_vars => GuardInv'
BY ThreadInv, SystemInv DEF Next

(* At power-on nobody holds the guard and the watchdog is off.             *)
LEMMA InitInv == Init => TypeOK /\ GuardInv
<1> SUFFICES ASSUME Init PROVE TypeOK /\ GuardInv
  OBVIOUS
<1>1. hw \in [on : BOOLEAN, stage : Threads \cup {None, System},
              left : 0 .. HwMaxTicks]
  <2>1. 0 \in 0 .. HwMaxTicks
    BY TicksAssumption
  <2>2. QED
    BY <2>1, Zenon DEF Init
<1>2. /\ sessStop \in BOOLEAN /\ sessStale \in BOOLEAN /\ tripped \in BOOLEAN
      /\ recovering \in BOOLEAN /\ down \in BOOLEAN
  BY Zenon DEF Init
<1>3. TypeOK
  <2>1. /\ pc \in [Threads -> CallPcs]
        /\ fd \in [Threads -> Fds \cup {NoFd}]
        /\ seen \in [Threads -> Threads \cup {None, System}]
        /\ feeder \in [Threads -> {"none", "feeding", "stopping", "expired"}]
    BY Zenon DEF Init, CallPcs
  <2>2. waited \in [Threads -> Nat] /\ left \in [Threads -> Nat]
        /\ beatAge \in Nat
    BY DEF Init
  <2>3. /\ owner \in Threads \cup {None, System}
        /\ boundFd \in Fds \cup {NoFd}
        /\ stage \in Threads \cup {None, System}
        /\ sess \in {"off", "top", "act", "exit"}
        /\ reboot \in {"no", "join", "ready"}
    BY Zenon DEF Init
  <2>4. QED
    BY <1>1, <1>2, <2>1, <2>2, <2>3, Zenon DEF TypeOK
<1>4. GuardInv
  BY DEF Init, GuardInv, NoEarlyFd, SessionStays, HeldIsActive, OneHolder,
         CoveredHold, HolderOwns, Holds, InRegion
<1>5. QED
  BY <1>3, <1>4

(* Everything that is inductive, for every reachable state.                *)
THEOREM GuardInvariant == Spec => [](TypeOK /\ GuardInv)
<1>1. TypeOK /\ GuardInv /\ [Next]_vars => (TypeOK /\ GuardInv)'
  BY TypeStep, InvStep
<1>2. QED
  BY InitInv, <1>1, PTL DEF Spec

(* Every value fc_guard.c keeps has its type; in particular the watchdog   *)
(* is never loaded with more than its register holds, whatever timeouts    *)
(* are configured.                                                         *)
THEOREM GuardTypes == Spec => []TypeOK
<1>1. TypeOK /\ GuardInv => TypeOK
  OBVIOUS
<1>2. QED
  BY GuardInvariant, <1>1, PTL

(* fc_guard.c never runs two guarded operations side by side, for any      *)
(* number of threads and whatever fails, until a reboot is prepared.       *)
THEOREM GuardIsExclusive == Spec => []GuardExclusive
<1>1. TypeOK /\ GuardInv => GuardExclusive
  BY DEF GuardInv, OneHolder, Holds, GuardExclusive, OneGuardOwner
<1>2. QED
  BY GuardInvariant, <1>1, PTL

(* A guarded operation of fc_guard.c always runs with the watchdog on.     *)
THEOREM OperationIsCovered == Spec => []WatchdogCoversOperation
<1>1. TypeOK /\ GuardInv => WatchdogCoversOperation
  BY DEF GuardInv, CoveredHold, WatchdogCoversOperation
<1>2. QED
  BY GuardInvariant, <1>1, PTL

(* fc_guard_disarm recognises the guard of its caller.                     *)
THEOREM DisarmIsNeverStale == Spec => []DisarmFindsOwnGuard
<1>1. TypeOK /\ GuardInv => DisarmFindsOwnGuard
  BY DEF GuardInv, HolderOwns, Holds, DisarmFindsOwnGuard
<1>2. QED
  BY GuardInvariant, <1>1, PTL
-----------------------------------------------------------------------------
(* The guard as its callers see it.                                        *)

(* A step of p touches nobody else's call, and p gets the guard only when  *)
(* it is free.                                                             *)
LEMMA ThreadFrame ==
    ASSUME TypeOK, GuardInv, NEW p \in Threads, ThreadStep(p)
    PROVE  /\ UNCHANGED <<reboot, down>>
           /\ \A q \in Threads : q # p => pc'[q] = pc[q] /\ fd'[q] = fd[q]
           /\ Holds(p)' /\ ~Holds(p) => owner = None
<1> USE FdsAssumption
    DEF TypeOK, CallPcs, Goto, InRegion, Holds, GuardInv, NoEarlyFd
<1>1. CASE Begin(p)
  BY <1>1 DEF Begin, Acquire, Busy
<1>2. CASE WaiterFeed(p)
  BY <1>2 DEF WaiterFeed
<1>3. CASE WaiterRetry(p)
  BY <1>3 DEF WaiterRetry, Acquire, Busy
<1>4. CASE Open(p)
  BY <1>4 DEF Open
<1>5. CASE StopDevice(p) \/ ProgramFd(p) \/ SpawnFeeder(p) \/ DisarmHw(p)
  BY <1>5 DEF StopDevice, ProgramFd, SpawnFeeder, DisarmHw
<1>6. CASE Unwind(p) \/ DisarmRelease(p)
  BY <1>6 DEF Unwind, DisarmRelease
<1>7. CASE DisarmCheck(p)
  BY <1>7 DEF DisarmCheck
<1>8. CASE FeederStep(p) \/ SetStage(p)
  BY <1>8 DEF FeederStep, SetStage
<1>9. CASE End(p) \/ Join(p)
  BY <1>9 DEF End, Join
<1> QED
  BY <1>1, <1>2, <1>3, <1>4, <1>5, <1>6, <1>7, <1>8, <1>9
  DEF ThreadStep, CallStep

(* The threads that have the guard.                                        *)
HoldersNow == IF Live THEN {p \in Threads : Holds(p)} ELSE {}

LEMMA HolderStep ==
    ASSUME TypeOK, GuardInv, [Next]_vars
    PROVE  \/ \E p \in Threads :
                 /\ Live /\ Live'
                 /\ \/ HoldersNow = {} /\ HoldersNow' = {p}
                    \/ HoldersNow = {p} /\ HoldersNow' = {}
           \/ Live /\ ~Live' /\ HoldersNow' = {}
           \/ ~Live /\ Live' /\ HoldersNow' = {}
           \/ (Live' <=> Live) /\ HoldersNow' = HoldersNow
<1>1. ASSUME NEW p \in Threads, ThreadStep(p)
      PROVE  \/ /\ Live /\ Live'
                /\ \/ HoldersNow = {} /\ HoldersNow' = {p}
                   \/ HoldersNow = {p} /\ HoldersNow' = {}
             \/ (Live' <=> Live) /\ HoldersNow' = HoldersNow
  <2>1. Live' <=> Live
    BY <1>1, ThreadFrame DEF Live
  <2>2. \A q \in Threads : q # p => (Holds(q)' <=> Holds(q))
    BY <1>1, ThreadFrame DEF Holds, InRegion
  <2>3. CASE ~Live
    BY <2>1, <2>3 DEF HoldersNow
  <2>4. CASE Live /\ Holds(p)' /\ ~Holds(p)
    <3>1. \A q \in Threads : ~Holds(q)
      BY <1>1, <2>4, ThreadFrame DEF Live, GuardInv, HeldIsActive
    <3> QED
      BY <2>1, <2>2, <2>4, <3>1 DEF HoldersNow
  <2>5. CASE Live /\ ~Holds(p)' /\ Holds(p)
    <3>1. \A q \in Threads : Holds(q) => q = p
      BY <2>5 DEF Live, GuardInv, OneHolder
    <3> QED
      BY <2>1, <2>2, <2>5, <3>1 DEF HoldersNow
  <2>6. CASE Live /\ (Holds(p)' <=> Holds(p))
    BY <2>1, <2>2, <2>6 DEF HoldersNow
  <2> QED
    BY <2>3, <2>4, <2>5, <2>6
<1>2. CASE UNCHANGED <<pc, fd, reboot, down>>
  BY <1>2 DEF HoldersNow, Live, Holds, InRegion
<1>3. CASE PrepareReboot \/ Reset \/ RebootReady
  BY <1>3 DEF PrepareReboot, Reset, RebootReady, HoldersNow, Live
<1>4. CASE Restart
  BY <1>4 DEF Restart, HoldersNow, Live, Holds, InRegion
<1> QED
  BY <1>1, <1>2, <1>3, <1>4
  DEF Next, SystemStep, SessionStart, SessionRead, SessionAct, SessionExit,
      WorkerBeat, UptimeTrip, RecoverNow, Tick, vars

(* Refinement: fc_guard_begin_short to fc_guard_disarm, with their waits,  *)
(* error paths, feeder threads, takeovers and reboots, implement one guard *)
(* that passes from thread to thread only while it is free.                *)
THEOREM GuardImplements == Spec => ImplementsExclusiveGuard
<1>1. Init => Exclusive!GuardInit
  BY FdsAssumption
  DEF Init, Exclusive!GuardInit, Live, Holds, InRegion
<1>2. ASSUME TypeOK, GuardInv, [Next]_vars
      PROVE  [Exclusive!GuardNext]_(Exclusive!guardVars)
  <2>1. CASE \E p \in Threads :
                /\ Live /\ Live'
                /\ \/ HoldersNow = {} /\ HoldersNow' = {p}
                   \/ HoldersNow = {p} /\ HoldersNow' = {}
    BY <2>1 DEF HoldersNow, Exclusive!GuardNext, Exclusive!Take,
                Exclusive!Release
  <2>2. CASE Live /\ ~Live' /\ HoldersNow' = {}
    BY <2>2 DEF HoldersNow, Exclusive!GuardNext, Exclusive!GoDown
  <2>3. CASE ~Live /\ Live' /\ HoldersNow' = {}
    BY <2>3 DEF HoldersNow, Exclusive!GuardNext, Exclusive!ComeUp
  <2>4. CASE (Live' <=> Live) /\ HoldersNow' = HoldersNow
    BY <2>4 DEF HoldersNow, Exclusive!guardVars, Live
  <2> QED
    BY <1>2, <2>1, <2>2, <2>3, <2>4, HolderStep
<1> QED
  BY <1>1, <1>2, GuardInvariant, PTL
  DEF Spec, ImplementsExclusiveGuard, Exclusive!GuardSpec
=============================================================================
