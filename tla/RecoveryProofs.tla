--------------------------- MODULE RecoveryProofs ---------------------------
(***************************************************************************)
(* Proofs about Recovery for every choice of the limits, of the numbers of *)
(* attempts and of the recovery threads, in both builds.                   *)
(***************************************************************************)
EXTENDS Recovery, TLAPS

(* The readings whose age is kept.                                         *)
LEMMA StampNames == Stamps = {"alive", "poll", "start", "done", "wifi"}
  BY DEF Stamps, Cap

(* Every limit on an age is a natural number.                              *)
LEMMA CapNat == \A s \in Stamps : Cap[s] \in Nat
  BY StampNames, RecoveryAssumption DEF Cap, Longest

(* The type invariant holds initially.                                     *)
LEMMA TypeInit == Init => TypeOK
<1> SUFFICES ASSUME Init PROVE TypeOK
    OBVIOUS
<1>1. age \in [Stamps -> Int] /\ \A s \in Stamps : age[s] \in Never .. Cap[s]
    BY CapNat DEF Init, NoAges, Never
<1>2. rec \in [Workers -> {"none", "wifi", "apply", "rest"}]
    BY DEF Init, NoRec
<1>3. /\ tries \in 1 .. WifiTries
      /\ binds \in 0 .. BindLimit - 1
    BY RecoveryAssumption DEF Init
<1> QED
    BY <1>1, <1>2, <1>3 DEF Init, TypeOK

(* Setting one age to zero or to Never keeps the type of the ages.         *)
LEMMA AgeSet ==
    ASSUME TypeOK, NEW s \in Stamps, NEW v \in {0, Never},
           age' = [age EXCEPT ![s] = v]
    PROVE  /\ age' \in [Stamps -> Int]
           /\ \A t \in Stamps : age'[t] \in Never .. Cap[t]
BY CapNat DEF TypeOK, Never

(* Types are kept by every step.                                           *)
LEMMA TypeStep == TypeOK /\ [Next]_vars => TypeOK'
<1> SUFFICES ASSUME TypeOK, [Next]_vars PROVE TypeOK'
    OBVIOUS
<1> USE DEF opVars, webVars, wifiVars, bootVars, orderVars
<1> DEFINE AgeOK == /\ age \in [Stamps -> Int]
                    /\ \A s \in Stamps : age[s] \in Never .. Cap[s]
           CountOK == /\ tries \in 1 .. WifiTries
                      /\ binds \in 0 .. BindLimit - 1
           RestOK == /\ board \in {"up", "reset"} /\ ever \in BOOLEAN
                     /\ before \subseteq Readings /\ now \subseteq Readings
                     /\ op \in {"due", "age", "request", "create", "force",
                                "slept"}
                     /\ cause \in {"alive", "poll", "none"}
                     /\ web \in {"off", "listen", "create"}
                     /\ running \in BOOLEAN
                     /\ rec \in [Workers -> {"none", "wifi", "apply", "rest"}]
                     /\ lock \in Workers \cup {"free", "boot"}
                     /\ boot \in {"wifi", "apply", "services", "done", "off"}
<1>0. AgeOK /\ CountOK /\ RestOK
    BY DEF TypeOK
<1>1. AgeOK'
  <2>1. CASE UNCHANGED age
    BY <1>0, <2>1
  <2>2. CASE Tick
    BY <1>0, <2>2, CapNat DEF Tick, Never
  <2>3. CASE PollBegin \/ PollEnd \/ TransportOk
    BY <2>3, AgeSet, StampNames DEF PollBegin, PollEnd, TransportOk
  <2>4. ASSUME NEW older, BeginAttempt(older) PROVE AgeOK'
    <3>1. age' = [t \in Stamps |-> IF t = "start" THEN 0
                                   ELSE IF t = "done" THEN Never ELSE age[t]]
      BY <1>0, <2>4, StampNames DEF BeginAttempt
    <3> QED
      BY <1>0, <3>1, CapNat DEF Never
  <2>5. CASE age' = [age EXCEPT !["done"] = 0] \/ age' = [age EXCEPT !["wifi"] = 0]
    BY <2>5, AgeSet, StampNames
  <2>6. CASE Reset
    BY <2>6, CapNat DEF Reset, NoAges, Never
  <2>7. CASE Operator \/ WebExit \/ WebCreate
    BY <2>7, <2>1, <2>4, <2>5, Zenon
    DEF Operator, OpCheck, OpAge, OpRequest, OpCreate, Spawn, SpawnFails,
        WebExit, WebCreate
  <2>8. ASSUME NEW w \in Workers, RecoveryThread(w) PROVE AgeOK'
    BY <2>8, <2>1, <2>5 DEF RecoveryThread, RecWifi, RecApply, RecRest
  <2>9. CASE BootThread
    BY <2>9, <2>1, <2>5 DEF BootThread, BootTry, BootApply, BootServices
  <2>10. CASE UNCHANGED vars
    BY <2>10, <2>1 DEF vars
  <2> QED
    BY <2>2, <2>3, <2>6, <2>7, <2>8, <2>9, <2>10 DEF Next
<1>2. CountOK'
  <2>1. CASE UNCHANGED <<tries, binds>>
    BY <1>0, <2>1
  <2>2. CASE WebExit
    BY <1>0, <2>2, RecoveryAssumption DEF WebExit
  <2>3. CASE BootThread
    BY <1>0, <2>3, RecoveryAssumption
    DEF BootThread, BootTry, BootApply, BootServices, BootFails
  <2>4. CASE Reset
    BY <2>4, RecoveryAssumption DEF Reset
  <2> QED
    BY <2>1, <2>2, <2>3, <2>4
    DEF Next, Tick, PollBegin, PollEnd, TransportOk, Operator, OpCheck, OpAge,
        OpRequest, OpCreate, WebCreate, RecoveryThread, RecWifi, RecApply,
        RecRest, vars
<1>3. RestOK'
  <2>1. CASE Tick \/ PollBegin \/ PollEnd \/ TransportOk
    <3>1. before' \subseteq Readings /\ now' \subseteq Readings
      BY <1>0, <2>1 DEF Tick, PollBegin, PollEnd, TransportOk, Refresh
    <3>2. ever' \in BOOLEAN /\ running' \in BOOLEAN
      BY <1>0, <2>1, Zenon DEF Tick, PollBegin, PollEnd, TransportOk
    <3> QED
      BY <1>0, <2>1, <3>1, <3>2 DEF Tick, PollBegin, PollEnd, TransportOk
  <2>2. CASE OpCheck \/ OpAge
    BY <1>0, <2>2
    DEF OpCheck, OpAge, OpSleeps, Since, Taken, Readings
  <2>3. CASE OpRequest
    BY <1>0, <2>3 DEF OpRequest, OpSleeps, BeginAttempt
  <2>4. CASE OpCreate \/ WebCreate
    <3>1. /\ rec' \in [Workers -> {"none", "wifi", "apply", "rest"}]
          /\ running' \in BOOLEAN
      BY <1>0, <2>4 DEF OpCreate, WebCreate, Spawn, SpawnFails
    <3> QED
      BY <1>0, <2>4, <3>1 DEF OpCreate, WebCreate, OpSleeps
  <2>5. CASE WebExit
    BY <1>0, <2>5 DEF WebExit, BeginAttempt, OlderThanNow, Taken, Readings
  <2>6. ASSUME NEW w \in Workers, RecoveryThread(w) PROVE RestOK'
    <3>1. /\ rec' \in [Workers -> {"none", "wifi", "apply", "rest"}]
          /\ lock' \in Workers \cup {"free", "boot"}
      BY <1>0, <2>6 DEF RecoveryThread, RecWifi, RecApply, RecRest
    <3>2. web' \in {"off", "listen", "create"} /\ running' \in BOOLEAN
      BY <1>0, <2>6, Zenon DEF RecoveryThread, RecWifi, RecApply, RecRest
    <3> QED
      BY <1>0, <2>6, <3>1, <3>2 DEF RecoveryThread, RecWifi, RecApply, RecRest
  <2>7. CASE BootThread
    BY <1>0, <2>7, Zenon
    DEF BootThread, BootTry, BootApply, BootServices, BootFails
  <2>8. CASE Reset
    BY <2>8 DEF Reset, NoRec
  <2>9. CASE UNCHANGED vars
    BY <1>0, <2>9 DEF vars
  <2> QED
    BY <2>1, <2>2, <2>3, <2>4, <2>5, <2>6, <2>7, <2>8, <2>9 DEF Next, Operator
<1> QED
    BY <1>1, <1>2, <1>3 DEF TypeOK

(* Every type is kept: ages stay below their limits, attempts and bind     *)
(* failures are counted no further than the code counts them.              *)
THEOREM TypeCorrect == Spec => []TypeOK
BY TypeInit, TypeStep, PTL DEF Spec
-----------------------------------------------------------------------------
(* One recovery at a time.                                                 *)
LEMMA ExclusiveStep ==
    TypeOK /\ FlagIsExact /\ [Next]_vars => FlagIsExact'
<1> SUFFICES ASSUME TypeOK, FlagIsExact, [Next]_vars
             PROVE  FlagIsExact'
    OBVIOUS
<1> USE DEF FlagIsExact, opVars, webVars, wifiVars, bootVars
<1>1. CASE UNCHANGED <<rec, running, op, web>>
    BY <1>1
<1>2. CASE Tick \/ OpCheck \/ OpAge
    BY <1>2 DEF Tick, OpCheck, OpAge, OpSleeps
<1>3. CASE OpRequest
    BY <1>3 DEF OpRequest, OpSleeps, BeginAttempt, Hung, Tried
<1>4. CASE OpCreate \/ WebCreate
  <2>1. op' # "create" /\ web' # "create"
    BY <1>4 DEF OpCreate, WebCreate, OpSleeps
  <2>2. running /\ \A w \in Workers : rec[w] = "none"
    BY <1>4 DEF OpCreate, WebCreate
  <2>3. CASE SpawnFails
    BY <2>1, <2>2, <2>3 DEF SpawnFails
  <2>4. CASE Spawn
    <3>1. PICK w \in Workers : rec' = [rec EXCEPT ![w] = "wifi"]
      BY <2>4 DEF Spawn
    <3>2. rec'[w] = "wifi" /\ \A v \in Workers : v # w => rec'[v] = "none"
      BY <2>2, <3>1 DEF TypeOK
    <3> QED
      BY <2>1, <2>2, <2>4, <3>2, Zenon DEF Spawn
  <2> QED
    BY <1>4, <2>3, <2>4 DEF OpCreate, WebCreate
<1>5. CASE WebExit
    BY <1>5 DEF WebExit, BeginAttempt
<1>6. ASSUME NEW w \in Workers, RecoveryThread(w)
      PROVE  FlagIsExact'
    BY <1>6 DEF RecoveryThread, RecWifi, RecApply, RecRest, TypeOK
<1>7. CASE Reset
    BY <1>7 DEF Reset, NoRec
<1> QED
    BY <1>1, <1>2, <1>3, <1>4, <1>5, <1>6, <1>7
    DEF Next, Operator, PollBegin, PollEnd, TransportOk, BootThread, BootTry,
        BootApply, BootServices, vars

(* At any time at most one recovery runs, and g_network_recovery_running   *)
(* says whether one does: a request between the flag and the thread, or a  *)
(* thread that ends, never lets a second one in.                           *)
LEMMA OneRecovery == Spec => []FlagIsExact
<1>1. Init => FlagIsExact
    BY DEF Init, NoRec, FlagIsExact
<1> QED
    BY <1>1, ExclusiveStep, TypeCorrect, PTL DEF Spec
-----------------------------------------------------------------------------
(* The Wi-Fi lock and those who configure Wi-Fi stay in step.              *)
LEMMA LockStep == TypeOK /\ WifiLockHeld /\ [Next]_vars => WifiLockHeld'
<1> SUFFICES ASSUME TypeOK, WifiLockHeld, [Next]_vars PROVE WifiLockHeld'
    OBVIOUS
<1> USE RecoveryAssumption
    DEF WifiLockHeld, opVars, webVars, wifiVars, bootVars
<1>1. CASE UNCHANGED <<rec, lock, boot>>
    BY <1>1
<1>2. CASE OpCreate \/ WebCreate
    BY <1>2 DEF OpCreate, WebCreate, Spawn, SpawnFails, TypeOK
<1>3. ASSUME NEW w \in Workers, RecoveryThread(w)
      PROVE  WifiLockHeld'
    BY <1>3 DEF RecoveryThread, RecWifi, RecApply, RecRest, TypeOK
<1>4. CASE BootThread
    BY <1>4 DEF BootThread, BootTry, BootApply, BootServices
<1>5. CASE Reset
    BY <1>5 DEF Reset, NoRec
<1> QED
    BY <1>1, <1>2, <1>3, <1>4, <1>5
    DEF Next, Tick, PollBegin, PollEnd, TransportOk, Operator, OpCheck, OpAge,
        OpRequest, WebExit, vars

(* Wi-Fi is configured by at most one thread, the holder of g_wifi_lock,   *)
(* and the lock is free when nobody does.                                  *)
LEMMA WifiLocked == Spec => []WifiLockHeld
<1>1. Init => WifiLockHeld
    BY RecoveryAssumption DEF Init, NoRec, WifiLockHeld
<1> QED
    BY <1>1, LockStep, TypeCorrect, PTL DEF Spec

(* One recovery runs at a time, and one thread configures Wi-Fi at a time, *)
(* with any number of threads that ask for it.                             *)
THEOREM Exclusive == Spec => []RecoveryExclusive
BY OneRecovery, WifiLocked, PTL DEF RecoveryExclusive
-----------------------------------------------------------------------------
(* What a check knows on its way to a request.  ResetIsLastResort speaks   *)
(* of readings of the shared state, the request of the since it was given: *)
(* the two agree as long as nothing was refreshed during the check, and a  *)
(* since that is the check's own now is older only than an attempt made    *)
(* within the check.                                                       *)
CauseStale == IF cause = "poll" THEN PollStale ELSE SuccessStale

CheckInv ==
    /\ op \in {"due", "slept"} => "since" \notin before
    /\ op = "force" => board = "reset"
    /\ op = "age" => cause = "none" /\ ("poll" \in now => PollStale)
    /\ op \in {"age", "request"} /\ cause = "none" /\ "since" \in before
          => age.start = 0 /\ (running \/ age.done = 0)
    /\ op = "request" /\ cause # "none" /\ cause \in now
          => CauseStale /\ ("since" \in before => cause \in before)

LEMMA CheckStep ==
    TypeOK /\ CheckInv /\ ResetIsLastResort /\ [Next]_vars
        => CheckInv' /\ ResetIsLastResort'
<1> SUFFICES ASSUME TypeOK, CheckInv, ResetIsLastResort, [Next]_vars
             PROVE  CheckInv' /\ ResetIsLastResort'
    OBVIOUS
<1> USE RecoveryAssumption, StampNames
    DEF CheckInv, CauseStale, PollStale, SuccessStale, Hung, ResetIsLastResort,
        Never, Up, opVars, webVars, wifiVars, bootVars, orderVars
<1>1. age \in [Stamps -> Int]
    BY DEF TypeOK
<1>2. CASE UNCHANGED <<board, age, ever, orderVars, opVars, running>>
    BY <1>2
<1>3. CASE Tick
    BY <1>3 DEF Tick
<1>4. CASE PollBegin \/ PollEnd
    BY <1>1, <1>4 DEF PollBegin, PollEnd, Refresh
<1>5. CASE TransportOk
  <2>1. /\ op' = op /\ op # "force" /\ cause' = cause
        /\ age'.poll = age.poll /\ age'.start = age.start
        /\ age'.done = age.done
    BY <1>1, <1>5 DEF TransportOk
  <2>2. running' = running
    BY <1>5, Zenon DEF TransportOk
  <2>3. /\ "alive" \notin now'
        /\ "poll" \in now' => "poll" \in now
        /\ "since" \in before' <=> "since" \in before
        /\ "poll" \in before' <=> "poll" \in before
    BY <1>5 DEF TransportOk, Refresh
  <2>4. ResetIsLastResort'
    BY <2>1
  <2>5. op \in {"due", "slept"} => "since" \notin before'
    BY <2>3
  <2>6. "poll" \in now' /\ op = "age" => PollStale'
    BY <2>1, <2>3
  <2>7. op \in {"age", "request"} /\ cause = "none" /\ "since" \in before'
           => age'.start = 0 /\ (running' \/ age'.done = 0)
    BY <2>1, <2>2, <2>3, Zenon
  <2>8. op = "request" /\ cause # "none" /\ cause \in now'
           => CauseStale' /\ ("since" \in before' => cause \in before')
    <3>1. SUFFICES ASSUME op = "request", cause # "none", cause \in now'
                   PROVE  CauseStale' /\ ("since" \in before' => cause \in before')
      OBVIOUS
    <3>2. cause = "poll"
      BY <2>3, <3>1 DEF TypeOK
    <3> QED
      BY <2>1, <2>3, <3>1, <3>2
  <2> HIDE DEF CauseStale, PollStale, SuccessStale, Hung
  <2> QED
    BY <2>1, <2>4, <2>5, <2>6, <2>7, <2>8, Zenon
<1>6. CASE OpCheck
    BY <1>1, <1>6 DEF OpCheck, OpSleeps, Since, Taken
<1>7. CASE OpAge
    BY <1>1, <1>7 DEF OpAge, Since
<1>8. CASE OpRequest
    BY <1>1, <1>8 DEF OpRequest, OpSleeps, BeginAttempt, Tried, TypeOK, Readings
<1>9. CASE OpCreate
    BY <1>9 DEF OpCreate, OpSleeps
<1>10. CASE WebExit
  <2>1. CASE UNCHANGED <<running, age, before>>
    BY <1>10, <2>1 DEF WebExit
  <2>2. CASE BeginAttempt(OlderThanNow)
    <3>1. /\ op' = op /\ op # "force" /\ cause' = cause /\ now' = now
          /\ ever' = ever /\ board' = board /\ running'
          /\ age'["poll"] = age["poll"] /\ age'["alive"] = age["alive"]
          /\ age'["start"] = 0
      BY <1>1, <1>10, <2>2 DEF WebExit, BeginAttempt
    <3>2. /\ "alive" \in before'
          /\ age["poll"] # Never => "poll" \in before'
          /\ op \in {"due", "slept"} => "since" \notin before'
      BY <2>2 DEF BeginAttempt, OlderThanNow, Taken
    <3>3. CauseStale' <=> CauseStale
      BY <3>1
    <3>4. cause = "poll" /\ CauseStale => "poll" \in before'
      BY <1>1, <3>2
    <3> HIDE DEF CauseStale
    <3> QED
      BY <3>1, <3>2, <3>3, <3>4 DEF TypeOK
  <2> QED
    BY <1>10, <2>1, <2>2 DEF WebExit
<1>11. CASE WebCreate
    BY <1>1, <1>11 DEF WebCreate, Spawn, SpawnFails
<1>12. ASSUME NEW w \in Workers, RecoveryThread(w)
      PROVE  CheckInv' /\ ResetIsLastResort'
    BY <1>1, <1>12 DEF RecoveryThread, RecWifi, RecApply, RecRest
<1>13. CASE BootThread
    BY <1>1, <1>13 DEF BootThread, BootTry, BootApply, BootServices, BootFails
<1>14. CASE Reset
    BY <1>14 DEF Reset
<1> QED
    BY <1>2, <1>3, <1>4, <1>5, <1>6, <1>7, <1>8, <1>9, <1>10, <1>11, <1>12,
       <1>13, <1>14
    DEF Next, Operator, vars

(* The runtime loop resets the board only after a hung recovery, or after  *)
(* one that belongs to this outage and did not help within the grace       *)
(* period, however requests of the web server and Telegram's own events    *)
(* fall between the steps of its check.                                    *)
THEOREM LastResort == Spec => []ResetIsLastResort
<1>1. Init => CheckInv /\ ResetIsLastResort
    BY DEF Init, CheckInv, ResetIsLastResort
<1> QED
    BY <1>1, CheckStep, TypeCorrect, PTL DEF Spec
=============================================================================
