------------------------------ MODULE Recovery ------------------------------
(***************************************************************************)
(* Network recovery in fruitclaw_main.c.  The boot thread brings up Wi-Fi  *)
(* and the services and resets the board when it cannot.  Afterwards the   *)
(* runtime loop looks at Telegram every few seconds: a stale transport     *)
(* starts one detached recovery thread, and an outage that outlives it     *)
(* resets the board.  The web server's supervisor asks for a recovery too, *)
(* when its port stays taken.                                              *)
(*                                                                         *)
(* Clock readings are kept as ages that stop growing above every limit the *)
(* code compares them with.  The one comparison between two readings,      *)
(* last_attempt_ms > poll_start_ms, is kept as an order: before holds the  *)
(* readings older than the start of the last attempt.                      *)
(***************************************************************************)
EXTENDS Integers

CONSTANTS
    Timeout,      \* CONFIG_FRUITCLAW_OPERATOR_GUARD_TIMEOUT_MS
    Grace,        \* fc_network_recovery_grace_ms
    FirstGrace,   \* fc_telegram_first_success_grace_ms
    Suppress,     \* FC_WIFI_REAPPLY_SUPPRESS_MS
    WifiTries,    \* 8, the attempts of fc_boot_network_main
    BindLimit,    \* 3, the failures fc_webserver_supervisor_main accepts
    Workers,      \* names for recovery threads
    Guarded       \* CONFIG_FRUITCLAW_TELEGRAM_HTTP_GUARD_TIMEOUT_MS > 0

ASSUME RecoveryAssumption ==
    /\ Timeout \in Nat \ {0} /\ Grace \in Nat \ {0}
    /\ FirstGrace \in Nat \ {0} /\ Suppress \in Nat \ {0}
    /\ WifiTries \in Nat \ {0}
    /\ BindLimit \in Nat \ {0}
    /\ "free" \notin Workers /\ "boot" \notin Workers
    /\ Guarded \in BOOLEAN

VARIABLES
    board,   \* "up", or "reset" once fc_guard_recover_now runs
    age,     \* ages of the readings below, Never for a zero
    ever,    \* g_tg_last_success_ms is set
    before,  \* the readings older than g_network_recovery_start_ms
    now,     \* the readings older than the now of the runtime loop's check
    op,      \* runtime loop: its place in fc_operator_guard_check
    cause,   \* what it acts on: "alive", "poll" or "none"
    web,     \* web server thread: "off", "listen" or "create"
    binds,   \* its bind_failures
    running, \* g_network_recovery_running
    rec,     \* recovery threads: "none", "wifi", "apply" or "rest"
    lock,    \* g_wifi_lock: "free", "boot" or a worker
    boot,    \* boot thread: "wifi", "apply", "services", "done" or "off"
    tries    \* its attempt

opVars == <<op, cause>>
webVars == <<web, binds>>
wifiVars == <<rec, lock>>
bootVars == <<boot, tries>>
orderVars == <<before, now>>
vars == <<board, age, ever, orderVars, opVars, webVars, running,
          wifiVars, bootVars>>

Never == -1

(* The readings compared with each other.  "alive" is the last successful  *)
(* transport, or g_runtime_start_ms before the first one; "poll" the start *)
(* of the poll under way; "since" the poll_start_ms of the runtime loop's  *)
(* request.                                                                *)
Readings == {"alive", "poll", "since"}

Longest(a, b) == IF a > b THEN a ELSE b

(* The largest age of each reading that is still told apart.               *)
Cap == [alive |-> Longest(Timeout, FirstGrace) + 1, poll |-> Timeout + 1,
        start |-> Timeout + 1, done |-> Grace, wifi |-> Suppress]

Stamps == DOMAIN Cap

(* Memory after a reset: fc_runtime_start takes g_runtime_start_ms.        *)
NoAges == [s \in Stamps |-> IF s = "alive" THEN 0 ELSE Never]
NoRec == [w \in Workers |-> "none"]

(* The web server and the boot thread start, or their threads cannot.      *)
Init ==
    /\ board = "up"
    /\ age = NoAges /\ ever = FALSE
    /\ before = {} /\ now = {}
    /\ op = "due" /\ cause = "none"
    /\ web \in {"off", "listen"} /\ binds = 0
    /\ running = FALSE /\ rec = NoRec /\ lock = "free"
    /\ boot \in {"wifi", "off"} /\ tries = 1

Up == board = "up"

(* The readings that exist, hence are older than the clock.                *)
Taken == {"alive"} \cup (IF age.poll = Never THEN {} ELSE {"poll"})

(* Reading s is taken again, or given up: nothing is newer than it.        *)
Refresh(s) ==
    /\ before' = before \ {s}
    /\ now' = now \ {s}

(* "since" becomes a copy of reading s.                                    *)
Since(s) == before' = IF s \in before THEN before \cup {"since"}
                      ELSE before \ {"since"}

(* The runtime loop is done: its variables are out of scope.               *)
OpSleeps ==
    /\ op' = "slept" /\ cause' = "none"
    /\ before' = before \ {"since"}
    /\ now' = {}
-----------------------------------------------------------------------------
(* Time passes.  The loop sleeps five seconds, less than any limit, so it  *)
(* checks once in every unit of time.                                      *)
Tick ==
    /\ Up /\ op = "slept" /\ op' = "due"
    /\ age' = [s \in Stamps |-> IF age[s] \in {Never, Cap[s]}
                                THEN age[s] ELSE age[s] + 1]
    /\ UNCHANGED <<board, ever, orderVars, cause, webVars, running,
                   wifiVars, bootVars>>

(* fc_telegram_set_poll_active(TRUE).                                      *)
PollBegin ==
    /\ Up /\ age.poll = Never
    /\ age' = [age EXCEPT !.poll = 0]
    /\ Refresh("poll")
    /\ UNCHANGED <<board, ever, opVars, webVars, running, wifiVars,
                   bootVars>>

(* fc_telegram_set_poll_active(FALSE): from now on the poll has no age.    *)
PollEnd ==
    /\ Up /\ age.poll # Never
    /\ age' = [age EXCEPT !.poll = Never]
    /\ Refresh("poll")
    /\ UNCHANGED <<board, ever, opVars, webVars, running, wifiVars,
                   bootVars>>

(* fc_telegram_record_transport_success of a sent message, and             *)
(* fc_telegram_record_poll of a successful poll.                           *)
TransportOk ==
    /\ Up
    /\ age' = [age EXCEPT !.alive = 0]
    /\ ever' = TRUE
    /\ Refresh("alive")
    /\ UNCHANGED <<board, opVars, webVars, running, wifiVars, bootVars>>
-----------------------------------------------------------------------------
(* fc_telegram_poll_stale.                                                 *)
PollStale == age.poll > Timeout

(* No success for too long: from the start of the runtime the first one    *)
(* has a grace of its own.                                                 *)
SuccessStale == age.alive > (IF ever THEN Timeout ELSE FirstGrace)

(* fc_operator_guard_check, up to the request.  Progress was marked just   *)
(* before, so fc_operator_progress_stale is false.  With isolated Telegram *)
(* staleness is only logged.                                               *)
OpCheck ==
    /\ Up /\ op = "due"
    /\ LET acts == Guarded /\ (PollStale \/ SuccessStale)
       IN IF ~acts
          THEN OpSleeps
          ELSE /\ op' = IF PollStale THEN "age" ELSE "request"
               /\ cause' = IF PollStale THEN "none" ELSE "alive"
               /\ IF PollStale THEN UNCHANGED before ELSE Since("alive")
               /\ now' = Taken
    /\ UNCHANGED <<board, age, ever, webVars, running, wifiVars,
                   bootVars>>

(* fc_telegram_poll_age_ms looks at the poll again: when it has ended      *)
(* meanwhile, poll_start_ms is the time of the check.  Otherwise it is the *)
(* time of the check minus an age read a moment later; that moment is      *)
(* taken to be zero.                                                       *)
OpAge ==
    /\ Up /\ op = "age"
    /\ op' = "request"
    /\ IF age.poll = Never
       THEN UNCHANGED <<cause, before>>
       ELSE cause' = "poll" /\ Since("poll")
    /\ UNCHANGED <<now, board, age, ever, webVars, running, wifiVars,
                   bootVars>>

(* fc_network_recovery_request under its lock begins a recovery; older are *)
(* the readings older than its now_ms.                                     *)
BeginAttempt(older) ==
    /\ running' = TRUE
    /\ age' = [age EXCEPT !.start = 0, !.done = Never]
    /\ before' = older

(* fc_network_recovery_stale_from_start of a running recovery.             *)
Hung == running /\ age.start > Timeout

(* An attempt began after poll_start_ms and is over.                       *)
Tried == ~running /\ age.start # Never /\ "since" \in before

(* Mutant of OpRequest: an attempt of any earlier outage counts.           *)
OpRequest_AnyAttempt ==
    /\ Up /\ op = "request"
    /\ LET tried == ~running /\ age.start # Never
           refused == \/ running /\ ~Hung
                      \/ tried /\ age.done < Grace
           expired == Hung \/ (tried /\ age.done >= Grace)
       IN \/ /\ refused /\ OpSleeps
             /\ UNCHANGED <<board, age, running>>
          \/ /\ expired /\ op' = "force" /\ board' = "reset"
             /\ UNCHANGED <<cause, before, now, age, running>>
          \/ /\ ~refused /\ ~expired /\ op' = "create"
             /\ BeginAttempt(now)
             /\ UNCHANGED <<cause, now, board>>
    /\ UNCHANGED <<ever, webVars, wifiVars, bootVars>>

(* Mutant of OpRequest: a recovery that runs is always waited for.         *)
OpRequest_WaitsForHung ==
    /\ Up /\ op = "request"
    /\ LET refused == running \/ (Tried /\ age.done < Grace)
           expired == Tried /\ age.done >= Grace
       IN \/ /\ refused /\ OpSleeps
             /\ UNCHANGED <<board, age, running>>
          \/ /\ expired /\ op' = "force" /\ board' = "reset"
             /\ UNCHANGED <<cause, before, now, age, running>>
          \/ /\ ~refused /\ ~expired /\ op' = "create"
             /\ BeginAttempt(now)
             /\ UNCHANGED <<cause, now, board>>
    /\ UNCHANGED <<ever, webVars, wifiVars, bootVars>>

(* fc_network_recovery_request and fc_operator_network_recovery_handled:   *)
(* wait for the recovery that runs, or for the grace after the one this    *)
(* outage had; once either is over time, fc_guard_force_recovery; without  *)
(* a recovery since the outage began, begin one.                           *)
OpRequest ==
    /\ Up /\ op = "request"
    /\ LET refused == (running /\ ~Hung) \/ (Tried /\ age.done < Grace)
           expired == Hung \/ (Tried /\ age.done >= Grace)
       IN \/ /\ refused /\ OpSleeps
             /\ UNCHANGED <<board, age, running>>
          \/ /\ expired /\ op' = "force" /\ board' = "reset"
             /\ UNCHANGED <<cause, before, now, age, running>>
          \/ /\ ~refused /\ ~expired /\ op' = "create"
             /\ BeginAttempt(now)
             /\ UNCHANGED <<cause, now, board>>
    /\ UNCHANGED <<ever, webVars, wifiVars, bootVars>>

(* pthread_create: the recovery thread exists ...                          *)
Spawn ==
    /\ \E w \in Workers :
           rec[w] = "none" /\ rec' = [rec EXCEPT ![w] = "wifi"]
    /\ UNCHANGED <<running, age>>

(* ... or cannot be made: the attempt is over, its start stays on record.  *)
SpawnFails ==
    /\ running' = FALSE
    /\ age' = [age EXCEPT !.done = 0]
    /\ UNCHANGED rec

OpCreate ==
    /\ Up /\ op = "create"
    /\ Spawn \/ SpawnFails
    /\ OpSleeps
    /\ UNCHANGED <<board, ever, webVars, lock, bootVars>>
-----------------------------------------------------------------------------
(* The readings that are older than now, in the middle of a check also the *)
(* since of the runtime loop.                                              *)
OlderThanNow == Taken \cup (IF op \in {"due", "slept"} THEN {} ELSE {"since"})

(* Mutant of WebExit: a recovery that runs is not looked for.              *)
WebExit_Overlaps ==
    /\ Up /\ web = "listen"
    /\ IF binds + 1 < BindLimit
       THEN binds' = binds + 1 /\ UNCHANGED <<web, running, age, before>>
       ELSE /\ binds' = 0
            /\ web' = "create" /\ BeginAttempt(OlderThanNow)
    /\ UNCHANGED <<board, ever, now, opVars, wifiVars, bootVars>>

(* fc_webserver_supervisor_main: httpd_listen returned.  With the port     *)
(* taken the failures are counted, and at the limit                        *)
(* fc_network_recovery_request("http-bind", now, -1) begins an attempt,    *)
(* since none is newer than its own now, or is refused while a recovery    *)
(* runs; its result is ignored.  Any other end clears the count.           *)
WebExit ==
    /\ Up /\ web = "listen"
    /\ \/ /\ binds + 1 < BindLimit
          /\ binds' = binds + 1
          /\ UNCHANGED <<web, running, age, before>>
       \/ /\ binds' = 0
          /\ UNCHANGED <<web, running, age, before>>
       \/ /\ binds + 1 >= BindLimit /\ ~running
          /\ binds' = 0
          /\ web' = "create" /\ BeginAttempt(OlderThanNow)
    /\ UNCHANGED <<board, ever, now, opVars, wifiVars, bootVars>>

WebCreate ==
    /\ Up /\ web = "create"
    /\ Spawn \/ SpawnFails
    /\ web' = "listen"
    /\ UNCHANGED <<board, ever, orderVars, opVars, binds, lock,
                   bootVars>>
-----------------------------------------------------------------------------
(* cmd_wifi_up_guarded: a success this recent is not repeated.             *)
RecentWifi == age.wifi # Never /\ age.wifi < Suppress

(* fc_network_recovery_main, Wi-Fi: without a configuration or with the    *)
(* lock taken the command fails at once; after a recent success it leaves  *)
(* Wi-Fi alone; otherwise it configures it, holding the lock.              *)
RecWifi(w) ==
    /\ Up /\ rec[w] = "wifi"
    /\ \/ rec' = [rec EXCEPT ![w] = "rest"] /\ UNCHANGED lock
       \/ /\ lock = "free" /\ ~RecentWifi
          /\ rec' = [rec EXCEPT ![w] = "apply"] /\ lock' = w
    /\ UNCHANGED <<board, age, ever, orderVars, opVars, webVars,
                   running, bootVars>>

(* wifi_apply_config_retry ends, which may take for ever without a guard.  *)
RecApply(w) ==
    /\ Up /\ rec[w] = "apply"
    /\ rec' = [rec EXCEPT ![w] = "rest"] /\ lock' = "free"
    /\ age' \in {age, [age EXCEPT !.wifi = 0]}
    /\ UNCHANGED <<board, ever, orderVars, opVars, webVars, running,
                   bootVars>>

(* The web server's supervisor, if it is not there, the services, and      *)
(* fc_network_recovery_finish.                                             *)
RecRest(w) ==
    /\ Up /\ rec[w] = "rest"
    /\ rec' = [rec EXCEPT ![w] = "none"]
    /\ web' \in {web, IF web = "off" THEN "listen" ELSE web}
    /\ running' = FALSE
    /\ age' = [age EXCEPT !.done = 0]
    /\ UNCHANGED <<board, ever, orderVars, opVars, binds, lock,
                   bootVars>>
-----------------------------------------------------------------------------
(* Mutant of BootFails: one attempt more than the limit.                   *)
BootFails_OneMore ==
    IF tries <= WifiTries
    THEN tries' = tries + 1 /\ UNCHANGED board
    ELSE board' = "reset" /\ UNCHANGED tries

(* An attempt of the boot thread failed: the next one, or                  *)
(* fc_boot_require_network_or_recover.                                     *)
BootFails ==
    IF tries < WifiTries
    THEN tries' = tries + 1 /\ UNCHANGED board
    ELSE board' = "reset" /\ UNCHANGED tries

(* Mutant of BootTry: the lock is waited for without a limit.              *)
BootTry_WaitsForLock ==
    /\ Up /\ boot = "wifi"
    /\ \/ lock = "free" /\ BootFails /\ UNCHANGED <<boot, lock>>
       \/ /\ lock = "free" /\ RecentWifi
          /\ boot' = "services" /\ tries' = 1
          /\ UNCHANGED <<board, lock>>
       \/ /\ lock = "free" /\ ~RecentWifi
          /\ boot' = "apply" /\ lock' = "boot"
          /\ UNCHANGED <<board, tries>>
    /\ UNCHANGED <<age, ever, orderVars, opVars, webVars, running, rec>>

(* fc_boot_network_main, Wi-Fi: cmd_wifi_up fails (no configuration, the   *)
(* lock taken for the whole bounded wait, no guard), finds a recent        *)
(* success, or configures Wi-Fi holding the lock and the guard.            *)
BootTry ==
    /\ Up /\ boot = "wifi"
    /\ \/ BootFails /\ UNCHANGED <<boot, lock>>
       \/ /\ lock = "free" /\ RecentWifi
          /\ boot' = "services" /\ tries' = 1
          /\ UNCHANGED <<board, lock>>
       \/ /\ lock = "free" /\ ~RecentWifi
          /\ boot' = "apply" /\ lock' = "boot"
          /\ UNCHANGED <<board, tries>>
    /\ UNCHANGED <<age, ever, orderVars, opVars, webVars, running, rec>>

(* The attempt succeeds, fails, or has configured Wi-Fi and fails to stop  *)
(* its guard; one that does not end resets the board by its guard.         *)
BootApply ==
    /\ Up /\ boot = "apply"
    /\ \/ /\ boot' = "services" /\ tries' = 1
          /\ age' = [age EXCEPT !.wifi = 0] /\ lock' = "free"
          /\ UNCHANGED board
       \/ /\ boot' = "wifi" /\ lock' = "free"
          /\ BootFails
          /\ age' \in {age, [age EXCEPT !.wifi = 0]}
       \/ board' = "reset" /\ UNCHANGED <<boot, tries, age, lock>>
    /\ UNCHANGED <<ever, orderVars, opVars, webVars, running, rec>>

(* fc_boot_services_start never fails: boot_run_command reports the        *)
(* failure of a command only when it is required, which these are not.     *)
BootServices ==
    /\ Up /\ boot = "services"
    /\ boot' = "done"
    /\ UNCHANGED <<board, age, ever, orderVars, opVars, webVars, running,
                   wifiVars, tries>>

(* The board starts again.                                                 *)
Reset ==
    /\ board = "reset"
    /\ board' = "up"
    /\ age' = NoAges /\ ever' = FALSE
    /\ before' = {} /\ now' = {}
    /\ op' = "due" /\ cause' = "none"
    /\ web' \in {"off", "listen"} /\ binds' = 0
    /\ running' = FALSE /\ rec' = NoRec /\ lock' = "free"
    /\ boot' \in {"wifi", "off"} /\ tries' = 1
-----------------------------------------------------------------------------
Operator == OpCheck \/ OpAge \/ OpRequest \/ OpCreate

RecoveryThread(w) == RecWifi(w) \/ RecApply(w) \/ RecRest(w)

BootThread == BootTry \/ BootApply \/ BootServices

Next ==
    \/ Tick \/ PollBegin \/ PollEnd \/ TransportOk
    \/ Operator \/ WebExit \/ WebCreate \/ BootThread \/ Reset
    \/ \E w \in Workers : RecoveryThread(w)

Spec == Init /\ [][Next]_vars

(* Time passes, the threads run, a reset board starts.  Nothing is assumed *)
(* of polls, of the network or of a recovery thread, which may hang, nor   *)
(* of the service commands of the boot thread: like those of a recovery    *)
(* they run in system() without a guard.                                   *)
FairSpec ==
    /\ Spec
    /\ WF_vars(Tick) /\ WF_vars(Operator) /\ WF_vars(WebCreate)
    /\ WF_vars(BootTry \/ BootApply) /\ WF_vars(Reset)
-----------------------------------------------------------------------------
(* Type invariant.                                                         *)
TypeOK ==
    /\ board \in {"up", "reset"}
    /\ age \in [Stamps -> Int]
    /\ \A s \in Stamps : age[s] \in Never .. Cap[s]
    /\ ever \in BOOLEAN
    /\ before \subseteq Readings /\ now \subseteq Readings
    /\ op \in {"due", "age", "request", "create", "force", "slept"}
    /\ cause \in {"alive", "poll", "none"}
    /\ web \in {"off", "listen", "create"}
    /\ binds \in 0 .. BindLimit - 1
    /\ running \in BOOLEAN
    /\ rec \in [Workers -> {"none", "wifi", "apply", "rest"}]
    /\ lock \in Workers \cup {"free", "boot"}
    /\ boot \in {"wifi", "apply", "services", "done", "off"}
    /\ tries \in 1 .. WifiTries

FlagIsExact ==
    /\ \A v, w \in Workers : rec[v] # "none" /\ rec[w] # "none" => v = w
    /\ ~(op = "create" /\ web = "create")
    /\ (op = "create" \/ web = "create") => \A w \in Workers : rec[w] = "none"
    /\ running <=> \/ op = "create" \/ web = "create"
                   \/ \E w \in Workers : rec[w] # "none"

WifiLockHeld ==
    /\ lock = "boot" <=> boot = "apply"
    /\ \A w \in Workers : lock = w <=> rec[w] = "apply"

(* There is one recovery at a time, although g_network_recovery_running is *)
(* set under a lock, the thread is made after it and ends it by itself:    *)
(* the flag is up exactly while one request makes a thread or one thread   *)
(* runs.  Wi-Fi is configured by one thread at a time, recovery or boot    *)
(* thread, the holder of g_wifi_lock; every way out of cmd_wifi_up_guarded *)
(* gives it back.                                                          *)
RecoveryExclusive == FlagIsExact /\ WifiLockHeld

(* The runtime loop resets the board only as the last resort: a recovery   *)
(* has hung, or what it acts on is still stale, a recovery was begun after *)
(* it and has been over for the grace period.  An event during the check   *)
(* itself comes too late.                                                  *)
ResetIsLastResort ==
    op = "force" =>
        \/ Hung
        \/ cause # "none" /\ cause \notin now
        \/ /\ cause # "none"
           /\ cause \in before
           /\ IF cause = "poll" THEN PollStale ELSE SuccessStale
           /\ age.done >= Grace

(* "If recovery runs longer than the operator recovery budget, the         *)
(* operator guard records FCNR": in a guarded build an outage of Telegram  *)
(* that does not end resets the board again and again, whether recoveries  *)
(* hang, fail or cannot be started.  Two habits would defeat it: a web     *)
(* server that keeps asking for recoveries of its own, and polls that keep *)
(* going stale and ending, for each of them is owed a recovery anew.       *)
OutageEscalates ==
    /\ Guarded
    /\ <>[](age.alive # 0)
    /\ <>[](web # "create")
    /\ <>[]PollStale \/ <>[]~PollStale
    => []<>(board = "reset")

(* The boot thread gets past Wi-Fi to the services or resets the board,    *)
(* also when a recovery hangs with g_wifi_lock.                            *)
BootResolves ==
    boot \in {"wifi", "apply"} ~> boot = "services" \/ board = "reset"
=============================================================================
