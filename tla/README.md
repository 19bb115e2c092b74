# FruitClaw: a TLA+ verification project

FruitClaw (`system/fruitclaw/` of this NuttX `apps` tree) is a small agent
runtime for RP2350 boards: it polls Telegram, fires scheduled jobs, routes both
to one agent thread that calls an LLM and runs capabilities, serves MCP and a
web page, and guards every risky operation with the hardware watchdog. The rest
of the tree is the upstream NuttX application collection (shells, network
utilities, examples, ports), which this project does not model.

Paths below are relative to `system/fruitclaw/`.

## 1. Inventory

| Component | State it keeps | Operations | What is hard about it |
|---|---|---|---|
| `core/fc_queue.c` | ring (`items, head, tail, count`), `initialized`, mutex + condvar | init, publish, receive (with timeout), count | one signal per event and no broadcast; a timeout that returns without looking at `count`; re-initialisation of a live queue |
| `core/fc_router.c` | routed / failed / dropped counters | router thread: receive from the main queue, publish to the agent queue | an event that meets a full agent queue is gone |
| `core/fc_agent.c`, `net/fc_deepseek.c` | counters of started and finished events | agent thread: receive, run the LLM/tool loop, reply | six ways out of a turn; failing and hanging requests in any round; holds no persistent record of the event it works on |
| `core/fc_guard.c` | `g_short_active`, owner, label, stage, bound fd, session/uptime flags, heartbeat; the RP23xx watchdog | arm / disarm (short), long start / set_stage / stop, session thread, uptime thread, reboot preparation | many threads, one hardware timer; values read under the lock and used after it |
| `net/fc_telegram.c` | `g_update_offset` (+ file), transport status, notify ring | poll thread, update handling and acknowledgement, notify thread, async notify | at-least-once delivery against a full queue and a restart; poller and notifier give way to each other |
| `sched/fc_scheduler.c` | job table, next-run times (+ file) | add / remove / list, tick thread, load, save | snapshot under the lock, file written after it; reload while the table is in use |
| `net/fc_http.c` | one HTTPS lane | perform (lane lock, then guard) | lock order against a turn that has the guard already; every error path must give both back |
| `net/fc_mcp.c` | rate-limit stamps, activity stamp | JSON-RPC dispatch, tools/call, owner notifications | nested guard |
| `net/fc_web.c` | none | HTML pages | - |
| `core/fc_cap.c`, `caps/fc_caps_builtin.c` | capability registry | register, find, execute | - |
| `core/fc_config.c`, `storage/fc_memory.c` | config and memory files | load, atomic save, append | one temporary name for concurrent writers; crash between write and rename |
| `script/fc_berry.c` | none | run a Berry script under the guard | - |
| `core/fc_progress.c` | last heartbeat stage | mark, snapshot | - |
| `fruitclaw_main.c` | bootstrap flag, service flags, recovery flag and stamps, Wi-Fi lock | bootstrap, boot thread, services, network recovery, operator guard, web server supervisor, CLI | a recovery that hangs, fails, cannot be started or was for an older outage; three threads that may ask for one |
| `core/fc_selftest.c`, `tools/` | none | self-tests, soak script | uses the *live* agent queue |

### How the components interact

```
 Telegram --getUpdates--> poll thread --+                    +--> agent thread --> LLM / capabilities
                                        +-> main queue -> router -> agent queue --+       |
 job table --> scheduler tick thread ---+                                              send_message
 any thread --> notify ring --> notify thread --> Telegram
 CLI, MCP, agent, Berry, HTTP --> guard (one owner) --> RP23xx watchdog <-- session thread
```

### What makes each component correct

| Component | Properties |
|---|---|
| event queue | the ring is a bounded FIFO channel; no event is left while every receiver sleeps; a full queue drains |
| guard | one owner at a time; the watchdog is enabled for the whole operation; a disarm recognises its own guard; a hung operation, or a session without heartbeats, is reset; a waiter returns |
| incoming messages | order and no duplicates within a boot; the offset does not come to rest behind an update that was not queued; no replay of what was saved; every loss is counted; every update is eventually resolved |
| owner notifications | every accepted notice is accounted for; a notice is never the first HTTPS operation; once the transport stays good every notice is resolved, and MCP clients do not starve the poll thread |
| scheduler | names unique; no double firing; the file stays readable; a saved job stays saved; a due one-shot job is emitted |
| HTTP lane | every path gives back lane and guard; waiting for the lane never resets the board; opposite lock orders do not block for ever; the lane comes back from a request that hangs |
| agent turn | every event is recorded as done once; a turn comes to a reply |
| network recovery | one recovery at a time; the board is reset only when a recovery had its chance; a lasting outage does reset it; the boot thread gets to its services or resets the board, whoever has the Wi-Fi lock |

## 2. Modules

| Module | Models | Uses |
|---|---|---|
| `BoundedFifo` | what a queue promises: put, take, consume on a bounded sequence | |
| `ExclusiveGuard` | what the guard promises: one holder, who alone gives it back | |
| `Mailbox` | what the message path promises within a boot: in order, once, losses recorded | |
| `EventQueue` | `core/fc_queue.c`, one step per critical section | refines `BoundedFifo` |
| `Guard` | `core/fc_guard.c`: short and long guards, waiters, session, uptime, recovery, reboot, one watchdog | refines `ExclusiveGuard` |
| `Inbound` | poll thread, update offset, router, agent worker, self-test, resets | two instances of `BoundedFifo`; refines `Mailbox` |
| `OwnerNotify` | notification ring, notify thread, priorities of the poll thread | |
| `Scheduler` | job table, load, save, tick thread, tools, resets | `fc_write_text_file_atomic` of `core/fc_config.c` |
| `Recovery` | network recovery, operator guard, boot thread, web server supervisor of `fruitclaw_main.c` | |
| `HttpLane` | `fc_http_perform` and guarded local tools: the lane, the guard, one call per thread | the guard as `ExclusiveGuard` |
| `AgentTurn` | the agent's turn among the Telegram threads and MCP tool calls | extends `HttpLane`; refines `ExclusiveGuard` |
| `EventQueueProofs`, `GuardProofs`, `InboundProofs`, `OwnerNotifyProofs`, `SchedulerProofs`, `RecoveryProofs`, `AgentTurnProofs` | theorems | the module they extend |
| `MC*` | model values for TLC | the module they extend |

Each definition that translates code has an entry with its lines under `map` in
`PROJECT.json`. A definition with an underscore in its name (`Signal_Never`)
is a deliberately wrong variant of the definition that follows it; it is used
only to show that a property notices that mistake.

### State and actions

**EventQueue.** `items, head, tail, count, initialized` are the fields of
`fc_queue_t`; `pc[r]` says where a receiver is in `fc_queue_receive`. `Publish`
is the critical section of `fc_queue_publish` with its `Signal`. `Receive` is
the first pass of `fc_queue_receive` through the lock; a receiver that finds the
ring empty is `blocked` and comes back by `Wake` (signalled) or,
if `timed`, by `Expire` and `TimedOut`, which returns without looking at
`count`, as the code does.

**Guard.** `owner, stage, boundFd` are the `g_short_guard_*` variables, `hw` the
watchdog (`on`, the stage in its scratch words, ticks `left`). A guarded call
runs through `Begin` (and `WaiterFeed`, `WaiterRetry` while somebody else has
the guard), `Open`, `StopDevice`, `ProgramFd`, for a long guard `SpawnFeeder`,
then the operation, then `End`, `Join`, `DisarmCheck`, `DisarmHw`,
`DisarmRelease`; each is the stretch between two lock operations or register
writes. `Features` and `Failures` choose which parts of the system and which
failing calls exist. `SessionRead` and `SessionAct` are separate since the
session thread acts on what it read before it unlocked. `owner = System` is
`fc_guard_recover_now` taking the guard over. `Tick` is one unit of all clocks;
`Reset` happens when the watchdog has run out, `Restart` is the next boot.

**Inbound.** `sent` and `confirmed` are Telegram's; `disk` is the offset file,
`offset` is `g_update_offset`. `PollOnce` is the request, `HandleUpdate` and
`AckOffset` one update of the response (publishing and acknowledging are apart:
a reset may come between), `RouterReceive`, `RouteEvent`, `AgentReceive`,
`AgentReply` the two workers. `Reset` clears everything but Telegram's state and
the file, and decides whether the file can be read in the next boot. `here`,
`answered`, `failed`, `stolen` record the fate of an update within a boot.

**OwnerNotify.** The counters have the names of the C variables. The notify
thread goes through `wait`, `check`, `take`, `yield`, `send`, `release`; the
last two are the two locks of `fc_telegram_record_notify_result`. The counters wrap
at `CounterMod` (an `unsigned long` in the code), so that notices never end; accounting
is modulo `CounterMod`, and a notice is named by its number. `last` says
whether the last successful transport is recent enough for
`fc_telegram_transport_ready`.

**Scheduler.** `table` is `g_jobs`. A save is `Snapshot`, `OpenTmp`, `WriteTmp`,
`RenameTmp`, for each writer: the tick thread and the `Tools`. Most callers of
`scheduler.add` and `scheduler.remove` hold the execution guard and so are one at a time, but a
scheduled `tool:` event and the self-test hold none, so there may be any number of tools.
`opened[w]` says which file a writer's descriptor refers to, since
another writer may rename or remove the shared temporary file in between. `Bootstrap` loads the
file, and does so again when the registration of the web or MCP server failed after the load.
`gen` tells incarnations of one job name apart and `fires` records when each
was emitted.

**Recovery.** Time stamps are kept as ages (`age`) that stop growing above every
limit the code compares them with; the one comparison between two stamps
(`last_attempt_ms > poll_start_ms`) is kept as an order: `before` holds the readings
that are older than the start of the last attempt, `now` those older than the clock
reading of the check under way. `OpCheck`, `OpAge`, `OpRequest`, `OpCreate` are
`fc_operator_guard_check` and `fc_network_recovery_request`, cut where the code takes
a lock: `fc_telegram_poll_stale` and `fc_telegram_poll_age_ms` look at the poll one
after the other, and the thread is made after the flag is set. `WebExit` and
`WebCreate` are the web server's requests. `RecWifi`, `RecApply`, `RecRest` are the
recovery thread, which holds no guard and so may stay in `apply` for ever; `BootTry`,
`BootApply`, `BootServices` the boot thread. A reset is `board = "reset"`, then `Reset`.

**HttpLane, AgentTurn.** `pc[p]` is the place of thread `p` in its call: `lane`,
`guard`, `io`, `stop`, `unlock`, and the result. `call[p].own` says whether this call took
the guard, as opposed to finding that its thread has it. `Expire` is the deadline of a
guard that was not stopped in time. Tools are `HttpTool` (http.request), `LocalTool` (those behind
`fc_tool_guard_arm`), `OpenTool` (service.control and device.read, which take no guard of their
own; the MCP server wraps them in one, the agent does not) and `SendTool` (telegram.send, with
neither lane nor guard in the isolated build). The agent's thread also has a place in its `turn`;
`round` is `iter`, `calls` the tool calls still to be made, `pending` the difference of
the two event counters. `build` is chosen once: `isolated` is the profile in which
Telegram traffic uses neither lane nor guard, `agent-guard` the one in which the turn
as a whole is guarded.

## 3. Runs

| Run | Shows | Distinct states |
|---|---|---|
| `event_queue` | FIFO refinement, ring consistency, no lost wake-up, a full queue drains | 95 thousand |
| `guard` | exclusivity, coverage, disarm, with every feature and every failure | 820 thousand |
| `guard_live` | a hang that nobody feeds, a hung long operation and stale heartbeats end in a reset; waiters return | 114 thousand |
| `guard_hung` | **violation**: waiters keep a hung short operation alive | |
| `inbound` | order, offset, replay, accounting, resolution | 269 thousand |
| `inbound_skip` | **violation**: an update that met a full queue is passed over | |
| `owner_notify` | accounting, no first transport, delivery, no starvation by MCP | 71 thousand |
| `owner_notify_fresh` | **violation**: before the first success, notices and polls wait for each other | |
| `scheduler` | unique names, no double firing, no file left cut off, a one-shot job is emitted | 1.3 million |
| `scheduler_save` | **violation**: an older image is written over a newer file | |
| `recovery` | one recovery, the Wi-Fi lock, resets neither too early nor never, the boot thread gets past Wi-Fi | 767 thousand |
| `agent_turn` | resources returned, waiting is harmless, events accounted for, waits end, the lane comes back, turns reply | 87 thousand |

### Bounds, and why they are enough

* `event_queue`: capacity 3 wraps the ring with every fill level; three receivers
  allow one blocked, one signalled and one expired at the same time, which is
  what a lost wake-up would need.
* `guard`: two threads in different task groups and one descriptor number, so that
  equal numbers meet; timeouts of one or two ticks, so that every deadline can
  pass before, at and after every other. `HwMaxTicks` below `SessionHwTicks` makes the
  clamp of `fc_guard_hw_arm` act. `guard_live` has both threads in one group, the
  session guard and long guards, and an acquire timeout of two ticks, so that a
  waiter tries more than once.
* `inbound`: three updates, the middle one ignorable, queues of one event each
  (every publish can meet a full queue), one job, one reset. `BodyMax` is two, so
  that a backlog of three exceeds the response buffer.
* `owner_notify`: a queue of two and batches of two: full queue, partial and full batches,
  arrivals during a send. The number of notices is not bounded: `CounterMod` is 7, larger than
  what can be outstanding (`QueueLen + 2 * BatchMax`), so that no two outstanding notices
  have one number.
* `scheduler`: two names, two slots, one tool, two adds, two units of time, one reset, any number
  of failing opens, writes and renames. The kinds are one-shot, boot and cron: an interval
  job recurs like a cron job (it is due one unit after it was added or fired, a cron job once
  in every unit), and a fourth kind would make the liveness check half as long again.
* `recovery`: `Grace` 1, `Timeout` 2, `Suppress` 3 and `FirstGrace` 4 ticks are in the order of the
  default values (45, 90, 300 and 360 s), so that each can pass before and after
  every other; two names for recovery threads, so that a second one could exist; two
  attempts and two bind failures, so that the first and the last of each differ.
* `agent_turn`: one agent, one Telegram thread, one MCP client (two others contend for lane
  and guard with the turn, enough for one to hold the lane, one to wait for it and one to have the
  guard); three rounds with up to two tool calls each; all four builds. With two Telegram threads
  and two rounds the same properties hold (379 thousand states).

### Fairness

* Event queue: a receiver that was released takes the lock, and the workers call
  receive again (each worker is an endless loop around `fc_queue_receive`).
  Nothing is assumed of producers.
* Guard: time passes, a started register write or critical section ends, the feeder
  and session threads (high priority) run, a due reset happens. The session thread is
  strongly fair because it samples the guard periodically; nothing makes an
  operation end, a worker beat or a new call begin.
* Inbound: the three workers run; polls that could succeed again and again do succeed
  now and then (strong fairness on a successful `PollOnce`), without which no
  message arrives at all. That polls are made at all is the subject of `PollerKeepsPolling`. A poll
  whose response exceeds `BodyMax` fails; `UpdateResolved` has the premise that the
  backlog fits again and again, and is violated without it.
* Owner notifications: both threads run. `GoodNetSpec` adds that polls succeed now
  and then; the violation of `NoticeResolved` is found even so. Nothing bounds notices or
  MCP requests.
* Scheduler: the thread runs and time passes. Nothing is assumed of the tools.
* Recovery: time passes and the runtime loop, the boot thread's Wi-Fi part (which has a long
  guard) and a started request of the web server run; a reset board starts. Nothing is assumed of
  polls, the network, the recovery thread or the service commands of the boot thread, which
  run in `system()` without a guard (3023).
* Agent turn: the agent's thread runs; a wait ends by its deadline; a reset board starts. An
  operation that does not return meets the deadline of its guard if that is a long one
  (`HungLongOperationResets`) or a short one for which nobody waits (`UnfedHangResets`): finding 1
  below is that a waiter feeds a short guard. Nothing makes an operation return or an
  unguarded one fail. `LaneComesBack` therefore has the premise that a scheduled `http.request`
  returns, and `TurnReplies` that the agent's unguarded tools return, and that one under a short guard
  returns or is not waited for for ever. Each premise is needed: TLC finds a
  counterexample without it.

### Findings

1. `core/fc_guard.c:262`: a waiting thread reloads the watchdog of the operation it
   waits for, so a hung short operation is not reset while callers keep arriving;
   README.md:368 promises the reset. With nobody waiting (`UnfedHangResets`) or
   with a long guard (`HungLongOperationResets`) the promise holds.
2. `net/fc_telegram.c:430`: the offset "holds" at a failed publish only until a later
   update of the same response is acknowledged (`AcknowledgedWereQueued`).
   `OffsetHoldsAtFailure` is the weaker statement that does hold.
3. `net/fc_telegram.c:1020`: before the first successful transport a queued notice
   blocks the polls that would make the transport ready.
4. `sched/fc_scheduler.c:488`: saves are not ordered; an older image may be written
   over a newer one, and a job that was reported as saved is gone after a reset.

### Observations

Behaviour of the code, met while modelling, that is worth a reviewer's attention and for which
no run claims a violation.

* `core/fc_agent.c:246`: the context of a scheduled `tool:` event says `guarded` although no
  guard is held, so `fc_tool_guard_arm` (`caps/fc_caps_builtin.c:191`) and
  `cap_http_request` (2689, 2704) skip theirs: a scheduled `terminal.run` or
  `http.request` runs without a guard, against README.md:694-697. A scheduled `http.request`
  that hangs keeps the lane for ever; `LaneIsSupervised` and `LaneComesBack` name it as their only
  exception.
* `caps/fc_caps_builtin.c:440, 3629`: `service.control` (whose stop runs a command in `system()`,
  `fruitclaw_main.c:2969, 2977`) and `device.read` take no guard when the agent calls them, only the
  MCP server adds one (`net/fc_mcp.c:499-513`); `telegram.send` (2399) has neither lane nor guard in the
  isolated profile. One that hangs stops the agent without a reset.
* `net/fc_telegram.c:1175-1179`: notices go first, so an endless stream of them keeps the poll thread from
  polling, for as long as they come. `PollerKeepsPolling` says that nothing else does.
* `net/fc_http.c:628-638`: a backlog larger than the response buffer fails with `-ENOSPC` and is
  requested again with the same offset, so no update arrives until Telegram drops some.
* `net/fc_telegram.c:983-987`: the comment says sends are serialised through the lane
  and guarded; in the isolated profile they are neither.
* `fruitclaw_main.c:1187`: while the web server's port stays taken it asks for a recovery every few
  seconds; each one moves the start and end the operator guard compares with, so the grace period of
  the guard's own attempt does not expire. Polls that go stale and then end have a
  similar effect: each is owed a recovery of its own. Both are excluded in `OutageEscalates`.
* README.md:460-465 promises that a recovery that runs too long is escalated. This is
  so only when Telegram is stale at that time, and never in the isolated profile (`Guarded` false).
* `fruitclaw_main.c:1861` marks progress right before the check, so the operator's progress
  guard (1761) cannot fire, whatever Kconfig:465-473 says of it.
* `fruitclaw_main.c:1506`: when the recovery thread cannot be made, the attempt still counts; the
  board is reset after the grace period without a recovery having run.
* `fruitclaw_main.c:706`: a recovery within five minutes of the last success leaves Wi-Fi alone.
* `fruitclaw_main.c:291, 3037, 3050`: the services are started by commands that are not
  `required`, for which `boot_run_command` returns 0 in any case. The retries of
  `fc_boot_network_main` (844) and its reset (864) are never reached, and
  a service that could not be started is recorded as started. The flags are read
  before the services are started (3030), so a recovery and the boot thread may start one twice.
* `net/fc_mcp.c:129-178`: an error within the notification interval of its tool is
  suppressed, although README.md:444-447 says errors still notify immediately.

## 4. Proofs

All theorems hold for every value of the constants that satisfies the named
assumptions.

* **`EventQueueProofs`** (assumes `Capacity` positive, `NoEvent` no event, finitely
  many receivers). `RingCorrect`: types, and head, tail and count fit together.
  `NoWakeupLost`: `NoLostWakeup` is inductive only together with the types, the
  ring and the fact that a receiver blocks on an empty ring only; the argument
  counts signalled receivers against events, so it needs cardinality lemmas.
  `RingIsFifo`: with the queue read off the ring as the sequence
  of `count` slots from `head`, the initial state is `BoundedFifo`'s, publish is
  `Put`, the dequeuing steps are `Take`, every other step stutters.
* **`GuardProofs`**. `GuardInv` strengthens the three invariants: a thread that waits has no
  descriptor; the session thread stays; a holder (from taking to releasing, not only
  during the operation) implies an active guard; there is one holder; the watchdog is
  on from the end of `fc_guard_program_fd`; unless a recovery took over, the owner is
  the holder and the bound descriptor is its own. It gives `GuardIsExclusive`,
  `OperationIsCovered` and `DisarmIsNeverStale`. They speak of the time before a
  controlled reboot is prepared: preparing one clears the guard whoever holds it.
  `GuardImplements` is the refinement of `ExclusiveGuard`, with the threads between
  taking and giving back as `holders` and no holders while the board is going down: a thread
  step leaves the calls of others alone, and `HeldIsActive` and `OneHolder` make what it does
  to its own a `Take`, a `Release` or a stutter.
* **`InboundProofs`** (assumes that jobs, the probe and `NoEvent` are no updates; positive
  capacities; any body limit). The invariant has a part for the poll thread and one for the
  line of events. `PollInv`: a response is in order and not older than the offset, and
  what was queued since the reset is older than the offset, but for the update whose
  acknowledgement is under way. Without the last clause nothing would keep an update from being
  queued twice. `FileInv`: a file that was read is never ahead of the offset. They
  give `OffsetHolds` and, as an action property, `NoReplay`. `OrderInv` says that every
  update in one of the four places (agent, its queue, router, main queue) is younger than those
  in the places before it and than all answered ones; `PlaceInv` that each is in one place. They
  give `UpdatesInOrder` and `NoUpdateVanishes`. `InboundIsMailbox` uses the whole invariant: what
  waits in the abstract mailbox is what is on the line, and the agent holds the oldest.
* **`SchedulerProofs`** (for any set of tools; assumes positive bounds, and that the marks for a free slot, a missing and a
  cut-off file are no jobs and no lists of jobs). `NameInv` gives `SchedulerTypes` and
  `NamesStayUnique`; a save must be shown to write the used slots in order, which needs
  a counting lemma for `NthUsed` and the least-element principle of the natural numbers
  (taken from `WellFoundedInduction`). `SaveInv` gives `FileIsNotLeftTorn`: a
  file is cut off only while the descriptor that cut it off refers to it. `FireInv` gives
  `NeverFiresTwice`: incarnations are numbered (`FilesNumbered`, `TableNumbered`), since a job that
  is removed and added again, or comes back from an old file, must not be taken for the
  one that fired; the table knows the past of its jobs (`JobInv`); and the job that is emitted
  without the lock is marked in the table, if it is still there (`SnapInv`). The theorem covers
  interval jobs, which the run leaves out.
* **`OwnerNotifyProofs`** (assumes positive queue length, batch size and yield limit, and a counter
  range larger than what can be outstanding).
  The two parts of `NoticeAccounting` support each other: the accounting of a
  taken batch needs that nothing else is in flight. `NoticeNeverFirst` rests on
  `TransportSeen`, which also covers the step between looking at the transport and
  taking the batch.

* **`RecoveryProofs`** (assumes positive limits, thread names that are not lock
  owners). `Exclusive` joins two parts that are inductive with the types: the running flag,
  stated as an equivalence because a flag that is only implied by a running thread would not survive
  the end of that thread, and the Wi-Fi lock. `LastResort` needs more: while the loop is in its check, what it acts on is
  stale or was refreshed after the check's clock reading, and an attempt newer than the `since` of
  the request is newer than its cause (`CheckInv`). These facts are carried from `OpCheck` over
  `OpAge` to `OpRequest`, with polls, successes and requests of the web server in between.
* **`AgentTurnProofs`** (assumes `None` no thread, the agent no other thread, positive
  bounds). The inductive invariant joins `TypeOK`, `ResourcesReturned` and
  `EventsAccounted` with `Holding` (which places of a call hold what), `Guarded` (which calls run
  under a guard) and `TurnPlace` (which places of the turn
  go with which places of the agent's call). `WaitingNeverResets` and `LaneIsSupervised` (theorem
  `LaneSupervised`: a request in the lane runs under its thread's guard, scheduled ones apart) follow from it. `GuardUsedAsOffered` shows that calls and turn use
  the guard as `ExclusiveGuard` offers it; with `GuardImplements` both sides of that
  interface are proved.
* `GuardTypes`, `NotifyTypes`, `InboundTypes`, `SchedulerTypes` and both `TypeCorrect` are the
  type invariants; in `Guard` and `Recovery` they contain bounds the code has to work for (the width of the load register,
  the number of attempts).

Every invariant and every action property of the runs is proved. Only model-checked are the
liveness properties, since fairness and `ENABLED` are outside the prover: `FullQueueDrains`,
the four of `guard_live`, `UpdateResolved`, `ReadyDelivers`, `PollerKeepsPolling`, `OnceJobFires`,
`OutageEscalates`, `BootResolves`, `WaitsEnd`, `LaneComesBack` and `TurnReplies`.

The refinements of `ExclusiveGuard` (`ImplementsExclusiveGuard`, `UsesExclusiveGuard`) and of
`Mailbox` (`ImplementsMailbox`) and the invariant `LaneIsSupervised` are proved and belong to no
run. TLC confirms them on the instances of the runs `guard`, `agent_turn` and `inbound`.

## 5. Abstractions

* An event is a model value, an update its id, a notice only a number, a job its name,
  kind and time. Texts, prompts and JSON are left out.
* One unit of time in `Scheduler` is the interval, the cron minute and a second at once;
  a cron expression always matches. `fc_time_ms` does not run backwards.
* `fc_scheduler_lock_timed` and allocations succeed in `Scheduler`: a failure returns before
  anything is changed.
* The data root follows POSIX `open`/`rename`/`unlink`: a descriptor keeps its file. A
  shorter text written over a longer one leaves a tail, which `cJSON_Parse` ignores,
  so the file counts as the shorter text.
* `EventQueue`: spurious wake-ups (the receiver looks at `count` again and goes back to sleep) and
  wait errors other than the timeout (`fc_queue.c:118-122`) are left out.
* `Guard` counts ticks instead of milliseconds; an arm is one register write. The budget of a long
  guard starts when its feeder does; in the code it starts before the wait for the guard (`fc_guard.c:768`)
  and so ends earlier by that wait.
* `OwnerNotify` leaves out the failure back-off of the poll thread (it lengthens a
  sleep) and takes the limit on yielding to MCP to be positive, as configured.
* `Recovery`: one check per tick (the loop sleeps five seconds, less than any limit). The builds
  considered have the session guard and Telegram enabled. A forced recovery is the reset
  itself; a clock reading and the request it is passed to are one step in the web server. `OpAge` takes
  the start of the poll as it is; the code subtracts an age read a moment later (`fc_telegram.c:267`), so
  its `poll_start_ms` may be earlier by that moment. The console's
  `wifi up` is not a third client of the lock.
* `HttpLane` takes the guard to be `ExclusiveGuard`, which `GuardProofs` shows `Guard` to implement,
  with a wait of bounded length (`WaiterReturns`) and no effect when its owner takes it again. `fc_http_lock_timed` locks without a deadline when
  `clock_gettime` fails, which is left out. The heartbeat thread around a request
  (`fc_http_watchdog_start`) only marks the session alive and is `WorkerBeat` of `Guard`.
* `AgentTurn`: MCP tools that take neither lane nor guard are left out. There is one turn at a time:
  `fruitclaw once` (`fruitclaw_main.c:1877-1942`) and the self-test (`fc_selftest.c:685`), which run
  one on another thread, are left out.
* Berry is left out of `AgentTurn`. `INTERPRETERS_BERRY` defaults to n, but a build that sets it gets
  the capability and its runner too, for both FruitClaw options then default to y
  (Kconfig:342-355). In such a build a script runs under the short guard of its caller
  (`fc_berry.c:199-213`) and its `http.request` waits for the lane under that guard: the watchdog may
  then reset the board because of a wait, against `WaitingNeverResets`, which holds of builds without
  Berry only.
* `NoDoubleFire` and `OnceJobFires` speak of the time between two resets: a one-shot job that was
  emitted but not yet saved fires again after a reset.
* In `Inbound` the agent's turn is one step and the chat allow list is the set `Ignorable`.

## 6. Not modelled

`fc_web.c` and the built-in capabilities do I/O or formatting around calls that are
modelled elsewhere. `fc_config.c` (apart from the atomic write) and `fc_memory.c` parse and write
text files sequentially. `fc_berry.c` runs the interpreter on a worker thread under its
caller's guard (section 5 says what that means for `WaitingNeverResets`). Of `fc_mcp.c`, JSON-RPC dispatch
formats only; the notification limit has state and is described under the observations. Of
`fruitclaw_main.c`, the commands, the boot stages and the service commands are sequential I/O. TLS and
the webclient are external. The rest of the tree is upstream NuttX code, which FruitClaw
uses through `system()` and libc.

## 7. Plan

Done, in this order: `EventQueue` with `BoundedFifo`, `Guard`, `Inbound`, `OwnerNotify`,
`Scheduler`, `Recovery`, `HttpLane` with `AgentTurn`; the proofs of every invariant and action
property; the interfaces `ExclusiveGuard` and `Mailbox` with their refinement proofs.

Next, most important first:

1. Proofs: the safety part of a crash-safe register for the save path of `Scheduler` with
   a single writer, as an abstract specification with its refinement.
2. The services (`fruitclaw_main.c` 2478-3061): flags, probes and restarts by the monitor, the
   commands and a recovery at the same time.
3. The rate limiter of `net/fc_mcp.c` (129-218) in front of `OwnerNotify`.
4. The Berry runner as one more kind of call in `AgentTurn`: its worker is not the guard's owner.
5. The cron matcher (`fc_scheduler.c` 148-278) as a pure operator against a reference
   definition.
