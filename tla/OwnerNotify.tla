---------------------------- MODULE OwnerNotify ----------------------------
(***************************************************************************)
(* Owner notifications and the poll loop of net/fc_telegram.c: producers   *)
(* put notices on a bounded queue, the notify thread sends them in         *)
(* batches, the poll thread gives way to pending notices and to recent MCP *)
(* activity, and the notify thread defers while Telegram has had no recent *)
(* successful transport.                                                   *)
(*                                                                         *)
(* Notices are told apart by nothing but their number, and there is no     *)
(* bound on how many are made: the counters wrap around, as the unsigned   *)
(* counters of the code do.  The age of the last success and of the last   *)
(* MCP request are read through the comparisons the code makes: last and   *)
(* mcpActive.                                                              *)
(***************************************************************************)
EXTENDS Integers

CONSTANTS
    QueueLen,    \* CONFIG_FRUITCLAW_TELEGRAM_NOTIFY_QUEUE_LEN
    BatchMax,    \* CONFIG_FRUITCLAW_TELEGRAM_NOTIFY_BATCH_MAX
    MaxYield,    \* steps in CONFIG_FRUITCLAW_TELEGRAM_MCP_MAX_YIELD_MS
    CounterMod,  \* ULONG_MAX + 1, where the counters wrap around
    AgentReplies \* TRUE when jobs or commands make the agent send messages

ASSUME NotifyAssumption ==
    /\ QueueLen \in Nat \ {0} /\ BatchMax \in Nat \ {0}
    /\ MaxYield \in Nat \ {0}
    /\ CounterMod \in Nat /\ CounterMod > QueueLen + 2 * BatchMax
    /\ AgentReplies \in BOOLEAN

VARIABLES
    count,      \* g_tg_notify_count
    inflight,   \* g_tg_notify_inflight
    enqueued,   \* g_tg_notify_enqueued
    sent,       \* g_tg_notify_sent
    failed,     \* g_tg_notify_failed
    notifier,   \* notify thread: "wait", "check", "take", "yield", "send", "release"
    chat,       \* its result of fc_telegram_first_allowed_chat
    batched,    \* its batch
    waited,     \* its mcp_waited_ms, in steps
    poller,     \* poll thread: "check", "go" or "active"
    yielded,    \* its mcp_yielded_ms, in steps
    last,       \* g_tg_last_success_ms: "never", "recent" or "old"
    mcpActive   \* fc_mcp_recently_active

counters == <<enqueued, sent, failed>>
notifyVars == <<notifier, chat, batched, waited>>
pollVars == <<poller, yielded>>
vars == <<count, inflight, counters, notifyVars, pollVars, last, mcpActive>>

Init ==
    /\ count = 0 /\ inflight = 0
    /\ enqueued = 0 /\ sent = 0 /\ failed = 0
    /\ notifier = "wait" /\ chat = FALSE /\ batched = 0 /\ waited = 0
    /\ poller = "check" /\ yielded = 0
    /\ last = "never" /\ mcpActive = FALSE
-----------------------------------------------------------------------------
(* A counter after n more events.                                          *)
Counted(c, n) == IF c + n < CounterMod THEN c + n ELSE c + n - CounterMod

(* Mutant of NotifyOwnerAsync: one notice more than the array holds.       *)
NotifyOwnerAsync_OneTooMany ==
    /\ count <= QueueLen
    /\ count' = count + 1 /\ enqueued' = Counted(enqueued, 1)
    /\ UNCHANGED <<inflight, sent, failed, notifyVars, pollVars, last,
                   mcpActive>>

(* fc_telegram_notify_owner_async: the notice is queued, and the notify    *)
(* thread, which waits for work, is started or woken.  A full queue        *)
(* refuses it, which changes nothing but the count of dropped notices, a   *)
(* number nobody but the status page reads.                                *)
NotifyOwnerAsync ==
    /\ count < QueueLen
    /\ count' = count + 1 /\ enqueued' = Counted(enqueued, 1)
    /\ UNCHANGED <<inflight, sent, failed, notifyVars, pollVars, last,
                   mcpActive>>

(* fc_mcp_mark_activity, and a time without requests.                      *)
McpRequest ==
    /\ ~mcpActive /\ mcpActive' = TRUE
    /\ UNCHANGED <<count, inflight, counters, notifyVars, pollVars, last>>

McpQuiet ==
    /\ mcpActive /\ mcpActive' = FALSE
    /\ UNCHANGED <<count, inflight, counters, notifyVars, pollVars, last>>

(* fc_agent_reply over the same transport, when it succeeds.               *)
AgentSends ==
    /\ AgentReplies
    /\ last' = "recent" /\ last # "recent"
    /\ UNCHANGED <<count, inflight, counters, notifyVars, pollVars, mcpActive>>

(* The last success gets older than fc_telegram_transport_ready accepts.   *)
TransportAges ==
    /\ last = "recent" /\ last' = "old"
    /\ UNCHANGED <<count, inflight, counters, notifyVars, pollVars, mcpActive>>
-----------------------------------------------------------------------------
(* fc_telegram_notify_thread_main: woken by a notice.                      *)
NotifyWake ==
    /\ notifier = "wait" /\ count > 0
    /\ notifier' = "check"
    /\ UNCHANGED <<count, inflight, counters, chat, batched, waited, pollVars,
                   last, mcpActive>>

TransportReady == last = "recent"

(* Mutant of NotifyCheck: the transport is not looked at.                  *)
NotifyCheck_NoDefer ==
    /\ notifier = "check"
    /\ chat' \in BOOLEAN
    /\ notifier' = "take"
    /\ UNCHANGED <<count, inflight, counters, batched, waited, pollVars, last,
                   mcpActive>>

(* Chat and transport are looked up after the coalescing sleep; without a  *)
(* ready transport the thread sleeps and starts over, the queue untouched. *)
NotifyCheck ==
    /\ notifier = "check"
    /\ chat' \in BOOLEAN
    /\ notifier' = IF chat' /\ ~TransportReady THEN "wait" ELSE "take"
    /\ UNCHANGED <<count, inflight, counters, batched, waited, pollVars, last,
                   mcpActive>>

(* Move a batch from the queue to the notices in flight.  BatchMax lines   *)
(* always fit the text buffer.                                             *)
NotifyTake ==
    /\ notifier = "take"
    /\ batched' = IF count < BatchMax THEN count ELSE BatchMax
    /\ count' = count - batched'
    /\ inflight' = inflight + batched'
    /\ notifier' = IF chat THEN "yield" ELSE "send"
    /\ UNCHANGED <<counters, chat, waited, pollVars, last, mcpActive>>

(* Mutant of NotifyYield: the wait for a quiet MCP server is unbounded.    *)
NotifyYield_Forever ==
    /\ notifier = "yield"
    /\ IF mcpActive
       THEN UNCHANGED <<notifier, waited>>
       ELSE notifier' = "send" /\ waited' = 0
    /\ UNCHANGED <<count, inflight, counters, chat, batched, pollVars, last,
                   mcpActive>>

(* fc_telegram_notify_yield_to_poller: at most three seconds for an active *)
(* poll, so it may or may not still run, then a bounded wait for MCP.      *)
NotifyYield ==
    /\ notifier = "yield"
    /\ IF mcpActive /\ waited < MaxYield
       THEN waited' = waited + 1 /\ UNCHANGED notifier
       ELSE notifier' = "send" /\ waited' = 0
    /\ UNCHANGED <<count, inflight, counters, chat, batched, pollVars, last,
                   mcpActive>>

(* Mutant of NotifySend: a failed batch is put back and counted.           *)
NotifySend_Requeues ==
    /\ notifier = "send"
    /\ \/ /\ chat
          /\ sent' = Counted(sent, batched) /\ last' = "recent"
          /\ UNCHANGED <<failed, count>>
       \/ /\ failed' = Counted(failed, batched)
          /\ count' = count + batched
          /\ UNCHANGED <<sent, last>>
    /\ notifier' = "release"
    /\ UNCHANGED <<inflight, enqueued, chat, batched, waited, pollVars, mcpActive>>

(* fc_telegram_send_message and the first half of                          *)
(* fc_telegram_record_notify_result: the result is counted.                *)
NotifySend ==
    /\ notifier = "send"
    /\ \/ /\ chat
          /\ sent' = Counted(sent, batched) /\ last' = "recent"
          /\ UNCHANGED failed
       \/ /\ failed' = Counted(failed, batched)
          /\ UNCHANGED <<sent, last>>
    /\ notifier' = "release"
    /\ UNCHANGED <<count, inflight, enqueued, chat, batched, waited, pollVars,
                   mcpActive>>

(* Its second half: the batch is no longer in flight.                      *)
NotifyRelease ==
    /\ notifier = "release"
    /\ inflight' = IF inflight >= batched THEN inflight - batched ELSE 0
    /\ notifier' = "wait"
    /\ UNCHANGED <<count, counters, chat, batched, waited, pollVars, last,
                   mcpActive>>
-----------------------------------------------------------------------------
NotifyPending == count > 0 \/ inflight > 0

(* Mutant of PollCheck: the time given to MCP is not limited.              *)
PollCheck_NoLimit ==
    /\ poller = "check" /\ ~NotifyPending /\ ~mcpActive
    /\ poller' = "go" /\ yielded' = 0
    /\ UNCHANGED <<count, inflight, counters, notifyVars, last, mcpActive>>

(* fc_telegram_thread_main: notices first, then MCP up to a bound.         *)
PollCheck ==
    /\ poller = "check" /\ ~NotifyPending
    /\ IF mcpActive /\ yielded < MaxYield
       THEN yielded' = yielded + 1 /\ UNCHANGED poller
       ELSE yielded' = 0 /\ poller' = "go"
    /\ UNCHANGED <<count, inflight, counters, notifyVars, last, mcpActive>>

(* fc_telegram_poll_once: the request is under way, or there is no token   *)
(* or no memory for it.                                                    *)
PollBegin ==
    /\ poller = "go"
    /\ poller' \in {"active", "check"}
    /\ UNCHANGED <<count, inflight, counters, notifyVars, yielded, last,
                   mcpActive>>

PollEnd ==
    /\ poller = "active"
    /\ last' \in {last, "recent"}
    /\ poller' = "check"
    /\ UNCHANGED <<count, inflight, counters, notifyVars, yielded, mcpActive>>

Notifier ==
    \/ NotifyWake \/ NotifyCheck \/ NotifyTake \/ NotifyYield \/ NotifySend
    \/ NotifyRelease

Poller == PollCheck \/ PollBegin \/ PollEnd

Next ==
    \/ NotifyOwnerAsync \/ McpRequest \/ McpQuiet \/ AgentSends \/ TransportAges
    \/ Notifier \/ Poller

Spec == Init /\ [][Next]_vars

(* Both threads run.  Nothing is assumed of the network, of MCP clients or *)
(* of the agent.                                                           *)
FairSpec == Spec /\ WF_vars(Notifier) /\ WF_vars(Poller)

(* In addition polls that are made again and again succeed now and then.   *)
GoodNetSpec == FairSpec /\ SF_vars(PollEnd /\ last' = "recent")
-----------------------------------------------------------------------------
(* Type invariant.                                                         *)
TypeOK ==
    /\ count \in 0 .. QueueLen /\ inflight \in Nat
    /\ {enqueued, sent, failed} \subseteq 0 .. (CounterMod - 1)
    /\ notifier \in {"wait", "check", "take", "yield", "send", "release"}
    /\ chat \in BOOLEAN /\ batched \in 0 .. BatchMax /\ waited \in 0 .. MaxYield
    /\ poller \in {"check", "go", "active"} /\ yielded \in 0 .. MaxYield
    /\ last \in {"never", "recent", "old"} /\ mcpActive \in BOOLEAN

InflightIsBatch ==
    inflight = IF notifier \in {"yield", "send", "release"} THEN batched ELSE 0

(* Every accepted notice is waiting, in flight, sent or failed, and in one *)
(* of these places only, although the counters and the notices in flight   *)
(* are updated under two locks (fc_telegram_record_notify_result) and wrap *)
(* around one after the other; what is in flight is the notify thread's    *)
(* batch, so an underflow never has to be corrected and a batch that is    *)
(* done keeps no poll waiting.                                             *)
NoticeAccounting ==
    /\ LET all == count + sent + failed
                      + (IF notifier = "release" THEN 0 ELSE inflight)
       IN  enqueued \in {all, all - CounterMod, all - 2 * CounterMod}
    /\ InflightIsBatch

(* A notice is never the first HTTPS operation after a start ("MCP         *)
(* tool-call notifications are attempted only after Telegram has had a     *)
(* recent successful transport").                                          *)
NeverFirstTransport ==
    notifier \in {"yield", "send"} /\ chat => last # "never"

(* The notice with the number k, counted as g_tg_notify_enqueued does, was *)
(* sent or failed by the last batch: no two notices with one number are    *)
(* outstanding, because CounterMod is larger than queue and batch.         *)
Resolved(k) ==
    \E n \in 0 .. BatchMax - 1 : Counted(sent, failed) = Counted(k, n)

(* Once the transport stays good, every accepted notice is sent or fails,  *)
(* whatever MCP clients do and however many notices follow.                *)
ReadyDelivers ==
    <>[](last = "recent") =>
        \A k \in 0 .. CounterMod - 1 : enqueued = k ~> Resolved(k)

(* Once the transport stays good, the poll thread keeps polling, unless    *)
(* batches of notices are delivered for ever.  MCP activity alone does not *)
(* starve it, and nothing else does: in particular it never waits for      *)
(* notices that wait themselves.  A stream of notices without end does,    *)
(* since fc_telegram_thread_main gives way to notices without a limit.     *)
PollerKeepsPolling ==
    <>[](last = "recent") =>
        []<>(poller = "go") \/ []<>(notifier = "release")

(* "if Telegram has not yet had a recent successful transport,             *)
(* notification batches fail fast": every accepted notice is sent or fails. *)
NoticeResolved ==
    \A k \in 0 .. CounterMod - 1 : enqueued = k ~> Resolved(k)
=============================================================================
