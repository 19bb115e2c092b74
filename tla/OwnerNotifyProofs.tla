------------------------- MODULE OwnerNotifyProofs -------------------------
(***************************************************************************)
(* Proofs about OwnerNotify, for every queue length, batch size and limit  *)
(* on the time given to MCP.                                               *)
(***************************************************************************)
EXTENDS OwnerNotify, TLAPS

(* The inductive invariant.  The accounting needs to know what is in       *)
(* flight while a batch is taken and released, and both need the types.    *)
NotifyInv == TypeOK /\ NoticeAccounting

(* A start of the runtime satisfies it: nothing is queued or in flight.    *)
LEMMA InitNotify == Init => NotifyInv
<1> SUFFICES ASSUME Init PROVE NotifyInv
    OBVIOUS
<1>1. chat \in BOOLEAN /\ mcpActive \in BOOLEAN
    BY Zenon DEF Init
<1>2. TypeOK
    BY <1>1, NotifyAssumption DEF Init, TypeOK
<1>3. NoticeAccounting
    BY DEF Init, NoticeAccounting, InflightIsBatch
<1> QED BY <1>2, <1>3 DEF NotifyInv

(* Types are kept by every step.                                           *)
LEMMA TypeStep == NotifyInv /\ [Next]_vars => TypeOK'
<1> SUFFICES ASSUME NotifyInv, [Next]_vars PROVE TypeOK'
    OBVIOUS
<1> USE NotifyAssumption DEF NotifyInv, TypeOK
<1>1. CASE NotifyOwnerAsync
    BY <1>1 DEF NotifyOwnerAsync, Counted, notifyVars, pollVars
<1>2. CASE McpRequest \/ McpQuiet \/ AgentSends \/ TransportAges
    BY <1>2 DEF McpRequest, McpQuiet, AgentSends, TransportAges, counters,
                notifyVars, pollVars
<1>3. CASE NotifyWake
    BY <1>3 DEF NotifyWake, counters, pollVars
<1>4. CASE NotifyCheck
    BY <1>4 DEF NotifyCheck, counters, pollVars
<1>5. CASE NotifyTake
    BY <1>5 DEF NotifyTake, counters, pollVars
<1>6. CASE NotifyYield
    BY <1>6 DEF NotifyYield, counters, pollVars
<1>7. CASE NotifySend
    BY <1>7 DEF NotifySend, Counted, pollVars
<1>8. CASE NotifyRelease
    BY <1>8 DEF NotifyRelease, counters, pollVars
<1>9. CASE Poller
    BY <1>9 DEF Poller, PollCheck, PollBegin, PollEnd, counters, notifyVars
<1>10. CASE UNCHANGED vars
    BY <1>10 DEF vars, counters, notifyVars, pollVars
<1> QED BY <1>1, <1>2, <1>3, <1>4, <1>5, <1>6, <1>7, <1>8, <1>9, <1>10
       DEF Next, Notifier

(* The batch and the counters are kept in step by every step.              *)
LEMMA AccountingStep == NotifyInv /\ [Next]_vars => NoticeAccounting'
<1> SUFFICES ASSUME NotifyInv, [Next]_vars PROVE NoticeAccounting'
    OBVIOUS
<1> USE NotifyAssumption
    DEF NotifyInv, TypeOK, NoticeAccounting, InflightIsBatch
<1>1. CASE NotifyOwnerAsync
    BY <1>1 DEF NotifyOwnerAsync, Counted, notifyVars, pollVars
<1>2. CASE McpRequest \/ McpQuiet \/ AgentSends \/ TransportAges
    BY <1>2 DEF McpRequest, McpQuiet, AgentSends, TransportAges, counters,
                notifyVars, pollVars
<1>3. CASE NotifyWake
    BY <1>3 DEF NotifyWake, counters, pollVars
<1>4. CASE NotifyCheck
    BY <1>4 DEF NotifyCheck, counters, pollVars
<1>5. CASE NotifyTake
    BY <1>5 DEF NotifyTake, counters, pollVars
<1>6. CASE NotifyYield
    BY <1>6 DEF NotifyYield, counters, pollVars
<1>7. CASE NotifySend
    BY <1>7 DEF NotifySend, Counted, pollVars
<1>8. CASE NotifyRelease
    BY <1>8 DEF NotifyRelease, counters, pollVars
<1>9. CASE Poller
    BY <1>9 DEF Poller, PollCheck, PollBegin, PollEnd, counters, notifyVars
<1>10. CASE UNCHANGED vars
    BY <1>10 DEF vars, counters, notifyVars, pollVars
<1> QED BY <1>1, <1>2, <1>3, <1>4, <1>5, <1>6, <1>7, <1>8, <1>9, <1>10
       DEF Next, Notifier

(* The inductive invariant holds in every behaviour.                       *)
THEOREM NotifyInvariant == Spec => []NotifyInv
<1>1. NotifyInv /\ [Next]_vars => NotifyInv'
    BY TypeStep, AccountingStep DEF NotifyInv
<1> QED BY InitNotify, <1>1, PTL DEF Spec

(* Types; in particular fc_telegram_notify_owner_async never puts more     *)
(* notices on the queue than it has room for, and both waits for MCP are   *)
(* bounded.                                                                *)
THEOREM NotifyTypes == Spec => []TypeOK
<1>1. NotifyInv => TypeOK
    BY DEF NotifyInv
<1> QED
    BY <1>1, NotifyInvariant, PTL

(* fc_telegram_record_notify_result and the notify thread account for      *)
(* every accepted notice, although they use two locks, and the poll thread *)
(* never waits for a batch that is done.                                   *)
THEOREM NoticesAccounted == Spec => []NoticeAccounting
<1>1. NotifyInv => NoticeAccounting
    BY DEF NotifyInv
<1> QED BY NotifyInvariant, <1>1, PTL

(* The transport of a batch that is on its way to a chat was ready when it *)
(* was looked at, and has succeeded at some time since then.               *)
TransportSeen ==
    notifier \in {"take", "yield", "send"} /\ chat => last # "never"

(* A notice is never the first HTTPS operation after a start, however MCP  *)
(* requests, polls and replies interleave with the notify thread.          *)
THEOREM NoticeNeverFirst == Spec => []NeverFirstTransport
<1>1. Init => TransportSeen
    BY DEF Init, TransportSeen
<1>2. TransportSeen /\ [Next]_vars => TransportSeen'
  <2> SUFFICES ASSUME TransportSeen, [Next]_vars PROVE TransportSeen'
      OBVIOUS
  <2>1. CASE NotifyOwnerAsync \/ McpRequest \/ McpQuiet
      BY <2>1 DEF NotifyOwnerAsync, McpRequest, McpQuiet, TransportSeen,
                  notifyVars
  <2>2. CASE AgentSends \/ TransportAges
      BY <2>2 DEF AgentSends, TransportAges, TransportSeen, notifyVars
  <2>3. CASE NotifyCheck
      BY <2>3 DEF NotifyCheck, TransportReady, TransportSeen
  <2>4. CASE NotifyWake \/ NotifyTake \/ NotifyYield \/ NotifyRelease
      BY <2>4 DEF NotifyWake, NotifyTake, NotifyYield, NotifyRelease,
                  TransportSeen
  <2>5. CASE NotifySend
      BY <2>5 DEF NotifySend, TransportSeen
  <2>6. CASE Poller
      BY <2>6 DEF Poller, PollCheck, PollBegin, PollEnd, TransportSeen,
                  notifyVars
  <2>7. CASE UNCHANGED vars
      BY <2>7 DEF vars, notifyVars, TransportSeen
  <2> QED BY <2>1, <2>2, <2>3, <2>4, <2>5, <2>6, <2>7 DEF Next, Notifier
<1>3. TransportSeen => NeverFirstTransport
    BY DEF TransportSeen, NeverFirstTransport
<1> QED BY <1>1, <1>2, <1>3, PTL DEF Spec
=============================================================================
