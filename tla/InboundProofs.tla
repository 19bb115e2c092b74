--------------------------- MODULE InboundProofs ---------------------------
(***************************************************************************)
(* Proofs about Inbound, for any number of updates, every set of ignorable *)
(* ones, every queue capacity and body limit, any number of resets and     *)
(* jobs, with and without the live self-test.                              *)
(***************************************************************************)
EXTENDS Inbound, TLAPS

(* The updates of a queue are in the order of their ids.                   *)
OrderIn(q) ==
    \A i, j \in 1 .. Len(q) :
        i < j /\ q[i] \in Updates /\ q[j] \in Updates => q[i] < q[j]

(* Every update of A is older than every update of B.                      *)
Below(A, B) == \A u \in A, v \in B : u < v

(* The updates in a queue and in a receive buffer.                         *)
In(q) == Range(q) \cap Updates
Of(e) == {e} \cap Updates
-----------------------------------------------------------------------------
(* Queues: what Append, Tail and concatenation do to order and contents.   *)
LEMMA EmptyQueue == << >> \in Seq(Events) /\ In(<< >>) = {} /\ OrderIn(<< >>)
BY DEF In, Range, OrderIn

LEMMA AppendQueue ==
    ASSUME NEW q \in Seq(Events), NEW e \in Events
    PROVE  /\ Append(q, e) \in Seq(Events) /\ Len(Append(q, e)) = Len(q) + 1
           /\ In(Append(q, e)) = In(q) \cup Of(e)
           /\ OrderIn(q) /\ Below(In(q), Of(e)) => OrderIn(Append(q, e))
<1> DEFINE p == Append(q, e)
<1>1. /\ p \in Seq(Events) /\ Len(p) = Len(q) + 1 /\ Len(q) \in Nat
      /\ p[Len(q) + 1] = e /\ \A i \in 1 .. Len(q) : p[i] = q[i]
    OBVIOUS
<1>2. DOMAIN p = 1 .. Len(q) + 1 /\ DOMAIN q = 1 .. Len(q)
    BY <1>1
<1> HIDE DEF p
<1>3. Range(p) = Range(q) \cup {e}
  <2>1. ASSUME NEW x \in Range(p) PROVE x \in Range(q) \cup {e}
    BY <1>1, <1>2 DEF Range
  <2>2. ASSUME NEW x \in Range(q) \cup {e} PROVE x \in Range(p)
    BY <1>1, <1>2 DEF Range
  <2> QED
    BY <2>1, <2>2
<1>4. In(p) = In(q) \cup Of(e)
    BY <1>3 DEF In, Of
<1>5. ASSUME OrderIn(q), Below(In(q), Of(e)) PROVE OrderIn(p)
  <2> SUFFICES ASSUME NEW i \in 1 .. Len(p), NEW j \in 1 .. Len(p), i < j,
                      p[i] \in Updates, p[j] \in Updates
               PROVE  p[i] < p[j]
    BY DEF OrderIn
  <2>1. i \in 1 .. Len(q)
    BY <1>1
  <2>2. CASE j \in 1 .. Len(q)
    BY <1>1, <1>5, <2>1, <2>2 DEF OrderIn
  <2>3. CASE j = Len(q) + 1
    <3>1. p[i] \in In(q) /\ p[j] \in Of(e)
      BY <1>1, <1>2, <2>1, <2>3 DEF In, Of, Range
    <3> QED
      BY <1>5, <3>1 DEF Below
  <2> QED
    BY <1>1, <2>2, <2>3
<1> QED
    BY <1>1, <1>4, <1>5 DEF p

LEMMA TailQueue ==
    ASSUME NEW q \in Seq(Events), q # << >>
    PROVE  /\ Head(q) \in Events /\ Tail(q) \in Seq(Events)
           /\ Len(Tail(q)) = Len(q) - 1
           /\ In(q) = Of(Head(q)) \cup In(Tail(q))
           /\ OrderIn(q) => OrderIn(Tail(q)) /\ Below(Of(Head(q)), In(Tail(q)))
<1> DEFINE t == Tail(q)
           h == Head(q)
<1>1. /\ h \in Events /\ t \in Seq(Events) /\ Len(q) \in Nat \ {0}
      /\ Len(t) = Len(q) - 1
      /\ h = q[1] /\ \A i \in 1 .. Len(t) : t[i] = q[i + 1]
    OBVIOUS
<1>2. DOMAIN t = 1 .. Len(t) /\ DOMAIN q = 1 .. Len(q)
    BY <1>1
<1> HIDE DEF t, h
<1>3. Range(q) = Range(t) \cup {h}
  <2>1. ASSUME NEW x \in Range(q) PROVE x \in Range(t) \cup {h}
    <3>1. PICK i \in 1 .. Len(q) : x = q[i]
      BY <1>2 DEF Range
    <3>2. CASE i = 1
      BY <1>1, <3>1, <3>2
    <3>3. CASE i # 1
      <4>1. i - 1 \in 1 .. Len(t) /\ t[i - 1] = q[i]
        BY <1>1, <3>3
      <4> QED
        BY <1>2, <3>1, <4>1 DEF Range
    <3> QED
      BY <3>2, <3>3
  <2>2. ASSUME NEW x \in Range(t) \cup {h} PROVE x \in Range(q)
    BY <1>1, <1>2 DEF Range
  <2> QED
    BY <2>1, <2>2
<1>4. In(q) = Of(h) \cup In(t)
    BY <1>3 DEF In, Of
<1>5. ASSUME OrderIn(q) PROVE OrderIn(t) /\ Below(Of(h), In(t))
  <2>1. OrderIn(t)
    BY <1>1, <1>5 DEF OrderIn
  <2>2. ASSUME NEW u \in Of(h), NEW v \in In(t) PROVE u < v
    <3>1. PICK i \in 1 .. Len(t) : v = t[i]
      BY <1>2 DEF In, Range
    <3>2. u = q[1] /\ v = q[i + 1] /\ u \in Updates /\ v \in Updates
      BY <1>1, <3>1 DEF Of, In
    <3> QED
      BY <1>1, <1>5, <3>2 DEF OrderIn
  <2> QED
    BY <2>1, <2>2 DEF Below
<1> QED
    BY <1>1, <1>4, <1>5 DEF t, h

LEMMA JoinQueues ==
    ASSUME NEW p \in Seq(Events), NEW q \in Seq(Events)
    PROVE  /\ p \o q \in Seq(Events)
           /\ In(p \o q) = In(p) \cup In(q)
           /\ OrderIn(p) /\ OrderIn(q) /\ Below(In(p), In(q))
                 => OrderIn(p \o q)
<1> DEFINE c == p \o q
<1>1. /\ c \in Seq(Events) /\ Len(c) = Len(p) + Len(q)
      /\ Len(p) \in Nat /\ Len(q) \in Nat
      /\ \A i \in 1 .. Len(p) : c[i] = p[i]
      /\ \A i \in 1 .. Len(q) : c[Len(p) + i] = q[i]
    OBVIOUS
<1>2. /\ DOMAIN c = 1 .. Len(c) /\ DOMAIN p = 1 .. Len(p)
      /\ DOMAIN q = 1 .. Len(q)
    BY <1>1
<1> HIDE DEF c
<1>3. ASSUME NEW i \in 1 .. Len(c)
      PROVE  \/ i \in 1 .. Len(p) /\ c[i] = p[i]
             \/ i - Len(p) \in 1 .. Len(q) /\ c[i] = q[i - Len(p)]
  <2>1. CASE i <= Len(p)
    BY <1>1, <2>1
  <2>2. CASE i > Len(p)
    <3>1. i - Len(p) \in 1 .. Len(q)
      BY <1>1, <2>2
    <3>2. i = Len(p) + (i - Len(p))
      BY <1>1
    <3> QED
      BY <1>1, <3>1, <3>2
  <2> QED
    BY <1>1, <2>1, <2>2
<1>4. Range(c) = Range(p) \cup Range(q)
  <2>1. ASSUME NEW x \in Range(c) PROVE x \in Range(p) \cup Range(q)
    BY <1>2, <1>3 DEF Range
  <2>2. ASSUME NEW x \in Range(p) PROVE x \in Range(c)
    BY <1>1, <1>2 DEF Range
  <2>3. ASSUME NEW x \in Range(q) PROVE x \in Range(c)
    <3>1. PICK i \in 1 .. Len(q) : x = q[i]
      BY <1>2 DEF Range
    <3>2. Len(p) + i \in 1 .. Len(c) /\ c[Len(p) + i] = x
      BY <1>1, <3>1
    <3> QED
      BY <1>2, <3>2 DEF Range
  <2> QED
    BY <2>1, <2>2, <2>3
<1>5. In(c) = In(p) \cup In(q)
    BY <1>4 DEF In
<1>6. ASSUME OrderIn(p), OrderIn(q), Below(In(p), In(q)) PROVE OrderIn(c)
  <2> SUFFICES ASSUME NEW i \in 1 .. Len(c), NEW j \in 1 .. Len(c), i < j,
                      c[i] \in Updates, c[j] \in Updates
               PROVE  c[i] < c[j]
    BY DEF OrderIn
  <2>1. CASE i \in 1 .. Len(p) /\ c[i] = p[i] /\ j \in 1 .. Len(p) /\ c[j] = p[j]
    BY <1>6, <2>1 DEF OrderIn
  <2>2. CASE /\ i \in 1 .. Len(p) /\ c[i] = p[i]
             /\ j - Len(p) \in 1 .. Len(q) /\ c[j] = q[j - Len(p)]
    <3>1. c[i] \in In(p) /\ c[j] \in In(q)
      BY <1>2, <2>2 DEF In, Range
    <3> QED
      BY <1>6, <3>1 DEF Below
  <2>3. CASE /\ i - Len(p) \in 1 .. Len(q) /\ c[i] = q[i - Len(p)]
             /\ j - Len(p) \in 1 .. Len(q) /\ c[j] = q[j - Len(p)]
    <3>1. i - Len(p) < j - Len(p)
      BY <1>1
    <3> QED
      BY <1>6, <2>3, <3>1 DEF OrderIn
  <2>4. ~(i - Len(p) \in 1 .. Len(q) /\ j \in 1 .. Len(p))
    BY <1>1
  <2> QED
    BY <1>3, <2>1, <2>2, <2>3, <2>4
<1> QED
    BY <1>1, <1>5, <1>6 DEF c
-----------------------------------------------------------------------------
(* The inductive invariant.                                                *)

(* Polling: the response is in order and not older than the offset; what   *)
(* was queued since the reset is older than the offset, but for the update *)
(* whose acknowledgement is under way.                                     *)
PollInv ==
    /\ \A i \in 1 .. Len(batch) : batch[i] >= offset
    /\ \A i, j \in 1 .. Len(batch) : i < j => batch[i] < batch[j]
    /\ poll = "idle" => batch = << >>
    /\ poll # "idle" => offset >= 0
    /\ poll = "ack" => batch # << >> /\ Head(batch) \in here \cup Ignorable
    /\ \A u \in here : u < offset \/ (poll = "ack" /\ u = Head(batch))

(* The offset file never runs ahead of an offset that was read from it.    *)
FileInv == readable /\ offset >= 0 => disk <= offset

(* The updates on their way, in the four places from the agent back to the *)
(* poll thread, and the queues in order.                                   *)
Line == Of(agentIn["agent"]) \cup In(agentQ) \cup Of(routerIn["router"])
            \cup In(mainQ)

OrderInv ==
    /\ OrderIn(agentQ) /\ OrderIn(mainQ)
    /\ Below(answered, Line)
    /\ Below(Of(agentIn["agent"]),
             In(agentQ) \cup Of(routerIn["router"]) \cup In(mainQ))
    /\ Below(In(agentQ), Of(routerIn["router"]) \cup In(mainQ))
    /\ Below(Of(routerIn["router"]), In(mainQ))

(* Every update queued since the reset is in exactly one place.            *)
PlaceInv ==
    /\ here = Line \cup answered \cup failed \cup stolen
    /\ Line \cap (answered \cup failed \cup stolen) = {}
    /\ answered \cap (failed \cup stolen) = {}
    /\ failed \cap stolen = {}

Inv == TypeOK /\ PollInv /\ FileInv /\ OffsetHoldsAtFailure /\ OrderInv
           /\ PlaceInv
-----------------------------------------------------------------------------
(* The poll thread.                                                        *)
PollTypes ==
    /\ sent \in 0 .. MaxUpdate /\ confirmed \in 1 .. (MaxUpdate + 1)
    /\ readable \in BOOLEAN
    /\ disk \in 0 .. (MaxUpdate + 1) /\ offset \in -1 .. (MaxUpdate + 1)
    /\ batch \in Seq(Updates) /\ poll \in {"idle", "handle", "ack"}
    /\ taken \subseteq Updates /\ here \subseteq taken

PollPart == PollTypes /\ PollInv /\ FileInv /\ OffsetHoldsAtFailure

(* The first update of a response and the rest of it.                      *)
LEMMA BatchHead ==
    ASSUME PollTypes, PollInv, batch # << >>
    PROVE  /\ Head(batch) \in Updates /\ Head(batch) \in Int
           /\ Head(batch) >= offset
           /\ Tail(batch) \in Seq(Updates)
           /\ \A i \in 1 .. Len(Tail(batch)) : Tail(batch)[i] > Head(batch)
           /\ \A i, j \in 1 .. Len(Tail(batch)) :
                 i < j => Tail(batch)[i] < Tail(batch)[j]
<1> DEFINE h == Head(batch)
           t == Tail(batch)
<1>1. batch \in Seq(Updates) /\ offset \in Int
    BY InboundAssumption DEF PollTypes
<1>2. /\ h \in Updates /\ t \in Seq(Updates) /\ Len(batch) \in Nat \ {0}
      /\ Len(t) = Len(batch) - 1
      /\ h = batch[1] /\ \A i \in 1 .. Len(t) : t[i] = batch[i + 1]
    BY <1>1
<1>3. h \in Int
    BY <1>2 DEF Updates
<1> HIDE DEF h, t
<1>4. h >= offset
    BY <1>2 DEF PollInv
<1>5. \A i \in 1 .. Len(t) : t[i] > h
  <2>1. ASSUME NEW i \in 1 .. Len(t) PROVE t[i] > h
    <3>1. 1 \in 1 .. Len(batch) /\ i + 1 \in 1 .. Len(batch) /\ 1 < i + 1
      BY <1>2
    <3>2. batch[1] < batch[i + 1]
      BY <3>1 DEF PollInv
    <3>3. t[i] \in Updates
      BY <1>2
    <3>4. t[i] \in Int
      BY <3>3 DEF Updates
    <3> QED
      BY <1>2, <1>3, <3>2, <3>4
  <2> QED
    BY <2>1
<1>6. \A i, j \in 1 .. Len(t) : i < j => t[i] < t[j]
    BY <1>2 DEF PollInv
<1> QED
    BY <1>2, <1>3, <1>4, <1>5, <1>6 DEF h, t

(* A poll: the offset is loaded if need be, and a response fetched.        *)
LEMMA PollOnceKeeps ==
    ASSUME PollPart, PollOnce
    PROVE  PollPart'
<1> USE InboundAssumption
<1>1. /\ poll = "idle" /\ offset' = LoadedOffset /\ batch = << >>
      /\ UNCHANGED <<sent, disk, readable, taken, here>>
    BY DEF PollOnce, PollPart, PollInv, history
<1>2. PollTypes /\ MaxUpdate \in Nat
    BY DEF PollPart
<1>3. /\ offset' \in 0 .. MaxUpdate + 1 /\ offset' >= offset
      /\ offset' = offset \/ (offset = -1 /\ offset' \in {0, disk})
      /\ readable => disk <= offset'
    BY <1>1, <1>2 DEF LoadedOffset, PollTypes, PollPart, FileInv
<1> DEFINE from == Larger(confirmed, LoadedOffset)
<1>4. from \in 1 .. MaxUpdate + 1 /\ from >= offset'
    BY <1>1, <1>2, <1>3 DEF Larger, PollTypes
<1>5. confirmed' \in {confirmed, from}
    BY DEF PollOnce
<1>6. \/ batch' = batch /\ poll' = poll
      \/ batch' = Pending(from) /\ poll' = "handle"
    BY DEF PollOnce
<1>7. \A u \in here' : u < offset'
  <2>1. here \subseteq Updates
    BY <1>2 DEF PollTypes
  <2> QED
    BY <1>1, <1>2, <1>3, <2>1 DEF PollPart, PollInv, PollTypes, Updates
<1> HIDE DEF from
<1>8. /\ batch' \in Seq(Updates) /\ poll' \in {"idle", "handle"}
      /\ \A i \in 1 .. Len(batch') : batch'[i] >= offset'
      /\ \A i, j \in 1 .. Len(batch') : i < j => batch'[i] < batch'[j]
      /\ poll' = "idle" => batch' = << >>
  <2>1. CASE batch' = batch /\ poll' = poll
    BY <1>1, <2>1
  <2>2. CASE batch' = Pending(from) /\ poll' = "handle"
    <3> DEFINE n == sent - from + 1
    <3>1. from \in Int /\ sent \in Int /\ from >= 1 /\ sent <= MaxUpdate
      BY <1>2, <1>4 DEF PollTypes
    <3>2. \A i \in 1 .. n : from + i - 1 \in Updates /\ from + i - 1 >= offset'
      BY <1>3, <1>4, <3>1 DEF Updates
    <3>3. CASE n < 0
      <4>1. batch' = << >>
        BY <2>2, <3>1, <3>3 DEF Pending
      <4> QED
        BY <2>2, <4>1
    <3>4. CASE n >= 0
      <4>1. n \in Nat
        BY <3>1, <3>4
      <4>2. batch' = [i \in 1 .. n |-> from + i - 1]
        BY <2>2 DEF Pending
      <4>3. batch' \in Seq(Updates) /\ Len(batch') = n
        BY <3>2, <4>1, <4>2
      <4>4. \A i \in 1 .. Len(batch') : batch'[i] = from + i - 1
        BY <4>2, <4>3
      <4>5. \A i \in 1 .. Len(batch') : batch'[i] >= offset'
        BY <3>2, <4>3, <4>4
      <4>6. \A i, j \in 1 .. Len(batch') : i < j => batch'[i] < batch'[j]
        BY <3>1, <4>3, <4>4
      <4> QED
        BY <2>2, <4>3, <4>5, <4>6
    <3> QED
      BY <3>1, <3>3, <3>4
  <2> QED
    BY <1>6, <2>1, <2>2
<1>9. PollTypes'
    BY <1>1, <1>2, <1>3, <1>4, <1>5, <1>8 DEF PollTypes
<1>10. PollInv'
    BY <1>3, <1>7, <1>8 DEF PollInv
<1>11. FileInv' /\ OffsetHoldsAtFailure'
    BY <1>1, <1>3 DEF PollPart, FileInv, OffsetHoldsAtFailure
<1> QED
    BY <1>9, <1>10, <1>11 DEF PollPart

(* An update is queued, ignored, or meets a full queue.                    *)
LEMMA HandleKeeps ==
    ASSUME PollPart, HandleUpdate
    PROVE  /\ PollPart'
           /\ \/ UNCHANGED <<mainQ, here>>
              \/ \E u \in Updates :
                    /\ Main!Put(u) /\ here' = here \cup {u}
                    /\ readable => u >= disk
                    /\ \A v \in here : v < u
<1> DEFINE u == Head(batch)
<1> USE DEF mainVars
<1>1. poll = "handle" /\ batch # << >> /\ UNCHANGED <<sent, confirmed, disk, readable, offset>>
    BY DEF HandleUpdate, server
<1>2. /\ u \in Updates /\ u \in Int /\ u >= offset
      /\ Tail(batch) \in Seq(Updates)
      /\ \A i \in 1 .. Len(Tail(batch)) : Tail(batch)[i] > u
      /\ \A i, j \in 1 .. Len(Tail(batch)) :
            i < j => Tail(batch)[i] < Tail(batch)[j]
    BY <1>1, BatchHead DEF PollPart
<1>3. /\ offset >= 0 /\ offset \in Int /\ \A v \in here : v < offset /\ v \in Int
      /\ readable => disk <= offset
      /\ disk \in Int
    BY <1>1, InboundAssumption
    DEF PollPart, PollInv, PollTypes, FileInv, Updates
<1> HIDE DEF u
<1>4. CASE poll' = "ack" /\ UNCHANGED <<batch, mainQ, taken, here>> /\ u \in Ignorable
  <2>1. PollTypes'
    BY <1>1, <1>4 DEF PollPart, PollTypes
  <2>2. PollInv'
    BY <1>1, <1>4 DEF PollPart, PollInv, u
  <2> QED
    BY <1>1, <1>4, <2>1, <2>2 DEF PollPart, FileInv, OffsetHoldsAtFailure
<1>5. CASE /\ Main!Put(u) /\ taken' = taken \cup {u} /\ here' = here \cup {u}
           /\ poll' = "ack" /\ UNCHANGED batch
  <2>1. PollTypes'
    BY <1>1, <1>2, <1>5 DEF PollPart, PollTypes
  <2>2. PollInv'
    BY <1>1, <1>5 DEF PollPart, PollInv, u
  <2>3. FileInv' /\ OffsetHoldsAtFailure'
    BY <1>1, <1>5 DEF PollPart, FileInv, OffsetHoldsAtFailure
  <2>4. (readable => u >= disk) /\ \A v \in here : v < u
    BY <1>2, <1>3
  <2> QED
    BY <1>2, <1>5, <2>1, <2>2, <2>3, <2>4 DEF PollPart
<1>6. CASE batch' = Tail(batch) /\ UNCHANGED <<poll, mainQ, taken, here>>
  <2>1. PollTypes'
    BY <1>1, <1>2, <1>6 DEF PollPart, PollTypes
  <2>2. \A i \in 1 .. Len(batch') : batch'[i] >= offset'
    <3>1. ASSUME NEW i \in 1 .. Len(batch') PROVE batch'[i] >= offset'
      <4>1. batch'[i] > u
        BY <1>2, <1>6
      <4>2. batch'[i] \in Updates
        BY <1>2, <1>6
      <4>3. batch'[i] \in Int
        BY <4>2 DEF Updates
      <4> QED
        BY <1>1, <1>2, <1>3, <4>1, <4>3
    <3> QED
      BY <3>1
  <2>3. PollInv'
    BY <1>1, <1>2, <1>6, <2>2 DEF PollPart, PollInv
  <2> QED
    BY <1>1, <1>6, <2>1, <2>3 DEF PollPart, FileInv, OffsetHoldsAtFailure
<1> QED
    BY <1>4, <1>5, <1>6 DEF HandleUpdate, QueueFull, u

(* The update is acknowledged in RAM and, if the save succeeds, on disk.   *)
LEMMA AckKeeps ==
    ASSUME PollPart, AckOffset
    PROVE  PollPart'
<1> DEFINE u == Head(batch)
<1>1. /\ poll = "ack" /\ poll' = "handle" /\ batch' = Tail(batch)
      /\ UNCHANGED <<sent, confirmed, readable, taken, here>>
    BY DEF AckOffset, server, history
<1>2. batch # << >> /\ u \in here \cup Ignorable /\ PollTypes /\ PollInv
    BY <1>1 DEF PollPart, PollInv
<1>3. /\ u \in Updates /\ u \in Int /\ u >= offset
      /\ Tail(batch) \in Seq(Updates)
      /\ \A i \in 1 .. Len(Tail(batch)) : Tail(batch)[i] > u
      /\ \A i, j \in 1 .. Len(Tail(batch)) :
            i < j => Tail(batch)[i] < Tail(batch)[j]
    BY <1>2, BatchHead
<1>4. /\ offset \in Int /\ disk \in Int /\ MaxUpdate \in Nat
      /\ u <= MaxUpdate /\ u >= 1 /\ offset >= 0
    BY <1>1, <1>2, <1>3, InboundAssumption DEF PollTypes, PollInv, Updates
<1>5. offset' = u + 1 /\ disk' \in {disk, u + 1}
    BY <1>3, <1>4 DEF AckOffset
<1>6. \A v \in here : v < offset \/ v = u
    BY <1>2 DEF PollInv
<1> HIDE DEF u
<1>7. \A v \in here : v < u + 1
  <2>1. \A v \in here : v \in Int
    BY <1>2 DEF PollTypes, Updates
  <2> QED
    BY <1>3, <1>4, <1>6, <2>1
<1>8. PollTypes'
    BY <1>1, <1>2, <1>3, <1>4, <1>5 DEF PollTypes
<1>9. \A i \in 1 .. Len(batch') : batch'[i] >= offset'
  <2>1. ASSUME NEW i \in 1 .. Len(batch') PROVE batch'[i] >= offset'
    <3>1. batch'[i] > u
      BY <1>1, <1>3
    <3>2. batch'[i] \in Updates
      BY <1>1, <1>3
    <3>3. batch'[i] \in Int
      BY <3>2 DEF Updates
    <3> QED
      BY <1>3, <1>5, <3>1, <3>3
  <2> QED
    BY <2>1
<1>10. PollInv'
    BY <1>1, <1>3, <1>4, <1>5, <1>7, <1>9 DEF PollInv
<1>11. FileInv'
    BY <1>1, <1>3, <1>4, <1>5 DEF PollPart, FileInv
<1>12. OffsetHoldsAtFailure'
  <2>1. u \in taken \cup Ignorable
    BY <1>2 DEF PollTypes, u
  <2>2. disk > 1 => disk - 1 \in taken \cup Ignorable
    BY DEF PollPart, OffsetHoldsAtFailure
  <2>3. ASSUME NEW o \in {u + 1, disk}, o > 1
        PROVE  o - 1 \in taken \cup Ignorable
    <3>1. CASE o = u + 1
      <4>1. o - 1 = u
        BY <1>3, <3>1
      <4> QED
        BY <2>1, <4>1
    <3>2. CASE o = disk
      BY <2>2, <2>3, <3>2
    <3> QED
      BY <3>1, <3>2
  <2> QED
    BY <1>1, <1>5, <2>3 DEF OffsetHoldsAtFailure
<1> QED
    BY <1>8, <1>10, <1>11, <1>12 DEF PollPart

(* No other step but a reset touches the poll thread.                      *)
LEMMA PollStep ==
    ASSUME PollPart, [Next]_vars
    PROVE  PollPart'
<1> USE InboundAssumption
    DEF server, pollVars, mainVars, agentVars, history
<1>1. CASE UserSends
    BY <1>1
    DEF UserSends, PollPart, PollTypes, PollInv, FileInv, OffsetHoldsAtFailure
<1>2. CASE PollDone
    BY <1>2
    DEF PollDone, PollPart, PollTypes, PollInv, FileInv, OffsetHoldsAtFailure
<1>3. CASE Reset
  <2>1. PollTypes'
    BY <1>3 DEF Reset, PollPart, PollTypes
  <2>2. PollInv' /\ FileInv'
    BY <1>3 DEF Reset, PollInv, FileInv
  <2>3. OffsetHoldsAtFailure'
    BY <1>3 DEF Reset, PollPart, OffsetHoldsAtFailure
  <2> QED
    BY <2>1, <2>2, <2>3 DEF PollPart
<1>4. CASE UNCHANGED <<server, pollVars, taken, here>>
    BY <1>4
    DEF PollPart, PollTypes, PollInv, FileInv, OffsetHoldsAtFailure
<1> QED
    BY <1>1, <1>2, <1>3, <1>4, PollOnceKeeps, HandleKeeps, AckKeeps
    DEF Next, PublishJob, RouterReceive, RouteEvent, AgentReceive, AgentReply,
        SelfTestRoute, SelfTestReceive, SelfTestDone, vars
-----------------------------------------------------------------------------
(* The queues and the agent.                                               *)
QueueTypes ==
    /\ mainQ \in Seq(Events) /\ Len(mainQ) <= MainCapacity
    /\ agentQ \in Seq(Events) /\ Len(agentQ) <= AgentCapacity
    /\ routerIn \in [{"router"} -> Events \cup {NoEvent}]
    /\ agentIn \in [{"agent", "selftest"} -> Events \cup {NoEvent}]

LinePart == QueueTypes /\ OrderInv /\ PlaceInv

(* NoEvent, a job and the probe are not updates.                           *)
LEMMA NoUpdates ==
    /\ Of(NoEvent) = {} /\ Of(Job) = {} /\ Of(Probe) = {}
    /\ Job \in Events /\ Probe \in Events /\ Updates \subseteq Events
    /\ NoEvent \notin Events
BY InboundAssumption DEF Of, Events, Updates

(* An event enters the main queue: if it is an update it is younger than   *)
(* everything since the reset.                                             *)
LEMMA PutKeeps ==
    ASSUME LinePart, NEW e \in Events, Main!Put(e),
           \A v \in here, u \in Of(e) : v < u,
           here \subseteq Updates,
           here' = here \cup Of(e),
           UNCHANGED <<agentQ, agentIn, answered, failed, stolen>>
    PROVE  LinePart'
<1> USE DEF LinePart
<1>1. mainQ' = Append(mainQ, e) /\ routerIn' = routerIn /\ Len(mainQ) < MainCapacity
    BY DEF Main!Put
<1>2. Line \subseteq here /\ answered \subseteq here /\ failed \subseteq here
      /\ stolen \subseteq here
    BY DEF PlaceInv
<1>3. Below(In(mainQ), Of(e))
    BY <1>2 DEF Below, Line
<1>4. /\ mainQ' \in Seq(Events) /\ Len(mainQ') = Len(mainQ) + 1
      /\ In(mainQ') = In(mainQ) \cup Of(e) /\ OrderIn(mainQ')
    BY <1>1, <1>3, AppendQueue DEF QueueTypes, OrderInv
<1>5. Line' = Line \cup Of(e)
    BY <1>1, <1>4 DEF Line
<1>6. QueueTypes'
  <2>1. Len(mainQ) \in Nat /\ MainCapacity \in Nat
    BY InboundAssumption DEF QueueTypes
  <2> QED
    BY <1>1, <1>4, <2>1 DEF QueueTypes
<1>7. OrderInv'
    BY <1>1, <1>2, <1>4, <1>5, Zenon DEF OrderInv, Below, Line
<1>8. Of(e) \cap here = {}
  <2>1. \A u \in here : u \in Int /\ ~(u < u)
    BY DEF Updates
  <2> QED
    BY <2>1
<1>9. PlaceInv'
    BY <1>2, <1>5, <1>8 DEF PlaceInv
<1> QED
    BY <1>6, <1>7, <1>9

(* The router takes the oldest event of the main queue.                    *)
LEMMA RouterReceiveKeeps ==
    ASSUME LinePart, Main!Take("router"),
           UNCHANGED <<agentQ, agentIn, here, answered, failed, stolen>>
    PROVE  LinePart'
<1> USE DEF LinePart
<1>1. /\ mainQ # << >> /\ routerIn["router"] = NoEvent
      /\ routerIn' = [routerIn EXCEPT !["router"] = Head(mainQ)]
      /\ mainQ' = Tail(mainQ)
    BY DEF Main!Take
<1>2. /\ Head(mainQ) \in Events /\ mainQ' \in Seq(Events)
      /\ Len(mainQ') = Len(mainQ) - 1
      /\ In(mainQ) = Of(Head(mainQ)) \cup In(mainQ')
      /\ OrderIn(mainQ') /\ Below(Of(Head(mainQ)), In(mainQ'))
    BY <1>1, TailQueue DEF QueueTypes, OrderInv
<1>3. routerIn'["router"] = Head(mainQ)
    BY <1>1 DEF QueueTypes
<1>4. Of(routerIn["router"]) = {}
    BY <1>1, NoUpdates
<1>5. Line' = Line
    BY <1>2, <1>3, <1>4 DEF Line
<1>6. QueueTypes'
  <2>1. Len(mainQ) \in Nat /\ MainCapacity \in Nat
    BY InboundAssumption DEF QueueTypes
  <2> QED
    BY <1>1, <1>2, <2>1 DEF QueueTypes
<1>7. OrderInv'
    BY <1>2, <1>3, <1>4, <1>5, Zenon DEF OrderInv, Below
<1>8. PlaceInv'
    BY <1>5 DEF PlaceInv
<1> QED
    BY <1>6, <1>7, <1>8

(* The router's event goes to the agent queue, or is lost and counted.     *)
LEMMA RouteKeeps ==
    ASSUME LinePart, RouteEvent
    PROVE  LinePart'
<1> DEFINE e == routerIn["router"]
<1> USE DEF LinePart, agentVars
<1>1. /\ e # NoEvent /\ routerIn' = [routerIn EXCEPT !["router"] = NoEvent]
      /\ UNCHANGED <<mainQ, here, answered, stolen>>
    BY DEF RouteEvent, Main!Consume
<1>2. e \in Events /\ routerIn'["router"] = NoEvent
    BY <1>1 DEF QueueTypes
<1>3. Of(routerIn'["router"]) = {}
    BY <1>2, NoUpdates
<1>4. CASE Agent!Put(e) /\ UNCHANGED failed
  <2>1. /\ agentQ' = Append(agentQ, e) /\ agentIn' = agentIn
        /\ Len(agentQ) < AgentCapacity
    BY <1>4 DEF Agent!Put
  <2>2. Below(In(agentQ), Of(e))
    BY DEF OrderInv, Below
  <2>3. /\ agentQ' \in Seq(Events) /\ Len(agentQ') = Len(agentQ) + 1
        /\ In(agentQ') = In(agentQ) \cup Of(e) /\ OrderIn(agentQ')
    BY <1>2, <2>1, <2>2, AppendQueue DEF QueueTypes, OrderInv
  <2>4. Line' = Line
    BY <1>1, <1>3, <2>1, <2>3 DEF Line
  <2>5. QueueTypes'
    <3>1. Len(agentQ) \in Nat /\ AgentCapacity \in Nat
      BY InboundAssumption DEF QueueTypes
    <3> QED
      BY <1>1, <2>1, <2>3, <3>1 DEF QueueTypes
  <2>6. OrderInv'
    BY <1>1, <1>3, <2>1, <2>3, <2>4, Zenon DEF OrderInv, Below
  <2>7. PlaceInv'
    BY <1>1, <1>4, <2>4 DEF PlaceInv
  <2> QED
    BY <2>5, <2>6, <2>7
<1>5. CASE failed' = failed \cup Of(e) /\ UNCHANGED agentVars
  <2>1. Line = Line' \cup Of(e) /\ Of(e) \cap Line' = {}
    <3>1. Line = Line' \cup Of(e)
      BY <1>1, <1>3, <1>5 DEF Line
    <3>2. ASSUME NEW u \in Of(e), u \in Line' PROVE FALSE
      <4>1. u \in Int
        BY DEF Of, Updates
      <4>2. u \in Of(agentIn["agent"]) \cup In(agentQ) \cup In(mainQ)
        BY <1>1, <1>3, <1>5, <3>2 DEF Line
      <4>3. u < u
        BY <4>2 DEF OrderInv, Below
      <4> QED
        BY <4>1, <4>3
    <3> QED
      BY <3>1, <3>2
  <2>2. QueueTypes'
    BY <1>1, <1>5 DEF QueueTypes
  <2>3. OrderInv'
    BY <1>1, <1>3, <1>5, <2>1, Zenon DEF OrderInv, Below
  <2>4. PlaceInv'
    BY <1>1, <1>5, <2>1 DEF PlaceInv
  <2> QED
    BY <2>2, <2>3, <2>4
<1> QED
    BY <1>4, <1>5 DEF RouteEvent, Of

(* The agent takes the oldest event of its queue.                          *)
LEMMA AgentReceiveKeeps ==
    ASSUME LinePart, AgentReceive
    PROVE  LinePart'
<1> USE DEF LinePart, mainVars, history
<1>1. /\ agentQ # << >> /\ agentIn["agent"] = NoEvent
      /\ agentIn' = [agentIn EXCEPT !["agent"] = Head(agentQ)]
      /\ agentQ' = Tail(agentQ)
      /\ UNCHANGED <<mainQ, routerIn, here, answered, failed, stolen>>
    BY DEF AgentReceive, Agent!Take
<1>2. /\ Head(agentQ) \in Events /\ agentQ' \in Seq(Events)
      /\ Len(agentQ') = Len(agentQ) - 1
      /\ In(agentQ) = Of(Head(agentQ)) \cup In(agentQ')
      /\ OrderIn(agentQ') /\ Below(Of(Head(agentQ)), In(agentQ'))
    BY <1>1, TailQueue DEF QueueTypes, OrderInv
<1>3. agentIn'["agent"] = Head(agentQ)
    BY <1>1 DEF QueueTypes
<1>4. Of(agentIn["agent"]) = {}
    BY <1>1, NoUpdates
<1>5. Line' = Line
    BY <1>1, <1>2, <1>3, <1>4 DEF Line
<1>6. QueueTypes'
  <2>1. Len(agentQ) \in Nat /\ AgentCapacity \in Nat
    BY InboundAssumption DEF QueueTypes
  <2> QED
    BY <1>1, <1>2, <2>1 DEF QueueTypes
<1>7. OrderInv'
    BY <1>1, <1>2, <1>3, <1>4, <1>5, Zenon DEF OrderInv, Below
<1>8. PlaceInv'
    BY <1>1, <1>5 DEF PlaceInv
<1> QED
    BY <1>6, <1>7, <1>8

(* The agent finishes: the oldest update on its way becomes answered.      *)
LEMMA AgentReplyKeeps ==
    ASSUME LinePart, AgentReply
    PROVE  LinePart'
<1> DEFINE e == agentIn["agent"]
<1> USE DEF LinePart, mainVars
<1>1. /\ agentIn' = [agentIn EXCEPT !["agent"] = NoEvent]
      /\ answered' = answered \cup Of(e)
      /\ UNCHANGED <<agentQ, mainQ, routerIn, here, failed, stolen>>
    BY DEF AgentReply, Agent!Consume, Of
<1>2. agentIn'["agent"] = NoEvent
    BY <1>1 DEF QueueTypes
<1>3. Of(agentIn'["agent"]) = {}
    BY <1>2, NoUpdates
<1>4. /\ Line = Line' \cup Of(e)
      /\ Line' = In(agentQ) \cup Of(routerIn["router"]) \cup In(mainQ)
    BY <1>1, <1>3 DEF Line
<1>5. Of(e) \cap Line' = {}
  <2>1. ASSUME NEW u \in Of(e), u \in Line' PROVE FALSE
    <3>1. u \in Int
      BY DEF Of, Updates
    <3>2. u < u
      BY <1>4, <2>1 DEF OrderInv, Below
    <3> QED
      BY <3>1, <3>2
  <2> QED
    BY <2>1
<1>6. QueueTypes'
    BY <1>1 DEF QueueTypes
<1>7. Below(answered', Line')
    BY <1>1, <1>4, Zenon DEF OrderInv, Below
<1>8. OrderInv'
    BY <1>1, <1>3, <1>7, Zenon DEF OrderInv, Below
<1>9. PlaceInv'
    BY <1>1, <1>4, <1>5 DEF PlaceInv
<1> QED
    BY <1>6, <1>8, <1>9

(* The self-test's probe enters the agent queue behind everything.         *)
LEMMA ProbeKeeps ==
    ASSUME LinePart, SelfTestRoute
    PROVE  LinePart'
<1> USE DEF LinePart, mainVars, agentVars, history
<1>1. UNCHANGED <<mainQ, routerIn, here, answered, failed, stolen>>
    BY DEF SelfTestRoute
<1>2. CASE Agent!Put(Probe)
  <2>1. /\ agentQ' = Append(agentQ, Probe) /\ agentIn' = agentIn
        /\ Len(agentQ) < AgentCapacity
    BY <1>2 DEF Agent!Put
  <2>2. Below(In(agentQ), Of(Probe))
    BY NoUpdates DEF Below
  <2>3. /\ agentQ' \in Seq(Events) /\ Len(agentQ') = Len(agentQ) + 1
        /\ In(agentQ') = In(agentQ) \cup Of(Probe) /\ OrderIn(agentQ')
    BY <2>1, <2>2, AppendQueue, NoUpdates DEF QueueTypes, OrderInv
  <2>4. In(agentQ') = In(agentQ)
    BY <2>3, NoUpdates
  <2>5. Line' = Line
    BY <1>1, <2>1, <2>4 DEF Line
  <2>6. QueueTypes'
    <3>1. Len(agentQ) \in Nat /\ AgentCapacity \in Nat
      BY InboundAssumption DEF QueueTypes
    <3> QED
      BY <1>1, <2>1, <2>3, <3>1 DEF QueueTypes
  <2>7. OrderInv'
    BY <1>1, <2>1, <2>3, <2>4, <2>5, Zenon DEF OrderInv, Below
  <2>8. PlaceInv'
    BY <1>1, <2>5 DEF PlaceInv
  <2> QED
    BY <2>6, <2>7, <2>8
<1>3. CASE UNCHANGED agentVars
    BY <1>1, <1>3
    DEF QueueTypes, OrderInv, PlaceInv, Line
<1> QED
    BY <1>2, <1>3 DEF SelfTestRoute

(* The self-test takes the oldest event of the agent queue, which may be   *)
(* an update.                                                              *)
LEMMA StealKeeps ==
    ASSUME LinePart, SelfTestReceive
    PROVE  LinePart'
<1> DEFINE e == Head(agentQ)
<1> USE DEF LinePart, mainVars
<1>1. /\ agentQ # << >>
      /\ agentIn' = [agentIn EXCEPT !["selftest"] = e]
      /\ agentQ' = Tail(agentQ)
      /\ stolen' = stolen \cup Of(e)
      /\ UNCHANGED <<mainQ, routerIn, here, answered, failed>>
    BY DEF SelfTestReceive, Agent!Take, Of
<1>2. /\ e \in Events /\ agentQ' \in Seq(Events)
      /\ Len(agentQ') = Len(agentQ) - 1
      /\ In(agentQ) = Of(e) \cup In(agentQ')
      /\ OrderIn(agentQ') /\ Below(Of(e), In(agentQ'))
    BY <1>1, TailQueue DEF QueueTypes, OrderInv
<1>3. agentIn'["agent"] = agentIn["agent"]
    BY <1>1 DEF QueueTypes
<1>4. /\ Line = Line' \cup Of(e)
      /\ Line' = Of(agentIn["agent"]) \cup In(agentQ')
                    \cup Of(routerIn["router"]) \cup In(mainQ)
    BY <1>1, <1>2, <1>3 DEF Line
<1> HIDE DEF e
<1>5. Of(e) \cap Line' = {}
  <2>1. ASSUME NEW u \in Of(e), u \in Line' PROVE FALSE
    <3>1. u \in Int
      BY DEF Of, Updates
    <3>2. u < u
      BY <1>2, <1>4, <2>1, Zenon DEF OrderInv, Below
    <3> QED
      BY <3>1, <3>2
  <2> QED
    BY <2>1
<1>6. QueueTypes'
  <2>1. Len(agentQ) \in Nat /\ AgentCapacity \in Nat
    BY InboundAssumption DEF QueueTypes
  <2> QED
    BY <1>1, <1>2, <2>1 DEF QueueTypes
<1>7. OrderInv'
    BY <1>1, <1>2, <1>3, <1>4, Zenon DEF OrderInv, Below
<1>8. PlaceInv'
    BY <1>1, <1>4, <1>5 DEF PlaceInv
<1> QED
    BY <1>6, <1>7, <1>8

(* The self-test drops what it took.                                       *)
LEMMA DropKeeps ==
    ASSUME LinePart, SelfTestDone
    PROVE  LinePart'
<1> USE DEF LinePart, mainVars, agentVars, history
<1>1. /\ UNCHANGED <<agentQ, mainQ, routerIn, here, answered, failed, stolen>>
      /\ \/ agentIn' = agentIn
         \/ agentIn' = [agentIn EXCEPT !["selftest"] = NoEvent]
    BY DEF SelfTestDone, Agent!Consume
<1>2. QueueTypes' /\ agentIn'["agent"] = agentIn["agent"]
    BY <1>1 DEF QueueTypes
<1> QED
    BY <1>1, <1>2 DEF OrderInv, PlaceInv, Line

(* After a start nothing is on its way.                                    *)
NothingYet ==
    /\ Main!FifoInit /\ Agent!FifoInit
    /\ here = {} /\ answered = {} /\ failed = {} /\ stolen = {}

LEMMA EmptyLine == NothingYet => LinePart
<1> SUFFICES ASSUME NothingYet PROVE LinePart
    OBVIOUS
<1> USE DEF NothingYet, Main!FifoInit, Agent!FifoInit
<1>1. Of(agentIn["agent"]) = {} /\ Of(routerIn["router"]) = {}
    BY NoUpdates
<1>2. In(agentQ) = {} /\ In(mainQ) = {} /\ OrderIn(agentQ) /\ OrderIn(mainQ)
    BY EmptyQueue
<1>3. QueueTypes
    BY InboundAssumption, EmptyQueue DEF QueueTypes
<1>4. OrderInv
    BY <1>1, <1>2 DEF OrderInv, Below, Line
<1>5. PlaceInv
    BY <1>1, <1>2 DEF PlaceInv, Line
<1> QED
    BY <1>3, <1>4, <1>5 DEF LinePart

LEMMA EmptyLineNext == (NothingYet => LinePart)'
BY EmptyLine, PTL

LEMMA ResetKeeps ==
    ASSUME Reset
    PROVE  LinePart'
<1>1. NothingYet'
    BY DEF Reset, NothingYet, Main!FifoInit, Agent!FifoInit
<1> QED
    BY <1>1, EmptyLineNext

LEMMA LineStep ==
    ASSUME PollPart, LinePart, [Next]_vars
    PROVE  LinePart'
<1> USE DEF server, pollVars, mainVars, agentVars, history
<1>1. here \subseteq Updates
    BY DEF PollPart, PollTypes
<1>2. CASE HandleUpdate
  <2>1. UNCHANGED <<agentQ, agentIn, answered, failed, stolen>>
    BY <1>2 DEF HandleUpdate
  <2>2. UNCHANGED routerIn
    BY <1>2 DEF HandleUpdate, QueueFull, Main!Put
  <2>3. CASE UNCHANGED <<mainQ, here>>
    BY <2>1, <2>2, <2>3
    DEF LinePart, QueueTypes, OrderInv, PlaceInv, Line
  <2>4. CASE \E u \in Updates : /\ Main!Put(u) /\ here' = here \cup {u}
                                /\ \A v \in here : v < u
    <3>1. PICK u \in Updates : /\ Main!Put(u) /\ here' = here \cup {u}
                               /\ \A v \in here : v < u
      BY <2>4
    <3>2. Of(u) = {u} /\ u \in Events
      BY NoUpdates DEF Of
    <3> QED
      BY <1>1, <2>1, <3>1, <3>2, PutKeeps
  <2> QED
    BY <1>2, <2>3, <2>4, HandleKeeps
<1>3. CASE PublishJob
  <2>1. /\ Main!Put(Job)
        /\ UNCHANGED <<agentQ, agentIn, here, answered, failed, stolen>>
    BY <1>3 DEF PublishJob
  <2>2. Job \in Events /\ Of(Job) = {}
    BY NoUpdates
  <2> QED
    BY <1>1, <2>1, <2>2, PutKeeps
<1>4. CASE RouterReceive
    BY <1>4, RouterReceiveKeeps DEF RouterReceive
<1>5. CASE UNCHANGED <<mainVars, agentVars, here, answered, failed, stolen>>
    BY <1>5 DEF LinePart, QueueTypes, OrderInv, PlaceInv, Line
<1> QED
    BY <1>2, <1>3, <1>4, <1>5, RouteKeeps, AgentReceiveKeeps, AgentReplyKeeps,
       ProbeKeeps, StealKeeps, DropKeeps, ResetKeeps
    DEF Next, UserSends, PollOnce, AckOffset, PollDone, vars
-----------------------------------------------------------------------------
(* The parts together.                                                     *)
Counters ==
    /\ test \in {"idle", "routed"}
    /\ jobs \in 0 .. MaxJobs /\ resets \in 0 .. MaxResets

LEMMA InvParts == Inv <=> PollPart /\ LinePart /\ Counters
<1>1. PlaceInv => answered \subseteq here /\ failed \subseteq here
                      /\ stolen \subseteq here
    BY DEF PlaceInv
<1>2. TypeOK <=> /\ PollTypes /\ QueueTypes /\ Counters
                 /\ answered \subseteq here /\ failed \subseteq here
                 /\ stolen \subseteq here
    BY Zenon DEF TypeOK, PollTypes, QueueTypes, Counters
<1> QED
    BY <1>1, <1>2, Zenon DEF Inv, PollPart, LinePart

LEMMA CountersStep ==
    ASSUME Counters, [Next]_vars
    PROVE  Counters'
<1> USE InboundAssumption DEF Counters, history
<1>1. CASE PublishJob
    BY <1>1 DEF PublishJob
<1>2. CASE Reset
    BY <1>2 DEF Reset
<1>3. CASE UNCHANGED <<jobs, resets>> /\ test' \in {test, "routed", "idle"}
    BY <1>3
<1> QED
    BY <1>1, <1>2, <1>3
    DEF Next, UserSends, PollOnce, HandleUpdate, AckOffset, PollDone,
        RouterReceive, RouteEvent, AgentReceive, AgentReply, SelfTestRoute,
        SelfTestReceive, SelfTestDone, vars

LEMMA InvInit == Init => Inv
<1> SUFFICES ASSUME Init PROVE PollPart /\ LinePart /\ Counters
    BY InvParts
<1> USE InboundAssumption
<1>1. PollPart
  <2>1. PollTypes
    BY DEF Init, RamInit, PollTypes
  <2>2. PollInv /\ FileInv /\ OffsetHoldsAtFailure
    BY DEF Init, RamInit, PollInv, FileInv, OffsetHoldsAtFailure
  <2> QED
    BY <2>1, <2>2 DEF PollPart
<1>2. LinePart
    BY EmptyLine DEF Init, RamInit, NothingYet
<1>3. Counters
    BY DEF Init, RamInit, Counters
<1> QED
    BY <1>1, <1>2, <1>3

LEMMA InvPartsNext == (Inv <=> PollPart /\ LinePart /\ Counters)'
BY InvParts, PTL

LEMMA InvStep == Inv /\ [Next]_vars => Inv'
<1> SUFFICES ASSUME Inv, [Next]_vars PROVE (PollPart /\ LinePart /\ Counters)'
    BY InvPartsNext
<1> QED
    BY InvParts, PollStep, LineStep, CountersStep

LEMMA InvHolds == Spec => []Inv
BY InvInit, InvStep, PTL DEF Spec
-----------------------------------------------------------------------------
(* Every variable keeps its type: the two queues stay within their         *)
(* capacities, and the offset in RAM and on disk within the ids that exist. *)
THEOREM InboundTypes == Spec => []TypeOK
<1>1. Inv => TypeOK
    BY DEF Inv
<1> QED
    BY <1>1, InvHolds, PTL

(* The offset never comes to rest behind an update that fc_queue_publish   *)
(* refused, in RAM or on disk, whatever resets and failed saves happen.    *)
THEOREM OffsetHolds == Spec => []OffsetHoldsAtFailure
<1>1. Inv => OffsetHoldsAtFailure
    BY DEF Inv
<1> QED
    BY <1>1, InvHolds, PTL

(* A receive buffer as a queue of at most one event.                       *)
LEMMA HeldQueue ==
    ASSUME NEW inbox, NEW r, inbox[r] \in Events \cup {NoEvent}
    PROVE  /\ Held(inbox, r) \in Seq(Events)
           /\ In(Held(inbox, r)) = Of(inbox[r])
           /\ OrderIn(Held(inbox, r))
<1>1. CASE inbox[r] = NoEvent
    BY <1>1, EmptyQueue, NoUpdates DEF Held
<1>2. CASE inbox[r] # NoEvent
  <2>1. Held(inbox, r) = <<inbox[r]>> /\ inbox[r] \in Events
    BY <1>2 DEF Held
  <2>2. OrderIn(<<inbox[r]>>)
    BY DEF OrderIn
  <2>3. Range(<<inbox[r]>>) = {inbox[r]}
    BY DEF Range
  <2> QED
    BY <2>1, <2>2, <2>3 DEF In, Of
<1> QED
    BY <1>1, <1>2

(* The pipeline is in order and holds exactly the updates of the four      *)
(* places.                                                                 *)
LEMMA PipelineLine ==
    ASSUME Inv
    PROVE  Pipeline \in Seq(Events) /\ OrderIn(Pipeline) /\ In(Pipeline) = Line
<1> DEFINE a == Held(agentIn, "agent")
           r == Held(routerIn, "router")
<1>1. QueueTypes /\ OrderInv
    BY InvParts DEF LinePart
<1>2. a \in Seq(Events) /\ In(a) = Of(agentIn["agent"]) /\ OrderIn(a)
    BY <1>1, HeldQueue DEF QueueTypes
<1>3. r \in Seq(Events) /\ In(r) = Of(routerIn["router"]) /\ OrderIn(r)
    BY <1>1, HeldQueue DEF QueueTypes
<1>4. /\ agentQ \in Seq(Events) /\ mainQ \in Seq(Events)
      /\ OrderIn(agentQ) /\ OrderIn(mainQ)
    BY <1>1 DEF QueueTypes, OrderInv
<1>5. Pipeline = ((a \o agentQ) \o r) \o mainQ
    BY DEF Pipeline
<1> HIDE DEF a, r
<1>6. /\ Below(In(a), In(agentQ)) /\ Below(In(a), In(r))
      /\ Below(In(agentQ), In(r)) /\ Below(In(a), In(mainQ))
      /\ Below(In(agentQ), In(mainQ)) /\ Below(In(r), In(mainQ))
    BY <1>1, <1>2, <1>3, Zenon DEF OrderInv, Below
<1>7. /\ a \o agentQ \in Seq(Events) /\ OrderIn(a \o agentQ)
      /\ In(a \o agentQ) = In(a) \cup In(agentQ)
    BY <1>2, <1>4, <1>6, JoinQueues
<1>8. /\ (a \o agentQ) \o r \in Seq(Events) /\ OrderIn((a \o agentQ) \o r)
      /\ In((a \o agentQ) \o r) = In(a) \cup In(agentQ) \cup In(r)
  <2>1. Below(In(a \o agentQ), In(r))
    BY <1>6, <1>7, Zenon DEF Below
  <2> QED
    BY <1>3, <1>7, <2>1, JoinQueues
<1>9. /\ Pipeline \in Seq(Events) /\ OrderIn(Pipeline)
      /\ In(Pipeline) = In(a) \cup In(agentQ) \cup In(r) \cup In(mainQ)
  <2>1. Below(In((a \o agentQ) \o r), In(mainQ))
    BY <1>6, <1>8, Zenon DEF Below
  <2> QED
    BY <1>4, <1>5, <1>8, <2>1, JoinQueues
<1> QED
    BY <1>2, <1>3, <1>9 DEF Line

(* Between two resets no update is handed to the agent twice or out of     *)
(* order: getUpdates answers again with what was not acknowledged, jobs    *)
(* and probes are queued in between, and the self-test takes events away.  *)
THEOREM UpdatesInOrder == Spec => []PipelineOrdered
<1>1. ASSUME Inv PROVE PipelineOrdered
  <2> DEFINE at == {i \in 1 .. Len(Pipeline) : Pipeline[i] \in Updates}
  <2>1. Pipeline \in Seq(Events) /\ OrderIn(Pipeline) /\ In(Pipeline) = Line
    BY <1>1, PipelineLine
  <2>2. \A i, j \in at : i < j => Pipeline[i] < Pipeline[j]
    BY <2>1 DEF OrderIn
  <2>3. \A i \in at : Pipeline[i] \in Line
    BY <2>1 DEF In, Range
  <2>4. \A u \in answered, i \in at : u < Pipeline[i]
    BY <1>1, <2>3 DEF Inv, OrderInv, Below
  <2> QED
    BY <2>2, <2>4 DEF PipelineOrdered
<1> QED
    BY <1>1, InvHolds, PTL

(* Every update that entered the main queue since the last reset is in     *)
(* exactly one place; none is lost without fc_router_record counting it.   *)
THEOREM NoUpdateVanishes == Spec => []LossesCounted
<1>1. ASSUME Inv PROVE LossesCounted
  <2>1. Range(Pipeline) \cap Updates = Line
    BY <1>1, PipelineLine DEF In
  <2> QED
    BY <1>1, <2>1 DEF Inv, PlaceInv, LossesCounted
<1> QED
    BY <1>1, InvHolds, PTL

(* What a readable offset file acknowledges is never queued again, however *)
(* often the board is reset between the publish, the save and the poll.    *)
THEOREM NoReplay == Spec => NoReplayAfterSave
<1>1. ASSUME Inv, [Next]_vars
      PROVE  [readable => \A u \in here' \ here : u >= disk]_vars
  <2>1. CASE HandleUpdate
    BY <1>1, <2>1, InvParts, HandleKeeps
  <2>2. CASE here' \subseteq here
    BY <2>2
  <2> QED
    BY <1>1, <2>1, <2>2
    DEF Next, UserSends, PollOnce, AckOffset, PollDone, PublishJob,
        RouterReceive, RouteEvent, AgentReceive, AgentReply, SelfTestRoute,
        SelfTestReceive, SelfTestDone, Reset, history, vars
<1> QED
    BY <1>1, InvHolds, PTL DEF Spec, NoReplayAfterSave

(* Refinement: seen from outside, the poll thread, both queues, the router *)
(* and the agent are a mailbox that takes messages in order and once,      *)
(* answers the oldest one that waits, and loses none without a record.     *)
THEOREM InboundIsMailbox == Spec => ImplementsMailbox
<1> USE DEF Mail!Waiting
<1>1. Init => Mail!MailInit
    BY DEF Init, RamInit, Mail!MailInit
<1>2. ASSUME Inv, [Next]_vars PROVE [Mail!MailNext]_(Mail!mailVars)
  <2> DEFINE gone == failed \cup stolen
  <2> USE DEF mainVars, agentVars, history
  <2>1. PollPart /\ LinePart /\ PlaceInv /\ OrderInv /\ QueueTypes
    BY <1>2, InvParts DEF LinePart
  <2>2. Line = here \ (answered \cup gone) /\ Line \subseteq Updates
    BY <2>1 DEF PlaceInv, Line, Of, In
  <2>3. CASE HandleUpdate
    <3>1. UNCHANGED <<answered, failed, stolen>>
      BY <2>3 DEF HandleUpdate
    <3>2. \/ here' = here
          \/ \E u \in Updates : /\ here' = here \cup {u}
                                /\ \A v \in here : v < u
      BY <2>1, <2>3, HandleKeeps
    <3>3. (\E u \in Updates : Mail!Accept(u)) \/ UNCHANGED Mail!mailVars
      BY <3>1, <3>2 DEF Mail!Accept, Mail!mailVars
    <3> QED
      BY <3>3 DEF Mail!MailNext
  <2>4. CASE AgentReply
    <3>1. /\ answered' = answered \cup Of(agentIn["agent"])
          /\ UNCHANGED <<here, failed, stolen>>
      BY <2>4 DEF AgentReply, Of
    <3>2. CASE Of(agentIn["agent"]) = {}
      BY <3>1, <3>2 DEF Mail!mailVars
    <3>3. CASE Of(agentIn["agent"]) # {}
      <4> DEFINE u == agentIn["agent"]
      <4>1. Of(u) = {u} /\ u \in Updates
        BY <3>3 DEF Of
      <4>2. u \in Line
        BY <4>1 DEF Line
      <4>3. \A v \in Line \ {u} : u < v
        BY <2>1, <4>1, Zenon DEF OrderInv, Below, Line
      <4>4. Mail!Answer(u)
        BY <2>2, <3>1, <4>1, <4>2, <4>3 DEF Mail!Answer
      <4> QED
        BY <4>1, <4>4 DEF Mail!MailNext
    <3> QED
      BY <3>2, <3>3
  <2>5. ASSUME NEW e, Of(e) \subseteq Line, gone' = gone \cup Of(e),
               UNCHANGED <<here, answered>>
        PROVE  [Mail!MailNext]_(Mail!mailVars)
    <3>1. CASE Of(e) = {}
      BY <2>5, <3>1 DEF Mail!mailVars
    <3>2. CASE Of(e) # {}
      <4>1. Of(e) = {e} /\ e \in Updates
        BY <3>2 DEF Of
      <4>2. Mail!Lose(e)
        BY <2>2, <2>5, <4>1 DEF Mail!Lose
      <4> QED
        BY <4>1, <4>2 DEF Mail!MailNext
    <3> QED
      BY <3>1, <3>2
  <2>6. CASE RouteEvent
    <3>1. \/ UNCHANGED failed
          \/ failed' = failed \cup Of(routerIn["router"])
      BY <2>6 DEF RouteEvent, Of
    <3>2. UNCHANGED <<here, answered, stolen>>
      BY <2>6 DEF RouteEvent
    <3>3. CASE UNCHANGED failed
      BY <3>2, <3>3 DEF Mail!mailVars
    <3>4. CASE failed' = failed \cup Of(routerIn["router"])
      <4>1. gone' = gone \cup Of(routerIn["router"])
        BY <3>2, <3>4
      <4>2. Of(routerIn["router"]) \subseteq Line
        BY DEF Line
      <4> QED
        BY <2>5, <3>2, <4>1, <4>2
    <3> QED
      BY <3>1, <3>3, <3>4
  <2>7. CASE SelfTestReceive
    <3>1. /\ stolen' = stolen \cup Of(Head(agentQ)) /\ agentQ # << >>
          /\ UNCHANGED <<here, answered, failed>>
      BY <2>7 DEF SelfTestReceive, Agent!Take, Of
    <3>2. Of(Head(agentQ)) \subseteq Line
      BY <2>1, <3>1, TailQueue DEF QueueTypes, Line
    <3>3. gone' = gone \cup Of(Head(agentQ))
      BY <3>1
    <3> QED
      BY <2>5, <3>1, <3>2, <3>3
  <2>8. CASE Reset
    BY <2>8 DEF Reset, Mail!MailNext, Mail!Restart
  <2>9. CASE UNCHANGED <<here, answered, failed, stolen>>
    BY <2>9 DEF Mail!mailVars
  <2> QED
    BY <1>2, <2>3, <2>4, <2>6, <2>7, <2>8, <2>9
    DEF Next, UserSends, PollOnce, AckOffset, PollDone, PublishJob,
        RouterReceive, AgentReceive, SelfTestRoute, SelfTestDone, vars
<1> QED
    BY <1>1, <1>2, InvHolds, PTL DEF Spec, ImplementsMailbox, Mail!MailSpec
=============================================================================
