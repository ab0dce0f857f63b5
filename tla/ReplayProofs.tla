---------------------------- MODULE ReplayProofs ----------------------------
(***************************************************************************)
(* Proofs about what the connector runtime leaves in the stream: the spool *)
(* is replayed in order, and the duplicate window absorbs every            *)
(* repetition, for any set of events, any size of the client's buffer and  *)
(* of the spool, and any number of faults.                                 *)
(***************************************************************************)
EXTENDS RuntimeProofs

USE DEF fixedVars, queueVars, clientVars, brokerVars, historyVars

\* In the order of the feed, and none twice.
Increasing(s) == \A i, j \in DOMAIN s : i < j => s[i] < s[j]

----------------------------------------------------------------------------
(* The spool is replayed in order.  In what follows o is the outcomes, q the *)
(* messages on their way and s the stream.                                   *)

\* No spooled event younger than b is stored before b is.
FirstIn(b, o, s) ==
  \A i \in DOMAIN s : o[s[i]] = "spooled" /\ b < s[i] => \E h \in 1 .. i - 1 : s[h] = b

\* No spooled event younger than b is on its way unless b is stored: b may still
\* be sent.
InTime(b, o, q, s) ==
  /\ FirstIn(b, o, s)
  /\ \A i \in DOMAIN q : o[q[i].event] = "spooled" /\ b < q[i].event => b \in Range(s)

\* Neither in the stream nor on its way is a spooled event overtaken.
Ordered(o, q, s) ==
  /\ \A i \in DOMAIN s : o[s[i]] = "spooled" => FirstIn(s[i], o, s)
  /\ \A i \in DOMAIN q : o[q[i].event] = "spooled" => FirstIn(q[i].event, o, s)
  /\ \A i, j \in DOMAIN q :
       /\ i < j /\ q[j].event < q[i].event
       /\ o[q[i].event] = "spooled" /\ o[q[j].event] = "spooled"
       => q[j].event \in Range(s)

\* What is in the stream or on its way is not counted as spooled anew.
NoNew(o1, o2, q, s) ==
  /\ \A i \in DOMAIN s : o2[s[i]] = "spooled" => o1[s[i]] = "spooled"
  /\ \A i \in DOMAIN q : o2[q[i].event] = "spooled" => o1[q[i].event] = "spooled"

\* r is q with a message for event e behind it.
Posted(r, q, e) ==
  /\ DOMAIN q = 1 .. Len(q) /\ Len(q) \in Nat
  /\ \A i \in DOMAIN r : \/ i \in DOMAIN q /\ r[i].event = q[i].event
                         \/ i = Len(q) + 1 /\ r[i].event = e

\* Messages that are lost or no longer awaited put nothing out of order.
LEMMA OrderedRemains ==
  ASSUME NEW o1, NEW o2, NEW s, NEW q \in Seq(Messages), NEW r \in Seq(Messages),
         Remains(r, q), NoNew(o1, o2, q, s)
  PROVE  /\ Ordered(o1, q, s) => Ordered(o2, r, s)
         /\ \A b : InTime(b, o1, q, s) => InTime(b, o2, r, s)
  <1>1. \A b : FirstIn(b, o1, s) => FirstIn(b, o2, s)
    BY DEF FirstIn, NoNew
  <1>2. PICK k \in Nat : \A i \in DOMAIN r : i + k \in DOMAIN q /\ r[i].event = q[i + k].event
    BY DEF Remains
  <1>3. DOMAIN r = 1 .. Len(r) /\ Len(r) \in Nat
    BY AnySeq
  <1>4. \A i, j \in DOMAIN r : i < j => i + k < j + k
    BY <1>3
  <1>5. \A i \in DOMAIN r : o2[r[i].event] = "spooled" => o1[q[i + k].event] = "spooled"
    BY <1>2 DEF NoNew
  <1>6. ASSUME Ordered(o1, q, s) PROVE Ordered(o2, r, s)
    <2>1. \A i \in DOMAIN s : o2[s[i]] = "spooled" => FirstIn(s[i], o2, s)
      BY <1>1, <1>6 DEF Ordered, NoNew
    <2>2. \A i \in DOMAIN r : o2[r[i].event] = "spooled" => FirstIn(r[i].event, o2, s)
      BY <1>1, <1>2, <1>5, <1>6 DEF Ordered
    <2>3. ASSUME NEW i \in DOMAIN r, NEW j \in DOMAIN r, i < j, r[j].event < r[i].event,
                 o2[r[i].event] = "spooled", o2[r[j].event] = "spooled"
          PROVE  r[j].event \in Range(s)
      <3>1. /\ i + k \in DOMAIN q /\ j + k \in DOMAIN q /\ i + k < j + k
            /\ q[j + k].event < q[i + k].event
            /\ o1[q[i + k].event] = "spooled" /\ o1[q[j + k].event] = "spooled"
            /\ r[j].event = q[j + k].event
        BY <1>2, <1>4, <1>5, <2>3
      <3>2. q[j + k].event \in Range(s)
        BY ONLY <1>6, <3>1 DEF Ordered
      <3>q. QED
        BY <3>1, <3>2
    <2>q. QED
      BY <2>1, <2>2, <2>3 DEF Ordered
  <1>7. ASSUME NEW b, InTime(b, o1, q, s) PROVE InTime(b, o2, r, s)
    BY <1>1, <1>2, <1>5, <1>7 DEF InTime
  <1>q. QED
    BY <1>6, <1>7

\* What is stored behind s is no earlier than what s holds.
LEMMA FirstInAppend ==
  ASSUME NEW o, NEW s \in Seq(Events), NEW x \in Events, NEW b, FirstIn(b, o, s),
         o[x] = "spooled" /\ b < x => b \in Range(s)
  PROVE  FirstIn(b, o, Append(s, x))
  <1> DEFINE t == Append(s, x)
             n == Len(s)
  <1>1. /\ n \in Nat /\ DOMAIN s = 1 .. n
        /\ (\A i \in DOMAIN s : t[i] = s[i]) /\ t[n + 1] = x
        /\ \A i \in DOMAIN t : i \in DOMAIN s \/ i = n + 1
    BY AnySeq, AnyAppend
  <1> HIDE DEF t, n
  <1>2. ASSUME NEW i \in DOMAIN t, o[t[i]] = "spooled", b < t[i]
        PROVE  \E h \in 1 .. i - 1 : t[h] = b
    <2>1. CASE i \in DOMAIN s
      <3>1. PICK h \in 1 .. i - 1 : s[h] = b
        BY <1>1, <1>2, <2>1 DEF FirstIn
      <3>2. h \in DOMAIN s
        BY <1>1, <2>1
      <3>q. QED
        BY <1>1, <3>1, <3>2
    <2>2. CASE i = n + 1
      <3>1. b \in Range(s)
        BY <1>1, <1>2, <2>2
      <3>2. PICK h \in DOMAIN s : s[h] = b
        BY <3>1 DEF Range
      <3>3. h \in 1 .. i - 1
        BY <1>1, <2>2, <3>2
      <3>q. QED
        BY <1>1, <3>2, <3>3
    <2>q. QED
      BY <1>1, <2>1, <2>2
  <1>q. QED
    BY <1>2 DEF FirstIn, t

\* The broker stores the message in front: nothing on its way is overtaken.
LEMMA OrderedStore ==
  ASSUME NEW o, NEW s \in Seq(Events), NEW q \in Seq(Messages), q # <<>>
  PROVE  /\ Ordered(o, q, s) => Ordered(o, Tail(q), Append(s, q[1].event))
         /\ \A b : InTime(b, o, q, s) => InTime(b, o, Tail(q), Append(s, q[1].event))
  <1> DEFINE x == q[1].event
             t == Append(s, x)
             r == Tail(q)
  <1>1. /\ 1 \in DOMAIN q /\ q[1] \in Messages
        /\ \A i \in DOMAIN r : i + 1 \in DOMAIN q /\ r[i] = q[i + 1]
        /\ r \in Seq(Messages)
    BY AnyTail
  <1>2. x \in Events
    BY <1>1 DEF Messages
  <1>3. Range(s) \subseteq Range(t)
    BY <1>2, ToSetAppend
  <1>4. DOMAIN r = 1 .. Len(r) /\ Len(r) \in Nat
    BY <1>1, AnySeq
  <1>5. \A i \in DOMAIN r : 1 < i + 1
    BY <1>4
  <1>6. \A i, j \in DOMAIN r : i < j => i + 1 < j + 1
    BY <1>4
  <1>7. \A i \in DOMAIN t : (i \in DOMAIN s /\ t[i] = s[i]) \/ t[i] = x
    BY <1>2, AnyAppend
  <1>8. /\ \A i \in DOMAIN s : s[i] \in Range(s)
        /\ ~(x < x)
    <2>1. x \in Nat
      BY <1>2, SpoolQueueAssumption, Zenon
    <2>q. QED
      BY <2>1 DEF Range
  <1>9. \A b : FirstIn(b, o, s) /\ (o[x] = "spooled" /\ b < x => b \in Range(s)) => FirstIn(b, o, t)
    BY <1>2, FirstInAppend
  <1> HIDE DEF x, t, r
  <1>a. x = q[1].event
    BY DEF x
  <1>10. ASSUME Ordered(o, q, s) PROVE Ordered(o, r, t)
    <2>1. ASSUME NEW i \in DOMAIN t, o[t[i]] = "spooled" PROVE FirstIn(t[i], o, t)
      <3>1. CASE i \in DOMAIN s /\ t[i] = s[i]
        <4>1. FirstIn(s[i], o, s) /\ s[i] \in Range(s)
          BY <1>8, <1>10, <2>1, <3>1 DEF Ordered
        <4>q. QED
          BY <1>9, <3>1, <4>1
      <3>2. CASE t[i] = x
        <4>1. FirstIn(x, o, s)
          BY <1>1, <1>10, <1>a, <2>1, <3>2 DEF Ordered
        <4>q. QED
          BY <1>8, <1>9, <3>2, <4>1
      <3>q. QED
        BY <1>7, <3>1, <3>2
    <2>2. ASSUME NEW i \in DOMAIN r, o[r[i].event] = "spooled" PROVE FirstIn(r[i].event, o, t)
      <3> DEFINE j == i + 1
      <3>1. j \in DOMAIN q /\ 1 \in DOMAIN q /\ 1 < j /\ r[i] = q[j]
        BY <1>1, <1>5
      <3> HIDE DEF j
      <3>2. FirstIn(q[j].event, o, s)
        BY <1>10, <2>2, <3>1 DEF Ordered
      <3>3. o[x] = "spooled" /\ q[j].event < x => q[j].event \in Range(s)
        BY <1>10, <1>a, <2>2, <3>1 DEF Ordered
      <3>q. QED
        BY <1>9, <3>1, <3>2, <3>3
    <2>3. ASSUME NEW i \in DOMAIN r, NEW j \in DOMAIN r, i < j, r[j].event < r[i].event,
                 o[r[i].event] = "spooled", o[r[j].event] = "spooled"
          PROVE  r[j].event \in Range(t)
      <3>1. i + 1 \in DOMAIN q /\ j + 1 \in DOMAIN q /\ i + 1 < j + 1
              /\ r[i] = q[i + 1] /\ r[j] = q[j + 1]
        BY <1>1, <1>6, <2>3
      <3>2. q[j + 1].event \in Range(s)
        BY ONLY <1>10, <2>3, <3>1 DEF Ordered
      <3>q. QED
        BY <1>3, <3>1, <3>2
    <2>q. QED
      BY <2>1, <2>2, <2>3 DEF Ordered
  <1>11. ASSUME NEW b, InTime(b, o, q, s) PROVE InTime(b, o, r, t)
    <2>1. FirstIn(b, o, t)
      BY <1>1, <1>9, <1>11, <1>a DEF InTime
    <2>2. \A i \in DOMAIN r : o[r[i].event] = "spooled" /\ b < r[i].event => b \in Range(t)
      BY <1>1, <1>3, <1>11 DEF InTime
    <2>q. QED
      BY <2>1, <2>2 DEF InTime
  <1>q. QED
    BY <1>10, <1>11 DEF x, t, r

\* Sending what may still be sent.
LEMMA OrderedPost ==
  ASSUME NEW o1, NEW o2, NEW s, NEW q, NEW r, NEW e \in Events, Posted(r, q, e),
         NoNew(o1, o2, q, s)
  PROVE  /\ Ordered(o1, q, s) /\ (o2[e] = "spooled" => InTime(e, o1, q, s)) => Ordered(o2, r, s)
         /\ \A b : InTime(b, o1, q, s) /\ (o2[e] = "spooled" /\ b < e => b \in Range(s))
                     => InTime(b, o2, r, s)
  <1>1. \A b : FirstIn(b, o1, s) => FirstIn(b, o2, s)
    BY DEF FirstIn, NoNew
  <1>2. /\ DOMAIN q = 1 .. Len(q) /\ Len(q) \in Nat
        /\ \A i \in DOMAIN r : \/ i \in DOMAIN q /\ r[i].event = q[i].event
                               \/ i = Len(q) + 1 /\ r[i].event = e
    BY DEF Posted
  <1>3. ~(e < e)
    BY SpoolQueueAssumption
  <1>4. ASSUME Ordered(o1, q, s), o2[e] = "spooled" => InTime(e, o1, q, s) PROVE Ordered(o2, r, s)
    <2>1. \A i \in DOMAIN s : o2[s[i]] = "spooled" => FirstIn(s[i], o2, s)
      BY <1>1, <1>4 DEF Ordered, NoNew
    <2>2. ASSUME NEW i \in DOMAIN r, o2[r[i].event] = "spooled" PROVE FirstIn(r[i].event, o2, s)
      <3>1. CASE i \in DOMAIN q /\ r[i].event = q[i].event
        BY <1>1, <1>4, <2>2, <3>1 DEF Ordered, NoNew
      <3>2. CASE r[i].event = e
        BY <1>1, <1>4, <2>2, <3>2 DEF InTime
      <3>q. QED
        BY <1>2, <3>1, <3>2
    <2>3. ASSUME NEW i \in DOMAIN r, NEW j \in DOMAIN r, i < j, r[j].event < r[i].event,
                 o2[r[i].event] = "spooled", o2[r[j].event] = "spooled"
          PROVE  r[j].event \in Range(s)
      <3>1. CASE i \in DOMAIN q /\ r[i].event = q[i].event /\ j \in DOMAIN q /\ r[j].event = q[j].event
        <4>1. o1[q[i].event] = "spooled" /\ o1[q[j].event] = "spooled"
          BY <2>3, <3>1 DEF NoNew
        <4>q. QED
          BY <1>4, <2>3, <3>1, <4>1 DEF Ordered
      <3>2. CASE i \in DOMAIN q /\ r[i].event = q[i].event /\ r[j].event = e
        <4>1. o1[q[i].event] = "spooled" /\ e < q[i].event
          BY <2>3, <3>2 DEF NoNew
        <4>q. QED
          BY <1>4, <2>3, <3>2, <4>1 DEF InTime
      <3>3. CASE i = Len(q) + 1 /\ r[i].event = e
        <4>1. j = Len(q) + 1 \/ j \in 1 .. Len(q)
          BY <1>2
        <4>2. ~(i < j)
          BY <1>2, <3>3, <4>1
        <4>q. QED
          BY <2>3, <4>2
      <3>q. QED
        BY <1>2, <3>1, <3>2, <3>3
    <2>q. QED
      BY <2>1, <2>2, <2>3 DEF Ordered
  <1>5. ASSUME NEW b, InTime(b, o1, q, s), o2[e] = "spooled" /\ b < e => b \in Range(s)
        PROVE  InTime(b, o2, r, s)
    BY <1>1, <1>2, <1>5 DEF InTime, NoNew
  <1>q. QED
    BY <1>4, <1>5

\* Every event in log l, in messages q and in stream s is older than n, and so
\* is record r.
Under(n, l, q, s, r) ==
  /\ \A i \in DOMAIN l : l[i] < n
  /\ \A i \in DOMAIN q : q[i].event < n
  /\ \A i \in DOMAIN s : s[i] < n
  /\ r < n

\* The event in hand is the youngest yet, and is nowhere else.
Numbered ==
  /\ Under(next, log, buffer, stored, drain.record) /\ next # 0
  /\ publisher.pc \in {"publish", "spool"} =>
       /\ publisher.event + 1 = next
       /\ Under(publisher.event, log, buffer, stored, drain.record)

\* The record the drain is past verifying is sound; one the bound took is older
\* than all that are left.
Placed ==
  /\ Increasing(log)
  /\ drain.pc \notin {"peek", "verify"} => drain.record \notin rotten
  /\ drain.pc # "peek" /\ held = Dropped => \A i \in DOMAIN log : drain.record < log[i]

\* The fault that comes with an excuse: flushed into nothing, and not advanced.
Excused == faults["cursor"] # 0 /\ faults["stream"] # 0

\* What the spool still holds may still be sent, unless it is never to be sent.
Replayable ==
  ~Excused =>
    /\ Ordered(outcome, buffer, stored)
    /\ \A i \in DOMAIN log : log[i] \in rotten \/ InTime(log[i], outcome, buffer, stored)
    /\ drain.pc # "peek" =>
         drain.record \in rotten \/ InTime(drain.record, outcome, buffer, stored)
    /\ \A i \in 1 .. pos : log[i] \in Range(stored) \cup rotten

\* The records after a step: those before it, and an appended one.
LEMMA LogEntries ==
  ASSUME Typed, Next
  PROVE  \A i \in DOMAIN log' : \/ \E j \in DOMAIN log : log'[i] = log[j]
                                \/ /\ SpoolAppend \/ SpoolAppendFails
                                   /\ log'[i] = publisher.event
  <1>0. QueueTyped /\ TasksTyped /\ log \in Seq(Events)
    BY DEF Typed, QueueTyped
  <1>1. Len(log) \in Nat
    BY <1>0, AnySeq
  <1>2. CASE UNCHANGED log
    BY <1>2
  <1>3. ASSUME NEW k \in 0 .. Len(log), publisher.event \in Events, Put(publisher.event, k)
        PROVE  \A i \in DOMAIN log' : (\E j \in DOMAIN log : log'[i] = log[j])
                                      \/ log'[i] = publisher.event
    <2> DEFINE e == publisher.event
    <2>1. /\ log' = SubSeq(log, k + 1, Len(log)) \o <<e>> /\ log \in Seq(Events)
          /\ e \in Events /\ k \in 0 .. Len(log)
      BY <1>0, <1>3 DEF Put
    <2> HIDE DEF e
    <2>2. /\ Len(log') = Len(log) - k + 1
          /\ \A i \in 1 .. Len(log) - k : i + k \in DOMAIN log /\ log'[i] = log[i + k]
      BY ONLY <2>1, PutFacts
    <2>a. log' \in Seq(Events)
      BY ONLY <2>1, PutFacts
    <2>3. log'[Len(log')] = e
      BY ONLY <2>1, PutLast, ZenonT(40)
    <2>4. DOMAIN log' = 1 .. Len(log')
      BY <2>a, AnySeq
    <2>b. Len(log) \in Nat /\ k \in 0 .. Len(log) /\ Len(log') = Len(log) - k + 1
      BY <1>1, <2>2
    <2>5. \A i \in 1 .. Len(log') : i \in 1 .. Len(log) - k \/ i = Len(log')
      BY ONLY <2>b
    <2>q. QED
      BY <2>2, <2>3, <2>4, <2>5 DEF e
  <1>4. CASE SpoolAppend
    <2>1. PICK k \in Overflow : Put(publisher.event, k)
      BY <1>4 DEF SpoolAppend
    <2>2. k \in 0 .. Len(log) /\ publisher.event \in Events
      BY <1>0, <1>1, <1>4 DEF Overflow, SpoolAppend, TasksTyped
    <2>q. QED
      BY <1>3, <1>4, <2>1, <2>2
  <1>5. CASE SpoolAppendFails
    <2>1. publisher.event \in Events /\ (UNCHANGED queueVars \/ Put(publisher.event, 0))
      BY <1>0, <1>5 DEF SpoolAppendFails, TasksTyped
    <2>2. 0 \in 0 .. Len(log)
      BY <1>1
    <2>q. QED
      BY <1>2, <1>3, <1>5, <2>1, <2>2
  <1>6. CASE DrainPeek \/ Stop \/ Crash
    BY <1>2, <1>6 DEF DrainPeek, Take, Stop, Crash, Reopen
  <1>7. CASE DrainSkip \/ DrainConfirm
    <2>1. Advance
      BY <1>7 DEF DrainSkip, DrainConfirm
    <2>2. CASE SettleInMemory \/ SettleDropped
      BY <1>2, <2>2 DEF SettleInMemory, SettleDropped
    <2>3. CASE Settle
      <3> DEFINE t == SubSeq(log, pos + 2, Len(log))
      <3>1. log' = t /\ pos < Len(log)
        BY <2>3 DEF Settle, HoldsOldest
      <3>2. /\ t \in Seq(Events) /\ Len(t) = Len(log) - pos - 1
            /\ \A i \in 1 .. Len(log) - pos - 1 : i + pos + 1 \in DOMAIN log /\ t[i] = log[i + pos + 1]
        BY <1>0, <3>1, OldestFacts
      <3> HIDE DEF t
      <3>3. DOMAIN t = 1 .. Len(log) - pos - 1
        BY <3>2, AnySeq
      <3>q. QED
        BY <3>1, <3>2, <3>3
    <2>q. QED
      BY <2>1, <2>2, <2>3 DEF Advance
  <1>q. QED
    BY <1>2, <1>4, <1>5, <1>6, <1>7, QueueCases

\* A send puts one message behind the others.
LEMMA SendFacts ==
  ASSUME TasksTyped, BrokerTyped
  PROVE  /\ PublishOk => publisher.event \in Events /\ Posted(buffer', buffer, publisher.event)
         /\ DrainPublish \/ DrainFallback =>
              drain.record \in Events /\ Posted(buffer', buffer, drain.record)
  <1>0. buffer \in Seq(Messages)
    BY Zenon DEF BrokerTyped
  <1>1. ASSUME NEW q \in Seq(Messages), NEW m \in Messages, buffer' = Append(q, m),
               DOMAIN q = DOMAIN buffer, Len(q) = Len(buffer),
               \A i \in DOMAIN q : q[i].event = buffer[i].event
        PROVE  Posted(buffer', buffer, m.event)
    <2>1. /\ Len(q) \in Nat /\ DOMAIN q = 1 .. Len(q)
          /\ \A i \in DOMAIN buffer' : \/ i \in DOMAIN q /\ buffer'[i] = q[i]
                                       \/ i = Len(q) + 1 /\ buffer'[i] = m
      BY ONLY <1>1, PostFacts
    <2>q. QED
      BY <1>1, <2>1 DEF Posted
  <1>2. ASSUME PublishOk
        PROVE  publisher.event \in Events /\ Posted(buffer', buffer, publisher.event)
    <2> DEFINE m == Message(publisher.event, FALSE)
    <2>1. publisher.event \in Events /\ buffer' = Append(buffer, m)
      BY <1>2 DEF PublishOk, TasksTyped
    <2>2. m \in Messages /\ m.event = publisher.event
      BY <2>1, MessageFacts, Zenon
    <2> HIDE DEF m
    <2>3. Posted(buffer', buffer, m.event)
      BY <1>0, <1>1, <2>1, <2>2
    <2>q. QED
      BY <2>1, <2>2, <2>3
  <1>3. ASSUME DrainFallback
        PROVE  drain.record \in Events /\ Posted(buffer', buffer, drain.record)
    <2> DEFINE m == Message(drain.record, FALSE)
    <2>1. drain.record \in Events /\ buffer' = Append(buffer, m)
      BY <1>3 DEF DrainFallback, TasksTyped
    <2>2. m \in Messages /\ m.event = drain.record
      BY <2>1, MessageFacts, Zenon
    <2> HIDE DEF m
    <2>3. Posted(buffer', buffer, m.event)
      BY <1>0, <1>1, <2>1, <2>2
    <2>q. QED
      BY <2>1, <2>2, <2>3
  <1>4. ASSUME DrainPublish
        PROVE  drain.record \in Events /\ Posted(buffer', buffer, drain.record)
    <2> DEFINE m == Message(drain.record, TRUE)
               u == Unanswered(buffer)
    <2>1. drain.record \in Events /\ buffer' = Append(u, m)
      BY <1>4 DEF DrainPublish, TasksTyped
    <2>2. m \in Messages /\ m.event = drain.record
      BY <2>1, MessageFacts, Zenon
    <2>3. /\ u \in Seq(Messages) /\ DOMAIN u = DOMAIN buffer /\ Len(u) = Len(buffer)
          /\ \A i \in DOMAIN u : u[i].event = buffer[i].event
      BY <1>0, UnansweredFacts, Zenon
    <2> HIDE DEF m, u
    <2>4. Posted(buffer', buffer, m.event)
      BY <1>1, <2>1, <2>2, <2>3
    <2>q. QED
      BY <2>1, <2>2, <2>4
  <1>q. QED
    BY <1>2, <1>3, <1>4

\* No step brings in an event but the one in hand.
LEMMA UnderStep ==
  ASSUME Typed, Next, NEW n \in Nat \ {0}, Under(n, log, buffer, stored, drain.record),
         PublishOk \/ SpoolAppend \/ SpoolAppendFails => publisher.event < n
  PROVE  Under(n, log', buffer', stored', drain'.record)
  <1>0. QueueTyped /\ TasksTyped /\ BrokerTyped
    BY DEF Typed
  <1>1. \A i \in DOMAIN log' : log'[i] < n
    BY LogEntries DEF Under
  <1>2. \A i \in DOMAIN buffer' : buffer'[i].event < n
    <2>1. CASE Remains(buffer', buffer)
      BY <2>1 DEF Remains, Under
    <2>2. CASE PublishOk
      <3>1. Posted(buffer', buffer, publisher.event) /\ publisher.event < n
        BY <1>0, <2>2, SendFacts
      <3>q. QED
        BY <3>1 DEF Posted, Under
    <2>3. CASE DrainPublish \/ DrainFallback
      <3>1. Posted(buffer', buffer, drain.record) /\ drain.record < n
        BY <1>0, <2>3, SendFacts DEF Under
      <3>q. QED
        BY <3>1 DEF Posted, Under
    <2>q. QED
      BY <1>0, <2>1, <2>2, <2>3, BufferCases
  <1>3. \A i \in DOMAIN stored' : stored'[i] < n
    <2>1. CASE UNCHANGED stored
      BY <2>1 DEF Under
    <2>2. CASE BrokerReceives /\ stored' = Append(stored, buffer[1].event)
      <3>1. buffer[1].event \in Events /\ 1 \in DOMAIN buffer /\ stored \in Seq(Events)
        BY <1>0, <2>2, ReceiveFacts, Zenon DEF BrokerTyped
      <3> DEFINE x == buffer[1].event
      <3>2. x < n /\ x \in Events /\ stored' = Append(stored, x)
        BY <2>2, <3>1 DEF Under
      <3> HIDE DEF x
      <3>3. \A i \in DOMAIN stored' : (i \in DOMAIN stored /\ stored'[i] = stored[i]) \/ stored'[i] = x
        BY <3>1, <3>2, EachAppended
      <3>q. QED
        BY <3>2, <3>3 DEF Under
    <2>q. QED
      BY <1>0, <2>1, <2>2, StoredCases
  <1>4. drain'.record < n
    <2>1. CASE UNCHANGED drain
      BY <2>1 DEF Under
    <2>2. CASE drain' = drainIdle
      BY <2>2 DEF drainIdle, None
    <2>3. CASE DrainPeek
      <3>1. CASE held' = None
        BY <2>2, <2>3, <3>1 DEF DrainPeek
      <3>2. CASE held' # None
        <4>1. drain'.record = held' /\ held' = log[pos + 1] /\ pos < Len(log)
          BY <2>3, <3>2 DEF DrainPeek, Take
        <4>2. pos + 1 \in DOMAIN log
          BY <1>0, <4>1, OldestFacts
        <4>q. QED
          BY <4>1, <4>2 DEF Under
      <3>q. QED
        BY <3>1, <3>2
    <2>4. CASE drain'.record = drain.record
      BY <2>4 DEF Under
    <2>q. QED
      BY <1>0, <2>1, <2>2, <2>3, <2>4, DrainCases, DrainStays
  <1>q. QED
    BY <1>1, <1>2, <1>3, <1>4 DEF Under

\* The main loop takes a new event, is done with one, or stays at it.
LEMMA PublisherCases ==
  ASSUME TasksTyped, Next
  PROVE  \/ Receive
         \/ UNCHANGED next /\ publisher'.pc \notin {"publish", "spool"}
         \/ /\ UNCHANGED next /\ publisher'.event = publisher.event
            /\ publisher'.pc \in {"publish", "spool"} => publisher.pc \in {"publish", "spool"}
            /\ ~PublishOk /\ ~SpoolAppend /\ ~SpoolAppendFails
  <1>1. CASE PublishOk \/ SpoolAppend \/ SpoolAppendFails
    <2>1. UNCHANGED next /\ publisher' = Idle
      BY <1>1, Zenon DEF PublishOk, SpoolAppend, SpoolAppendFails
    <2>q. QED
      BY <2>1 DEF Idle
  <1>2. CASE ~PublishOk /\ ~SpoolAppend /\ ~SpoolAppendFails
    <2>1. CASE UNCHANGED <<next, publisher>>
      BY <1>2, <2>1
    <2>2. CASE PublishStalls
      <3>1. UNCHANGED next /\ (publisher' = Idle \/ publisher' = [publisher EXCEPT !.pc = "spool"])
        BY <2>2 DEF PublishStalls
      <3>2. publisher.pc = "publish"
        BY <2>2 DEF PublishStalls
      <3>3. CASE publisher' = Idle
        BY <3>1, <3>3 DEF Idle
      <3>4. CASE publisher' = [publisher EXCEPT !.pc = "spool"]
        BY <1>2, <3>1, <3>2, <3>4 DEF TasksTyped
      <3>q. QED
        BY <3>1, <3>3, <3>4
    <2>3. CASE Signal
      BY <2>3 DEF Signal
    <2>4. CASE Stop \/ Crash
      <3>1. UNCHANGED next /\ publisher' = Idle
        BY <2>4 DEF Stop, Crash
      <3>q. QED
        BY <3>1 DEF Idle
    <2>5. CASE Draining
      BY <2>1, <2>5, Zenon DEF Draining, DrainPeek, DrainSkip, DrainPublish, DrainAcked,
           DrainNoResponders, DrainAckTimeout, DrainFallback, DrainFlushed, DrainConfirm
    <2>6. CASE Network \/ RecordRots
      BY <2>1, <2>6, Zenon DEF Network, LinkDrops, ClientNotices, Reconnects, BrokerReceives,
           WindowPasses, StreamGoes, StreamReturns, RecordRots
    <2>q. QED
      BY <1>2, <2>2, <2>3, <2>4, <2>5, <2>6 DEF Next, Publishing
  <1>q. QED
    BY <1>1, <1>2

\* Events are numbered as they come.
LEMMA NumberedStep ==
  ASSUME Typed, Numbered, Next
  PROVE  Numbered'
  <1>0. TasksTyped /\ next \in Nat \ {0}
    BY DEF Typed, TasksTyped, Numbered
  <1>1. PublishOk \/ SpoolAppend \/ SpoolAppendFails => publisher.pc \in {"publish", "spool"}
    BY Zenon DEF PublishOk, SpoolAppend, SpoolAppendFails
  <1>2. publisher.pc \in {"publish", "spool"} =>
          /\ publisher.event \in Nat \ {0} /\ publisher.event + 1 = next
          /\ Under(publisher.event, log, buffer, stored, drain.record)
    BY <1>0, SpoolQueueAssumption, Zenon DEF TasksTyped, Numbered
  <1>3. publisher.pc \in {"publish", "spool"} => publisher.event < next
    BY <1>0, <1>2
  <1>4. Under(next, log', buffer', stored', drain'.record)
    BY <1>0, <1>1, <1>3, UnderStep DEF Numbered
  <1>5. CASE Receive
    <2>1. /\ next' = next + 1 /\ publisher'.event = next
      BY <1>5 DEF Receive
    <2>2. next < next'
      BY <1>0, <2>1
    <2>3. Under(next', log', buffer', stored', drain'.record) /\ next' # 0
      <3>1. QueueTyped' /\ TasksTyped' /\ BrokerTyped'
        BY TypedStep DEF Typed
      <3>2. /\ \A i \in DOMAIN log' : log'[i] \in Nat
            /\ \A i \in DOMAIN buffer' : buffer'[i].event \in Nat
            /\ \A i \in DOMAIN stored' : stored'[i] \in Nat
            /\ drain'.record \in Nat
        <4>1. \A x \in Events : x \in Nat
          BY SpoolQueueAssumption
        <4>2. log' \in Seq(Events) /\ buffer' \in Seq(Messages) /\ stored' \in Seq(Events)
          BY <3>1, Zenon DEF QueueTyped, BrokerTyped
        <4>3. \A i \in DOMAIN log' : log'[i] \in Events
          BY <4>2, AnySeq
        <4>4. \A i \in DOMAIN stored' : stored'[i] \in Events
          BY <4>2, AnySeq
        <4>5. \A i \in DOMAIN buffer' : buffer'[i] \in Messages
          BY <4>2, AnySeq
        <4>6. drain'.record \in Events \cup {None}
          BY <3>1 DEF TasksTyped
        <4>q. QED
          BY <4>1, <4>3, <4>4, <4>5, <4>6 DEF Messages, None
      <3>q. QED
        BY <1>0, <1>4, <2>1, <2>2, <3>2 DEF Under
    <2>q. QED
      BY <1>4, <2>1, <2>3 DEF Numbered
  <1>6. CASE UNCHANGED next /\ publisher'.pc \notin {"publish", "spool"}
    BY <1>0, <1>4, <1>6 DEF Numbered
  <1>7. CASE /\ UNCHANGED next /\ publisher'.event = publisher.event
             /\ publisher'.pc \in {"publish", "spool"} => publisher.pc \in {"publish", "spool"}
             /\ ~PublishOk /\ ~SpoolAppend /\ ~SpoolAppendFails
    <2>1. publisher.pc \in {"publish", "spool"} =>
            Under(publisher.event, log', buffer', stored', drain'.record)
      BY <1>2, <1>7, UnderStep
    <2>q. QED
      BY <1>0, <1>2, <1>4, <1>7, <2>1 DEF Numbered
  <1>q. QED
    BY <1>0, <1>5, <1>6, <1>7, PublisherCases

\* append keeps the log in order, with the youngest last.
LEMMA PutIncreasing ==
  ASSUME NEW s \in Seq(Events), Increasing(s), NEW e \in Events, NEW k \in 0 .. Len(s),
         \A i \in DOMAIN s : s[i] < e, NEW t, t = SubSeq(s, k + 1, Len(s)) \o <<e>>
  PROVE  Increasing(t)
  <1> DEFINE n == Len(s)
             c == Len(t)
  <1>1. /\ Len(t) = Len(s) - k + 1 /\ Len(s) \in Nat
        /\ \A i \in 1 .. Len(s) - k : i + k \in DOMAIN s /\ t[i] = s[i + k]
    BY PutFacts
  <1>2. t[Len(t)] = e
    BY PutLast, ZenonT(40)
  <1>3. t \in Seq(Events)
    BY PutFacts
  <1>4. DOMAIN t = 1 .. Len(t)
    BY <1>3, AnySeq
  <1>a. n \in Nat /\ k \in Nat /\ k <= n /\ c = n - k + 1
    BY <1>1
  <1>b. (\A i \in 1 .. n - k : i + k \in DOMAIN s /\ t[i] = s[i + k]) /\ t[c] = e /\ DOMAIN t = 1 .. c
    BY <1>1, <1>2, <1>4, Zenon
  <1> HIDE DEF n, c
  <1>5. ASSUME NEW i \in 1 .. c, NEW j \in 1 .. c, i < j PROVE t[i] < t[j]
    <2>1. i \in 1 .. n - k /\ (j \in 1 .. n - k \/ j = c) /\ i + k < j + k
      BY <1>5, <1>a
    <2>2. CASE j \in 1 .. n - k
      <3>1. s[i + k] < s[j + k]
        BY <1>b, <2>1, <2>2 DEF Increasing
      <3>q. QED
        BY <1>b, <2>1, <2>2, <3>1
    <2>3. CASE j = c
      BY <1>b, <2>1, <2>3
    <2>q. QED
      BY <2>1, <2>2, <2>3, Zenon
  <1>q. QED
    BY <1>5, <1>b DEF Increasing

\* The steps that append: the youngest record goes last.
LEMMA AppendCases ==
  ASSUME Typed, Numbered, SpoolAppend \/ SpoolAppendFails
  PROVE  /\ publisher.event \in Events
         /\ Under(publisher.event, log, buffer, stored, drain.record)
         /\ UNCHANGED <<drain, buffer, stored, rotten>>
         /\ \/ UNCHANGED queueVars
            \/ \E k \in 0 .. Len(log) : Put(publisher.event, k)
  <1>1. publisher.pc = "spool"
    BY DEF SpoolAppend, SpoolAppendFails
  <1>2. publisher.event \in Events
    BY <1>1 DEF Typed, TasksTyped
  <1>3. Under(publisher.event, log, buffer, stored, drain.record)
    BY <1>1 DEF Numbered
  <1>4. UNCHANGED <<drain, buffer, stored, rotten>>
    BY DEF SpoolAppend, SpoolAppendFails
  <1>5. log \in Seq(Events)
    BY DEF Typed, QueueTyped
  <1>6. Len(log) \in Nat
    BY <1>5, AnySeq
  <1>7. UNCHANGED queueVars \/ \E k \in Overflow \cup {0} : Put(publisher.event, k)
    BY DEF SpoolAppend, SpoolAppendFails
  <1>8. Overflow \cup {0} \subseteq 0 .. Len(log)
    BY <1>6 DEF Overflow
  <1>q. QED
    BY <1>2, <1>3, <1>4, <1>7, <1>8

\* Every step keeps the log in order.
LEMMA IncreasingStep ==
  ASSUME Typed, Numbered, Increasing(log), Next
  PROVE  Increasing(log')
  <1>0. QueueTyped /\ log \in Seq(Events)
    BY DEF Typed, QueueTyped
  <1>1. CASE UNCHANGED log
    BY <1>1
  <1>2. CASE SpoolAppend \/ SpoolAppendFails
    <2> DEFINE e == publisher.event
    <2>1. e \in Events /\ Under(e, log, buffer, stored, drain.record)
      BY <1>2, AppendCases
    <2>2. \A i \in DOMAIN log : log[i] < e
      BY <2>1 DEF Under
    <2>3. CASE \E k \in 0 .. Len(log) : Put(e, k)
      <3>1. PICK k \in 0 .. Len(log) : Put(e, k)
        BY <2>3
      <3>2. log' = SubSeq(log, k + 1, Len(log)) \o <<e>>
        BY <3>1 DEF Put
      <3> HIDE DEF e
      <3>q. QED
        BY <1>0, <2>1, <2>2, <3>2, PutIncreasing, Zenon
    <2>q. QED
      BY <1>1, <1>2, <2>3, AppendCases
  <1>3. CASE DrainPeek \/ Stop \/ Crash
    BY <1>1, <1>3 DEF DrainPeek, Take, Stop, Crash, Reopen
  <1>4. CASE DrainSkip \/ DrainConfirm
    <2>1. Advance
      BY <1>4 DEF DrainSkip, DrainConfirm
    <2>2. CASE SettleInMemory \/ SettleDropped
      BY <1>1, <2>2 DEF SettleInMemory, SettleDropped
    <2>3. CASE Settle
      <3> DEFINE t == SubSeq(log, pos + 2, Len(log))
      <3>1. log' = t /\ pos < Len(log)
        BY <2>3 DEF Settle, HoldsOldest
      <3>2. /\ t \in Seq(Events) /\ Len(t) = Len(log) - pos - 1
            /\ \A i \in 1 .. Len(log) - pos - 1 : i + pos + 1 \in DOMAIN log /\ t[i] = log[i + pos + 1]
        BY <1>0, <3>1, OldestFacts
      <3> HIDE DEF t
      <3>3. DOMAIN t = 1 .. Len(log) - pos - 1
        BY <3>2, AnySeq
      <3>4. pos \in Nat /\ Len(log) \in Nat
        BY <1>0, AnySeq DEF QueueTyped
      <3>5. \A i, j \in DOMAIN t : i < j => i + pos + 1 < j + pos + 1
        BY <3>3, <3>4
      <3>6. \A i, j \in DOMAIN t : i < j => t[i] < t[j]
        BY <3>2, <3>3, <3>5 DEF Increasing
      <3>q. QED
        BY <3>1, <3>6 DEF Increasing
    <2>q. QED
      BY <2>1, <2>2, <2>3 DEF Advance
  <1>q. QED
    BY <1>1, <1>2, <1>3, <1>4, QueueCases

\* Bytes that rot stay rotten, and rot under nobody's hands.
LEMMA RottenCases ==
  ASSUME Next
  PROVE  /\ rotten \subseteq rotten'
         /\ UNCHANGED rotten \/ (UNCHANGED drain /\ drain.record \notin rotten' \ rotten)
  <1>1. CASE Publishing \/ Signal \/ Stop \/ Crash
    BY <1>1, Zenon DEF Publishing, Receive, PublishOk, PublishStalls, SpoolAppend, SpoolAppendFails,
         Signal, Stop, Crash
  <1>2. CASE RecordRots
    BY <1>2 DEF RecordRots
  <1>3. CASE Draining
    BY <1>3, Zenon DEF Draining, DrainPeek, DrainSkip, DrainPublish, DrainAcked, DrainNoResponders,
         DrainAckTimeout, DrainFallback, DrainFlushed, DrainConfirm
  <1>4. CASE Network
    BY <1>4, Zenon DEF Network, LinkDrops, ClientNotices, Reconnects, BrokerReceives, WindowPasses,
         StreamGoes, StreamReturns
  <1>q. QED
    BY <1>1, <1>2, <1>3, <1>4 DEF Next

\* A record that is sent has been verified.
LEMMA SentIsSound ==
  ASSUME Placed, DrainPublish \/ DrainFallback
  PROVE  drain.record \notin rotten
  BY Zenon DEF Placed, DrainPublish, DrainFallback

\* Every step keeps the drain's record in its place.
LEMMA PlacedStep ==
  ASSUME Typed, Holding, Numbered, Placed, Next
  PROVE  Placed'
  <1>0. QueueTyped /\ TasksTyped /\ log \in Seq(Events)
    BY DEF Typed, QueueTyped
  <1>1. Increasing(log')
    BY IncreasingStep DEF Placed
  <1>2. drain'.pc \notin {"peek", "verify"} => drain'.record \notin rotten'
    <2>1. CASE UNCHANGED drain
      BY <2>1, RottenCases DEF Placed
    <2>2. CASE drain' = drainIdle \/ DrainPeek
      <3>1. drain'.pc \in {"peek", "verify"}
        BY <2>2 DEF DrainPeek, drainIdle
      <3>q. QED
        BY <3>1
    <2>3. CASE DrainPublish \/ DrainFallback
      <3>1. drain'.record = drain.record /\ UNCHANGED rotten
        BY <1>0, <2>3, DrainStays, Zenon DEF DrainPublish, DrainFallback
      <3>q. QED
        BY <2>3, <3>1, SentIsSound
    <2>4. CASE DrainAcked \/ DrainNoResponders \/ DrainFlushed
      <3>1. drain'.record = drain.record /\ UNCHANGED rotten /\ drain.pc \notin {"peek", "verify"}
        BY <1>0, <2>4, DrainStays, Zenon DEF DrainAcked, DrainNoResponders, DrainFlushed
      <3>q. QED
        BY <3>1 DEF Placed
    <2>q. QED
      BY <2>1, <2>2, <2>3, <2>4, DrainCases
  <1>3. drain'.pc # "peek" /\ held' = Dropped => \A i \in DOMAIN log' : drain'.record < log'[i]
    <2>1. CASE drain.pc # "peek" /\ drain'.record = drain.record /\ UNCHANGED queueVars
      BY <2>1 DEF Placed
    <2>2. CASE drain' = drainIdle
      BY <2>2 DEF drainIdle
    <2>3. CASE DrainPeek
      <3>1. held' = None \/ (held' = log[pos + 1] /\ pos < Len(log))
        BY <2>3 DEF DrainPeek, Take
      <3>2. held' = None \/ held' \in Events
        BY <1>0, <3>1, OldestFacts
      <3>3. held' # Dropped
        BY <3>2, SpoolQueueAssumption DEF Dropped, None
      <3>q. QED
        BY <3>3
    <2>4. CASE UNCHANGED drain
      <3>1. CASE drain.pc = "peek"
        BY <2>4, <3>1
      <3>2. CASE drain.pc # "peek" /\ UNCHANGED queueVars
        BY <2>1, <2>4, <3>2
      <3>3. CASE DrainPeek \/ DrainSkip \/ DrainConfirm \/ Stop \/ Crash
        BY <2>2, <2>3, <3>3 DEF DrainSkip, DrainConfirm, Stop, Crash, drainIdle
      <3>4. CASE drain.pc # "peek" /\ (SpoolAppend \/ SpoolAppendFails)
        <4> DEFINE e == publisher.event
        <4>1. e \in Events /\ Under(e, log, buffer, stored, drain.record)
          BY <3>4, AppendCases
        <4>2. CASE \E k \in 0 .. Len(log) : Put(e, k)
          <5>1. PICK k \in 0 .. Len(log) : Put(e, k)
            BY <4>2
          <5> HIDE DEF e
          <5>2. SUFFICES ASSUME held' = Dropped, NEW i \in DOMAIN log'
                         PROVE  drain.record < log'[i]
            BY <2>4
          <5>3. /\ log' = SubSeq(log, k + 1, Len(log)) \o <<e>> /\ log \in Seq(Events)
                /\ e \in Events /\ k \in 0 .. Len(log)
            BY <1>0, <4>1, <5>1 DEF Put
          <5>4. /\ Len(log') = Len(log) - k + 1 /\ Len(log) \in Nat
                /\ \A j \in 1 .. Len(log) - k : j + k \in DOMAIN log /\ log'[j] = log[j + k]
            BY ONLY <5>3, PutFacts
          <5>5. log' \in Seq(Events)
            BY ONLY <5>3, PutFacts
          <5>6. log'[Len(log')] = e
            BY ONLY <5>3, PutLast, ZenonT(40)
          <5>7. i \in 1 .. Len(log')
            BY <5>5, AnySeq
          <5>8. CASE i = Len(log')
            BY <4>1, <5>6, <5>8 DEF Under
          <5>9. CASE i # Len(log')
            <6>1. i \in 1 .. Len(log) - k
              BY <5>4, <5>7, <5>9
            <6>2. i + k \in DOMAIN log /\ log'[i] = log[i + k]
              BY <5>4, <6>1
            <6>3. CASE held = Dropped
              BY <3>4, <6>2, <6>3 DEF Placed
            <6>4. CASE held # Dropped
              <7>1. held = drain.record /\ pos < Len(log) /\ held = log[pos + 1]
                BY <3>4, <6>4 DEF Holding, HoldsOldest
              <7>2. k > pos
                BY <5>1, <5>2, <6>4 DEF Put
              <7>3. pos + 1 \in DOMAIN log /\ pos \in Nat
                BY <1>0, <7>1, OldestFacts DEF QueueTyped
              <7>4. pos + 1 < i + k
                BY <5>4, <6>1, <7>2, <7>3
              <7>5. log[pos + 1] < log[i + k]
                BY <6>2, <7>3, <7>4 DEF Placed, Increasing
              <7>q. QED
                BY <6>2, <7>1, <7>5
            <6>q. QED
              BY <6>3, <6>4
          <5>q. QED
            BY <5>8, <5>9
        <4>q. QED
          BY <3>2, <3>4, <4>2, AppendCases
      <3>q. QED
        BY <3>1, <3>2, <3>3, <3>4, QueueCases
    <2>q. QED
      BY <1>0, <2>1, <2>2, <2>3, <2>4, DrainCases, DrainStays
  <1>q. QED
    BY <1>1, <1>2, <1>3 DEF Placed, Increasing

\* The event that becomes spooled is neither stored nor on its way.
LEMMA NoNewStep ==
  ASSUME Typed, Numbered, Next
  PROVE  NoNew(outcome, outcome', buffer, stored)
  <1>0. stored \in Seq(Events) /\ buffer \in Seq(Messages)
    BY Zenon DEF Typed, BrokerTyped
  <1>1. ASSUME NEW e \in Events, e # publisher.event \/ ~SpoolAppend, outcome'[e] = "spooled"
        PROVE  outcome[e] = "spooled"
    BY <1>1, SpooledCases
  <1>2. SpoolAppend => Under(publisher.event, log, buffer, stored, drain.record)
    BY AppendCases
  <1>3. SpoolAppend => publisher.event \in Nat
    BY AppendCases, SpoolQueueAssumption, Zenon
  <1>4. ASSUME NEW i \in DOMAIN stored, outcome'[stored[i]] = "spooled"
        PROVE  outcome[stored[i]] = "spooled"
    <2>1. stored[i] \in Events
      BY <1>0, AnySeq
    <2>2. SpoolAppend => stored[i] # publisher.event
      BY <1>2, <1>3 DEF Under
    <2>q. QED
      BY <1>1, <1>4, <2>1, <2>2
  <1>5. ASSUME NEW i \in DOMAIN buffer, outcome'[buffer[i].event] = "spooled"
        PROVE  outcome[buffer[i].event] = "spooled"
    <2>1. buffer[i] \in Messages
      BY <1>0, AnySeq
    <2>2. buffer[i].event \in Events
      BY <2>1 DEF Messages
    <2>3. SpoolAppend => buffer[i].event # publisher.event
      BY <1>2, <1>3 DEF Under
    <2>q. QED
      BY <1>1, <1>5, <2>2, <2>3
  <1>q. QED
    BY <1>4, <1>5 DEF NoNew

\* What a step does to the order: only what the drain sends can be late.
LEMMA CarryStep ==
  ASSUME Typed, Typed', Numbered, Next
  PROVE  /\ /\ Ordered(outcome, buffer, stored)
            /\ DrainPublish \/ DrainFallback => InTime(drain.record, outcome, buffer, stored)
            => Ordered(outcome', buffer', stored')
         /\ \A b : /\ InTime(b, outcome, buffer, stored)
                   /\ DrainPublish \/ DrainFallback =>
                        (b < drain.record => b \in Range(stored))
                   => InTime(b, outcome', buffer', stored')
  <1>0. /\ TasksTyped /\ BrokerTyped /\ stored \in Seq(Events)
        /\ buffer \in Seq(Messages) /\ buffer' \in Seq(Messages)
    BY Zenon DEF Typed, BrokerTyped
  <1>1. NoNew(outcome, outcome', buffer, stored)
    BY NoNewStep
  <1>2. CASE /\ BrokerReceives /\ buffer # <<>>
             /\ stored' = Append(stored, buffer[1].event)
    <2>1. buffer' = Tail(buffer) /\ outcome' = outcome
      BY <1>2, Zenon DEF BrokerReceives
    <2>2. /\ Ordered(outcome, buffer, stored)
               => Ordered(outcome, Tail(buffer), Append(stored, buffer[1].event))
          /\ \A b : InTime(b, outcome, buffer, stored)
               => InTime(b, outcome, Tail(buffer), Append(stored, buffer[1].event))
      BY <1>0, <1>2, OrderedStore, Zenon
    <2>q. QED
      BY <1>2, <2>1, <2>2
  <1>3. CASE UNCHANGED stored /\ (DrainPublish \/ DrainFallback)
    <2>1. drain.record \in Events /\ Posted(buffer', buffer, drain.record)
      BY <1>0, <1>3, SendFacts
    <2>2. /\ Ordered(outcome, buffer, stored)
               /\ (outcome'[drain.record] = "spooled"
                     => InTime(drain.record, outcome, buffer, stored))
               => Ordered(outcome', buffer', stored)
          /\ \A b : InTime(b, outcome, buffer, stored)
               /\ (outcome'[drain.record] = "spooled" /\ b < drain.record => b \in Range(stored))
               => InTime(b, outcome', buffer', stored)
      BY ONLY <1>1, <2>1, OrderedPost, Zenon
    <2>q. QED
      BY <1>3, <2>2
  <1>4. CASE UNCHANGED stored /\ PublishOk
    <2>1. publisher.event \in Events /\ Posted(buffer', buffer, publisher.event)
      BY <1>0, <1>4, SendFacts
    <2>2. outcome'[publisher.event] # "spooled"
      <3>1. /\ outcome' = [outcome EXCEPT ![publisher.event] = "published"]
            /\ publisher.event \in DOMAIN outcome
        BY <1>4, <2>1 DEF PublishOk, Typed, HistoryTyped
      <3>q. QED
        BY <3>1
    <2>3. /\ Ordered(outcome, buffer, stored)
               /\ (outcome'[publisher.event] = "spooled"
                     => InTime(publisher.event, outcome, buffer, stored))
               => Ordered(outcome', buffer', stored)
          /\ \A b : InTime(b, outcome, buffer, stored)
               /\ (outcome'[publisher.event] = "spooled" /\ b < publisher.event
                     => b \in Range(stored))
               => InTime(b, outcome', buffer', stored)
      BY ONLY <1>1, <2>1, OrderedPost, Zenon
    <2>q. QED
      BY <1>4, <2>2, <2>3
  <1>5. CASE UNCHANGED stored /\ Remains(buffer', buffer)
    <2>1. /\ Ordered(outcome, buffer, stored) => Ordered(outcome', buffer', stored)
          /\ \A b : InTime(b, outcome, buffer, stored) => InTime(b, outcome', buffer', stored)
      BY <1>0, <1>1, <1>5, OrderedRemains
    <2>q. QED
      BY <1>5, <2>1
  <1>q. QED
    BY <1>0, <1>2, <1>3, <1>4, <1>5, StoredCases, BufferCases

\* Events are numbered from one.
LEMMA EventsAreNumbers == \A x \in Events : x \in Nat
  BY SpoolQueueAssumption

\* What lies behind the drain's record has been stored or is never to be sent.
LEMMA BehindIsDone ==
  ASSUME Typed, Holding, Placed, drain.pc # "peek",
         \A i \in 1 .. pos : log[i] \in Range(stored) \cup rotten,
         NEW j \in DOMAIN log, log[j] < drain.record
  PROVE  log[j] \in Range(stored) \cup rotten
  <1>0. QueueTyped /\ log \in Seq(Events) /\ pos \in Nat /\ Len(log) \in Nat
    BY AnySeq DEF Typed, QueueTyped
  <1>a. log[j] \in Events /\ j \in 1 .. Len(log)
    BY <1>0, AnySeq
  <1>1. log[j] \in Nat /\ j \in Nat /\ j >= 1
    BY <1>0, <1>a, EventsAreNumbers
  <1>2. CASE held = Dropped
    <2>1. drain.record < log[j]
      BY <1>2 DEF Placed
    <2>a. drain.record \in Events
      BY DEF Typed, TasksTyped
    <2>2. drain.record \in Int
      BY <2>a, EventsAreNumbers
    <2>q. QED
      BY <1>1, <2>1, <2>2
  <1>3. CASE held # Dropped
    <2>1. drain.record = log[pos + 1] /\ pos < Len(log)
      BY <1>3 DEF Holding, HoldsOldest
    <2>2. pos + 1 \in DOMAIN log /\ log[pos + 1] \in Nat
      BY <1>0, <2>1, OldestFacts, EventsAreNumbers
    <2>3. ~(pos + 1 < j)
      BY <1>1, <2>1, <2>2 DEF Placed, Increasing
    <2>4. j # pos + 1
      BY <1>1, <2>1
    <2>5. j \in 1 .. pos
      BY <1>0, <1>1, <2>3, <2>4
    <2>q. QED
      BY <2>5
  <1>q. QED
    BY <1>2, <1>3

\* The records passed in memory only have all been stored, or are never to be sent.
LEMMA PassedStep ==
  ASSUME Typed, Typed', DrainInv, Next, ~Excused',
         \A i \in 1 .. pos : log[i] \in Range(stored) \cup rotten
  PROVE  \A i \in 1 .. pos' : log'[i] \in Range(stored') \cup rotten'
  <1>0. /\ QueueTyped /\ BrokerTyped /\ HistoryTyped
        /\ log \in Seq(Events) /\ pos \in Nat /\ Len(log) \in Nat /\ pos <= Len(log)
    BY AnySeq DEF Typed, QueueTyped
  <1>1. Range(stored) \cup rotten \subseteq Range(stored') \cup rotten'
    BY <1>0, StoredGrows, RottenCases
  <1>2. CASE UNCHANGED <<log, pos>>
    BY <1>1, <1>2
  <1>3. CASE pos' = 0
    BY <1>3
  <1>4. CASE \E k \in 0 .. Len(log) : \E e \in Events : Put(e, k)
    <2>1. PICK k \in 0 .. Len(log) : \E e \in Events : Put(e, k)
      BY <1>4
    <2>2. PICK e \in Events : Put(e, k)
      BY <2>1
    <2>3. log' = SubSeq(log, k + 1, Len(log)) \o <<e>> /\ pos' = IF pos > k THEN pos - k ELSE 0
      BY <2>2 DEF Put
    <2>4. \A i \in 1 .. Len(log) - k : i + k \in DOMAIN log /\ log'[i] = log[i + k]
      BY ONLY <1>0, <2>3, PutFacts, k \in 0 .. Len(log), e \in Events
    <2>5. ASSUME NEW i \in 1 .. pos' PROVE log'[i] \in Range(stored') \cup rotten'
      <3>1. i \in 1 .. Len(log) - k /\ i + k \in 1 .. pos
        BY <1>0, <2>3, <2>5
      <3>q. QED
        BY <1>1, <2>4, <3>1
    <2>q. QED
      BY <2>5
  <1>5. CASE SettleInMemory /\ Fault("cursor") /\ (DrainSkip \/ DrainConfirm)
    <2>1. drain.pc # "peek"
      BY <1>5 DEF DrainSkip, DrainConfirm
    <2>2. HoldsOldest /\ pos' = pos + 1 /\ log' = log
      BY <1>5 DEF SettleInMemory
    <2>3. held = log[pos + 1] /\ held # Dropped
      <3>1. held = log[pos + 1] /\ pos < Len(log)
        BY <2>2 DEF HoldsOldest
      <3>2. held \in Events
        BY <1>0, <3>1, OldestFacts
      <3>q. QED
        BY <3>1, <3>2, SpoolQueueAssumption DEF Dropped
    <2>4. drain.record = log[pos + 1]
      BY <2>1, <2>3 DEF DrainInv, Holding
    <2>5. drain.record \in Range(stored) \cup rotten
      <3>1. CASE DrainSkip
        BY <3>1 DEF DrainSkip
      <3>2. CASE DrainConfirm /\ drain.pc = "acked"
        BY <3>2 DEF DrainInv, Answered
      <3>3. CASE DrainConfirm /\ drain.pc = "flushed"
        <4>1. faults \in [FaultKinds -> Nat] /\ "cursor" \in FaultKinds /\ "stream" \in FaultKinds
          BY <1>0, KindFacts DEF HistoryTyped
        <4>2. faults["stream"] # 0
          BY <3>3 DEF DrainInv, Streaming
        <4>3. faults'["cursor"] = faults["cursor"] + 1 /\ faults'["stream"] = faults["stream"]
          BY <1>5, <4>1, FaultFacts
        <4>4. faults["cursor"] \in Nat
          BY <4>1
        <4>5. faults'["cursor"] # 0 /\ faults'["stream"] # 0
          BY <4>2, <4>3, <4>4
        <4>q. QED
          BY <4>5 DEF Excused
      <3>q. QED
        BY <1>5, <3>1, <3>2, <3>3 DEF DrainConfirm
    <2>6. \A i \in 1 .. pos' : i \in 1 .. pos \/ i = pos + 1
      BY <1>0, <2>2
    <2>q. QED
      BY <1>1, <2>2, <2>4, <2>5, <2>6
  <1>6. CASE DrainPeek \/ Stop \/ Crash
    BY <1>2, <1>3, <1>6 DEF DrainPeek, Take, Stop, Crash, Reopen
  <1>7. CASE DrainSkip \/ DrainConfirm
    <2>1. Advance
      BY <1>7 DEF DrainSkip, DrainConfirm
    <2>2. CASE Settle \/ SettleDropped
      BY <1>2, <1>3, <2>2 DEF Settle, SettleDropped
    <2>q. QED
      BY <1>5, <1>7, <2>1, <2>2 DEF Advance
  <1>8. CASE SpoolAppend \/ SpoolAppendFails
    <2>1. publisher.event \in Events
      BY <1>8 DEF SpoolAppend, SpoolAppendFails, Typed, TasksTyped
    <2>2. UNCHANGED queueVars \/ \E k \in Overflow \cup {0} : Put(publisher.event, k)
      BY <1>8 DEF SpoolAppend, SpoolAppendFails
    <2>3. Overflow \cup {0} \subseteq 0 .. Len(log)
      BY <1>0 DEF Overflow
    <2>q. QED
      BY <1>2, <1>4, <2>1, <2>2, <2>3
  <1>q. QED
    BY <1>2, <1>6, <1>7, <1>8, QueueCases

\* Every step keeps what the spool holds in time, unless there is an excuse.
LEMMA ReplayableStep ==
  ASSUME Typed, Typed', DrainInv, Numbered, Placed, Replayable, Next
  PROVE  Replayable'
  <1> DEFINE Soon(b) == InTime(b, outcome, buffer, stored)
             Then(b) == InTime(b, outcome', buffer', stored')
             Sends == DrainPublish \/ DrainFallback
  <1>0. SUFFICES ASSUME ~Excused'
                 PROVE  /\ Ordered(outcome', buffer', stored')
                        /\ \A i \in DOMAIN log' : log'[i] \in rotten' \/ Then(log'[i])
                        /\ drain'.pc # "peek" => drain'.record \in rotten' \/ Then(drain'.record)
                        /\ \A i \in 1 .. pos' : log'[i] \in Range(stored') \cup rotten'
    BY DEF Replayable, Ordered, InTime, FirstIn, Range
  <1>1. ~Excused
    <2>1. /\ faults \in [FaultKinds -> Nat] /\ faults' \in [FaultKinds -> Nat]
          /\ "cursor" \in FaultKinds /\ "stream" \in FaultKinds
          /\ \A g \in FaultKinds : faults[g] <= faults'[g]
      BY FaultCases, KindFacts DEF Typed, HistoryTyped
    <2>2. /\ faults["cursor"] \in Nat /\ faults["stream"] \in Nat
          /\ faults["cursor"] <= faults'["cursor"] /\ faults["stream"] <= faults'["stream"]
      BY <2>1
    <2>3. faults'["cursor"] = 0 \/ faults'["stream"] = 0
      BY <1>0 DEF Excused
    <2>q. QED
      BY <2>2, <2>3 DEF Excused
  <1>2. /\ Ordered(outcome, buffer, stored)
        /\ \A i \in DOMAIN log : log[i] \in rotten \/ Soon(log[i])
        /\ drain.pc # "peek" => drain.record \in rotten \/ Soon(drain.record)
        /\ \A i \in 1 .. pos : log[i] \in Range(stored) \cup rotten
    BY <1>1 DEF Replayable
  <1>3. Sends => drain.pc # "peek" /\ Soon(drain.record)
    BY <1>2, SentIsSound, Zenon DEF DrainPublish, DrainFallback
  <1>4. /\ Ordered(outcome, buffer, stored) /\ (Sends => Soon(drain.record))
             => Ordered(outcome', buffer', stored')
        /\ \A b : Soon(b) /\ (Sends => (b < drain.record => b \in Range(stored))) => Then(b)
    BY CarryStep
  <1>5. rotten \subseteq rotten'
    BY RottenCases
  <1> HIDE DEF Soon, Then, Sends
  <1>6. \A i \in DOMAIN log' : log'[i] \in rotten' \/ Then(log'[i])
    <2>1. ASSUME NEW j \in DOMAIN log PROVE log[j] \in rotten' \/ Then(log[j])
      <3>1. CASE log[j] \in rotten
        BY <1>5, <3>1
      <3>2. CASE log[j] \notin rotten
        <4>1. Sends => (log[j] < drain.record => log[j] \in Range(stored))
          BY <1>2, <1>3, <3>2, BehindIsDone DEF DrainInv
        <4>q. QED
          BY <1>2, <1>4, <3>2, <4>1
      <3>q. QED
        BY <3>1, <3>2
    <2>2. ASSUME SpoolAppend \/ SpoolAppendFails PROVE Then(publisher.event)
      <3>1. /\ publisher.event \in Events
            /\ Under(publisher.event, log, buffer, stored, drain.record)
            /\ UNCHANGED <<buffer, stored>>
        BY <2>2, AppendCases
      <3>2. stored \in Seq(Events) /\ buffer \in Seq(Messages)
        BY Zenon DEF Typed, BrokerTyped
      <3>3. \A i \in DOMAIN stored : stored[i] \in Events
        BY <3>2, AnySeq
      <3>4. \A i \in DOMAIN buffer : buffer[i] \in Messages
        BY <3>2, AnySeq
      <3>5. \A i \in DOMAIN buffer : buffer[i].event \in Events
        BY <3>4 DEF Messages
      <3>6. /\ \A i \in DOMAIN stored : ~(publisher.event < stored[i])
            /\ \A i \in DOMAIN buffer : ~(publisher.event < buffer[i].event)
        <4>1. publisher.event \in Nat
          BY <3>1, EventsAreNumbers
        <4>2. /\ \A i \in DOMAIN stored : stored[i] \in Nat
              /\ \A i \in DOMAIN buffer : buffer[i].event \in Nat
          BY <3>3, <3>5, EventsAreNumbers
        <4>3. /\ \A i \in DOMAIN stored : stored[i] < publisher.event
              /\ \A i \in DOMAIN buffer : buffer[i].event < publisher.event
          BY <3>1 DEF Under
        <4>q. QED
          BY <4>1, <4>2, <4>3
      <3>q. QED
        BY <3>1, <3>6 DEF Then, InTime, FirstIn
    <2>q. QED
      BY <2>1, <2>2, LogEntries
  <1>7. drain'.pc # "peek" => drain'.record \in rotten' \/ Then(drain'.record)
    <2>1. ASSUME drain.pc # "peek" PROVE drain.record \in rotten' \/ Then(drain.record)
      <3>1. drain.record \in Events
        BY <2>1 DEF Typed, TasksTyped
      <3>2. drain.record \in Nat
        BY <3>1, EventsAreNumbers
      <3>3. ~(drain.record < drain.record)
        BY <3>2
      <3>q. QED
        BY <1>2, <1>4, <1>5, <2>1, <3>3
    <2>2. CASE drain' = drainIdle
      BY <2>2 DEF drainIdle
    <2>3. CASE DrainPeek
      <3>1. CASE held' = None
        BY <2>2, <2>3, <3>1 DEF DrainPeek
      <3>2. CASE held' # None
        <4>1. held' = log[pos + 1] /\ pos < Len(log) /\ log' = log
          BY <2>3, <3>2 DEF DrainPeek, Take
        <4>2. drain' = [pc |-> "verify", record |-> held']
          BY <2>3, <3>2 DEF DrainPeek
        <4>3. drain'.record = log[pos + 1]
          BY <4>1, <4>2
        <4>4. pos + 1 \in DOMAIN log
          BY <4>1, OldestFacts DEF Typed
        <4>q. QED
          BY <1>6, <4>1, <4>3, <4>4
      <3>q. QED
        BY <3>1, <3>2
    <2>q. QED
      BY <2>1, <2>2, <2>3, DrainCases, DrainStays DEF Typed
  <1>8. \A i \in 1 .. pos' : log'[i] \in Range(stored') \cup rotten'
    BY <1>0, <1>2, PassedStep
  <1>q. QED
    BY <1>2, <1>3, <1>4, <1>6, <1>7, <1>8

\* Where it starts: nothing is spooled, stored or on its way.
LEMMA ReplayableInit ==
  ASSUME Init
  PROVE  Numbered /\ Placed /\ Replayable
  <1>1. /\ log = <<>> /\ pos = 0 /\ buffer = <<>> /\ stored = <<>> /\ next = 1
        /\ publisher = Idle /\ drain = drainIdle
    BY DEF Init, QueueInit
  <1>2. drain.pc = "peek" /\ drain.record = 0 /\ publisher.pc = "idle"
    BY <1>1 DEF drainIdle, Idle, None
  <1>3. DOMAIN log = {} /\ DOMAIN buffer = {} /\ DOMAIN stored = {} /\ 1 .. pos = {}
    BY <1>1
  <1>4. Numbered
    BY <1>1, <1>2, <1>3 DEF Numbered, Under
  <1>5. Placed
    BY <1>2, <1>3 DEF Placed, Increasing
  <1>6. Replayable
    BY <1>2, <1>3 DEF Replayable, Ordered
  <1>q. QED
    BY <1>4, <1>5, <1>6

\* spool.rs promises that the spool replays in order: of two spooled events the
\* older is first stored first, whatever the link, a crash, the bound, rotten
\* records and late answers do, and whichever one of the stream and the cursor
\* file fails.
THEOREM ReplayInOrderHolds == Spec => []ReplayInOrder
  <1> DEFINE Inv == Typed /\ DrainInv /\ Numbered /\ Placed /\ Replayable
  <1>1. Init => Inv
    BY TypedInit, DrainInvInit, ReplayableInit
  <1>2. Inv /\ [Next]_runtimeVars => Inv'
    <2>1. ASSUME Inv, [Next]_runtimeVars PROVE (Typed /\ DrainInv)'
      BY <2>1, TypedStep, DrainInvStep
    <2>2. ASSUME Inv, Next PROVE (Numbered /\ Placed /\ Replayable)'
      BY <2>1, <2>2, NumberedStep, PlacedStep, ReplayableStep DEF DrainInv
    <2>3. ASSUME Inv, UNCHANGED runtimeVars PROVE (Numbered /\ Placed /\ Replayable)'
      <3>1. UNCHANGED <<log, pos, held, next, publisher, drain, buffer, stored, outcome, rotten,
                        faults>>
        BY <2>3 DEF runtimeVars
      <3>2. Numbered'
        BY <2>3, <3>1 DEF Numbered, Under
      <3>3. Placed'
        BY <2>3, <3>1 DEF Placed, Increasing
      <3>4. Replayable'
        BY <2>3, <3>1, Zenon DEF Replayable, Excused
      <3>q. QED
        BY <3>2, <3>3, <3>4
    <2>q. QED
      BY <2>1, <2>2, <2>3
  <1>3. ASSUME Inv PROVE ReplayInOrder
    <2>1. SUFFICES ASSUME faults["cursor"] = 0 \/ faults["stream"] = 0,
                          NEW i \in DOMAIN stored, NEW j \in DOMAIN stored,
                          outcome[stored[i]] = "spooled", outcome[stored[j]] = "spooled",
                          i < j, stored[i] > stored[j]
                   PROVE  \E h \in 1 .. i - 1 : stored[h] = stored[j]
      BY DEF ReplayInOrder
    <2>2. FirstIn(stored[j], outcome, stored)
      BY <1>3, <2>1 DEF Replayable, Excused, Ordered
    <2>3. stored[i] \in Events /\ stored[j] \in Events
      BY <1>3, AnySeq, Zenon DEF Typed, BrokerTyped
    <2>a. stored[i] \in Nat /\ stored[j] \in Nat
      BY <2>3, EventsAreNumbers
    <2>4. stored[j] < stored[i]
      BY <2>1, <2>a
    <2>q. QED
      BY <2>1, <2>2, <2>4 DEF FirstIn
  <1>q. QED
    BY <1>1, <1>2, <1>3, PTL DEF Spec

----------------------------------------------------------------------------
(* The duplicate window absorbs every repetition. *)

INSTANCE FiniteSetTheorems

\* Repetitions in the stream so far, and stored events whose id has left the
\* window and which may be stored again: as many as ids have left it.
Repeats(s, w) == Len(s) - Cardinality(Range(s)) + Cardinality(Range(s) \ w)
Absorbed ==
  /\ IsFiniteSet(Range(stored))
  /\ Repeats(stored, window) <= faults["window"]

\* Storing an event whose id is not in the window uses up one such id, or none.
LEMMA RepeatsStore ==
  ASSUME NEW s \in Seq(Events), IsFiniteSet(Range(s)), NEW w \in SUBSET Range(s),
         NEW e \in Events, e \notin w
  PROVE  /\ IsFiniteSet(Range(Append(s, e)))
         /\ Repeats(Append(s, e), w \cup {e}) = Repeats(s, w)
  <1> DEFINE T == Range(s)
             T2 == Range(Append(s, e))
             w2 == w \cup {e}
  <1>1. T2 = T \cup {e} /\ Len(Append(s, e)) = Len(s) + 1 /\ Len(s) \in Nat
    BY ToSetAppend, AnyAppend
  <1>2. IsFiniteSet(T) /\ IsFiniteSet(T \ w)
    BY FS_Subset
  <1>a. T2 \ w2 = (T \ w) \ {e}
    BY <1>1
  <1> HIDE DEF T, T2, w2
  <1>3. /\ IsFiniteSet(T2)
        /\ Cardinality(T2) = IF e \in T THEN Cardinality(T) ELSE Cardinality(T) + 1
    BY <1>1, <1>2, FS_AddElement
  <1>4. Cardinality(T2 \ w2) = IF e \in T \ w THEN Cardinality(T \ w) - 1 ELSE Cardinality(T \ w)
    BY <1>2, <1>a, FS_RemoveElement, Zenon
  <1>5. Cardinality(T) \in Nat /\ Cardinality(T \ w) \in Nat
    BY <1>2, FS_CardinalityType
  <1>6. Len(s) + 1 - Cardinality(T2) + Cardinality(T2 \ w2)
          = Len(s) - Cardinality(T) + Cardinality(T \ w)
    BY <1>1, <1>3, <1>4, <1>5
  <1> DEFINE n2 == Len(Append(s, e))
             r2 == Repeats(Append(s, e), w \cup {e})
             r1 == Repeats(s, w)
  <1>7. /\ r2 = n2 - Cardinality(T2) + Cardinality(T2 \ w2)
        /\ r1 = Len(s) - Cardinality(T) + Cardinality(T \ w)
    BY DEF T, T2, w2, Repeats
  <1>8. n2 = Len(s) + 1
    BY <1>1
  <1> HIDE DEF n2, r2, r1
  <1>9. r2 = r1
    <2>1. /\ Len(s) \in Int /\ Cardinality(T2) \in Int /\ Cardinality(T2 \ w2) \in Int
          /\ Cardinality(T) \in Int /\ Cardinality(T \ w) \in Int
      BY <1>1, <1>3, <1>4, <1>5
    <2>q. QED
      BY ONLY <1>6, <1>7, <1>8, <2>1
  <1>q. QED
    BY <1>3, <1>9 DEF T2, r2, r1

\* An id that leaves the window may be stored once more.
LEMMA RepeatsPass ==
  ASSUME NEW s \in Seq(Events), IsFiniteSet(Range(s)), NEW w \in SUBSET Range(s), NEW e \in w
  PROVE  Repeats(s, w \ {e}) = Repeats(s, w) + 1 /\ Repeats(s, w) \in Int
  <1> DEFINE T == Range(s)
  <1>1. IsFiniteSet(T) /\ IsFiniteSet(T \ w)
    BY FS_Subset
  <1>2. T \ (w \ {e}) = (T \ w) \cup {e} /\ e \notin T \ w
    OBVIOUS
  <1> HIDE DEF T
  <1>3. Cardinality(T \ (w \ {e})) = Cardinality(T \ w) + 1
    BY <1>1, <1>2, FS_AddElement, Zenon
  <1>4. Cardinality(T) \in Nat /\ Cardinality(T \ w) \in Nat
    BY <1>1, FS_CardinalityType
  <1>5. Len(s) \in Nat
    BY AnySeq
  <1>q. QED
    BY <1>3, <1>4, <1>5 DEF T, Repeats

\* Every step keeps the count.
LEMMA AbsorbedStep ==
  ASSUME Typed, WindowStored, Absorbed, [Next]_runtimeVars
  PROVE  Absorbed'
  <1>0. BrokerTyped /\ HistoryTyped /\ stored \in Seq(Events) /\ faults \in [FaultKinds -> Nat]
    BY Zenon DEF Typed, BrokerTyped, HistoryTyped
  <1>a. /\ window \in SUBSET Range(stored) /\ IsFiniteSet(Range(stored))
        /\ Repeats(stored, window) <= faults["window"]
    BY DEF WindowStored, Absorbed
  <1>b. "window" \in FaultKinds
    BY KindFacts
  <1>c. Repeats(stored, window) \in Int
    <2>1. Len(stored) \in Nat
      BY <1>0, AnySeq
    <2>2. IsFiniteSet(Range(stored) \ window)
      BY <1>a, FS_Subset
    <2>3. Cardinality(Range(stored)) \in Nat /\ Cardinality(Range(stored) \ window) \in Nat
      BY <1>a, <2>2, FS_CardinalityType
    <2>q. QED
      BY <2>1, <2>3 DEF Repeats
  <1>s. SUFFICES IsFiniteSet(Range(stored')) /\ Repeats(stored', window') <= faults'["window"]
    BY DEF Absorbed, Repeats, Range
  <1>1. CASE Next
    <2>1. faults["window"] <= faults'["window"] /\ faults["window"] \in Nat /\ faults'["window"] \in Nat
      BY <1>0, <1>1, <1>b, FaultCases
    <2>2. CASE UNCHANGED <<stored, window>>
      BY <1>a, <1>c, <2>1, <2>2
    <2>3. CASE WindowPasses
      <3>1. PICK e \in window : window' = window \ {e}
        BY <2>3 DEF WindowPasses
      <3>2. UNCHANGED stored /\ faults'["window"] = faults["window"] + 1
        BY <1>0, <1>b, <2>3, FaultFacts DEF WindowPasses
      <3>3. Repeats(stored, window') = Repeats(stored, window) + 1
        BY <1>0, <1>a, <3>1, RepeatsPass
      <3>q. QED
        BY <1>a, <1>c, <2>1, <3>2, <3>3
    <2>4. CASE BrokerReceives
      <3>1. CASE ~stream
        BY <1>0, <2>2, <2>4, <3>1, ReceiveFacts, Zenon
      <3>2. CASE stream /\ buffer[1].event \in window
        <4>1. stored' = stored /\ window' = window \cup {buffer[1].event}
          BY <1>0, <2>4, <3>2, ReceiveFacts
        <4>2. window' = window
          BY <3>2, <4>1
        <4>q. QED
          BY <2>2, <4>1, <4>2
      <3>3. CASE stream /\ buffer[1].event \notin window
        <4> DEFINE e == buffer[1].event
        <4>1. e \in Events /\ stored' = Append(stored, e) /\ window' = window \cup {e} /\ e \notin window
          BY <1>0, <2>4, <3>3, ReceiveFacts
        <4> HIDE DEF e
        <4>2. /\ IsFiniteSet(Range(Append(stored, e)))
              /\ Repeats(Append(stored, e), window \cup {e}) = Repeats(stored, window)
          BY <1>0, <1>a, <4>1, RepeatsStore
        <4>q. QED
          BY <1>a, <1>c, <2>1, <4>1, <4>2
      <3>q. QED
        BY <3>1, <3>2, <3>3
    <2>5. CASE UNCHANGED window /\ ~BrokerReceives
      BY <1>0, <1>1, <2>2, <2>5, StoredCases
    <2>q. QED
      BY <1>1, <2>3, <2>4, <2>5, WindowCases
  <1>2. CASE UNCHANGED runtimeVars
    BY <1>a, <1>2 DEF runtimeVars
  <1>q. QED
    BY <1>1, <1>2

\* ingest_headers puts the event id in every message, so the stream's duplicate
\* window absorbs every retry of the drain and every replay after a crash: for
\* each repetition in the stream, an id has left the window.
THEOREM StoredOnceHolds == Spec => []StoredOnce
  <1>1. Init => Typed /\ DrainInv /\ Absorbed
    <2>1. ASSUME Init PROVE Absorbed
      <3>1. stored = <<>> /\ faults["window"] = 0
        BY <2>1, KindFacts DEF Init
      <3>2. Range(<<>>) = {} /\ Len(<<>>) = 0
        BY DEF Range
      <3>3. {} \ window = {}
        OBVIOUS
      <3>4. IsFiniteSet({}) /\ Cardinality({}) = 0
        BY FS_EmptySet
      <3>5. /\ IsFiniteSet(Range(stored)) /\ Len(stored) = 0 /\ Cardinality(Range(stored)) = 0
            /\ Cardinality(Range(stored) \ window) = 0
        BY <3>1, <3>2, <3>3, <3>4, Zenon
      <3>q. QED
        BY <3>1, <3>5 DEF Absorbed, Repeats
    <2>q. QED
      BY <2>1, TypedInit, DrainInvInit
  <1>2. Typed /\ DrainInv /\ Absorbed /\ [Next]_runtimeVars => (Typed /\ DrainInv /\ Absorbed)'
    BY TypedStep, DrainInvStep, AbsorbedStep DEF DrainInv
  <1>3. ASSUME Typed, DrainInv, Absorbed PROVE StoredOnce
    <2>1. stored \in Seq(Events) /\ faults["window"] \in Nat
      BY <1>3, KindFacts, Zenon DEF Typed, BrokerTyped, HistoryTyped
    <2>2. Len(stored) \in Nat
      BY <2>1, AnySeq
    <2>3. IsFiniteSet(Range(stored)) /\ IsFiniteSet(Range(stored) \ window)
      BY <1>3, FS_Subset DEF Absorbed
    <2>4. Cardinality(Range(stored)) \in Nat /\ Cardinality(Range(stored) \ window) \in Nat
      BY <2>3, FS_CardinalityType
    <2>q. QED
      BY <1>3, <2>1, <2>2, <2>4 DEF Absorbed, Repeats, StoredOnce
  <1>q. QED
    BY <1>1, <1>2, <1>3, PTL DEF Spec
=============================================================================
