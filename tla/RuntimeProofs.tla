--------------------------- MODULE RuntimeProofs ---------------------------
(***************************************************************************)
(* Proofs about the connector runtime: what is counted as spooled is not   *)
(* lost, and what is drained on an answer is stored, for any set of        *)
(* events, any size of the client's buffer and of the spool, and any       *)
(* number of faults.  ReplayProofs goes on to the order of the replay and  *)
(* to the duplicate window.                                                *)
(***************************************************************************)
EXTENDS Runtime, TLAPS

(* Sequences: their entries, and what the operators do to them. *)

\* A sequence, its indices and its entries.
LEMMA AnySeq ==
  ASSUME NEW S, NEW s \in Seq(S)
  PROVE  Len(s) \in Nat /\ DOMAIN s = 1 .. Len(s) /\ \A i \in 1 .. Len(s) : s[i] \in S
  OBVIOUS

\* A sequence is a function on the numbers up to its length.
LEMMA AnyFunction ==
  ASSUME NEW S, NEW n \in Nat, NEW f \in [1 .. n -> S]
  PROVE  f \in Seq(S) /\ Len(f) = n
  OBVIOUS

\* Adding one entry, as a sequence of one.
LEMMA AnyBehind ==
  ASSUME NEW S, NEW s \in Seq(S), NEW x \in S
  PROVE  Append(s, x) = s \o <<x>>
  OBVIOUS

\* The front of a sequence, and the entries behind it.
LEMMA AnyTail ==
  ASSUME NEW S, NEW s \in Seq(S), s # <<>>
  PROVE  /\ Tail(s) \in Seq(S) /\ Len(Tail(s)) = Len(s) - 1
         /\ 1 \in DOMAIN s /\ s[1] \in S
         /\ \A i \in DOMAIN Tail(s) : i + 1 \in DOMAIN s /\ Tail(s)[i] = s[i + 1]
  <1>1. Len(s) \in Nat /\ DOMAIN s = 1 .. Len(s) /\ Len(s) # 0
    BY AnySeq
  <1>2. Tail(s) \in Seq(S) /\ Len(Tail(s)) = Len(s) - 1
    OBVIOUS
  <1>3. DOMAIN Tail(s) = 1 .. Len(s) - 1
    BY <1>2, AnySeq
  <1>4. \A i \in 1 .. Len(s) - 1 : Tail(s)[i] = s[i + 1]
    BY <1>1
  <1>5. 1 \in DOMAIN s /\ \A i \in 1 .. Len(s) - 1 : i + 1 \in DOMAIN s
    BY <1>1
  <1>q. QED
    BY <1>1, <1>2, <1>3, <1>4, <1>5, AnySeq

\* The entries of a sequence with one more at the back.
LEMMA AnyAppend ==
  ASSUME NEW S, NEW s \in Seq(S), NEW x \in S
  PROVE  /\ Append(s, x) \in Seq(S) /\ Len(Append(s, x)) = Len(s) + 1 /\ Len(s) \in Nat
         /\ Append(s, x) # <<>>
         /\ \A i \in DOMAIN s : Append(s, x)[i] = s[i]
         /\ Append(s, x)[Len(s) + 1] = x
         /\ \A i \in DOMAIN Append(s, x) : i \in DOMAIN s \/ i = Len(s) + 1
  <1>1. Len(s) \in Nat /\ DOMAIN s = 1 .. Len(s)
    BY AnySeq
  <1>2. Append(s, x) \in Seq(S) /\ Len(Append(s, x)) = Len(s) + 1
    OBVIOUS
  <1>3. DOMAIN Append(s, x) = 1 .. Len(s) + 1
    BY <1>2, AnySeq
  <1>4. (\A i \in DOMAIN s : Append(s, x)[i] = s[i]) /\ Append(s, x)[Len(s) + 1] = x
    BY <1>1
  <1>5. \A i \in 1 .. Len(s) + 1 : i \in 1 .. Len(s) \/ i = Len(s) + 1
    BY <1>1
  <1>6. Append(s, x) # <<>>
    BY <1>1, <1>2
  <1>q. QED
    BY <1>1, <1>2, <1>3, <1>4, <1>5, <1>6

\* The same, entry by entry.
LEMMA EachAppended ==
  ASSUME NEW S, NEW s \in Seq(S), NEW x \in S, NEW t, t = Append(s, x)
  PROVE  \A i \in DOMAIN t : \/ i \in DOMAIN s /\ t[i] = s[i]
                             \/ i = Len(s) + 1 /\ t[i] = x
  BY AnyAppend

\* A slice of a sequence, perhaps an empty one.
LEMMA AnySlice ==
  ASSUME NEW S, NEW s \in Seq(S), NEW m \in Nat \ {0}, NEW n \in Nat, m <= n + 1, n <= Len(s)
  PROVE  /\ SubSeq(s, m, n) \in Seq(S) /\ Len(SubSeq(s, m, n)) = n - m + 1
         /\ n - m + 1 \in Nat /\ DOMAIN SubSeq(s, m, n) = 1 .. n - m + 1
         /\ \A i \in 1 .. n - m + 1 : m + i - 1 \in DOMAIN s /\ SubSeq(s, m, n)[i] = s[m + i - 1]
  <1>1. Len(s) \in Nat /\ DOMAIN s = 1 .. Len(s) /\ \A i \in 1 .. Len(s) : s[i] \in S
    BY AnySeq
  <1>2. m \in Int /\ n \in Int /\ \A i \in m .. n : s[i] \in S
    BY <1>1
  <1>3. /\ SubSeq(s, m, n) \in Seq(S)
        /\ Len(SubSeq(s, m, n)) = IF m <= n THEN n - m + 1 ELSE 0
        /\ \A i \in 1 .. n - m + 1 : SubSeq(s, m, n)[i] = s[m + i - 1]
    BY ONLY <1>2
  <1>4. Len(SubSeq(s, m, n)) = n - m + 1 /\ n - m + 1 \in Nat
    BY <1>3
  <1>5. \A i \in 1 .. n - m + 1 : m + i - 1 \in DOMAIN s
    BY <1>1
  <1>6. DOMAIN SubSeq(s, m, n) = 1 .. Len(SubSeq(s, m, n))
    BY <1>3
  <1>q. QED
    BY <1>3, <1>4, <1>5, <1>6

----------------------------------------------------------------------------

\* What travels to the broker: ingest_headers puts the event's id beside it.
Messages == {m \in [event : Events, id : Events, reply : BOOLEAN] : m.id = m.event}

DrainPcs == {"peek", "verify", "await", "acked", "fallback", "flush", "flushed"}

\* The type invariant, one conjunct per part of the runtime.
QueueTyped ==
  /\ log \in Seq(Events)
  /\ pos \in 0 .. Len(log)
  /\ held \in Events \cup {None, Dropped}
TasksTyped ==
  /\ next \in Nat
  /\ publisher \in [pc : {"idle", "publish", "spool", "flush"}, event : Events \cup {None}]
  /\ publisher.pc \in {"publish", "spool"} => publisher.event \in Events
  /\ drain \in [pc : DrainPcs, record : Events \cup {None}]
  /\ drain.pc # "peek" => drain.record \in Events
  /\ js_mode \in BOOLEAN
BrokerTyped ==
  /\ buffer \in Seq(Messages)
  /\ ack \in {"none", "acked", "no responders"}
  /\ stream \in BOOLEAN
  /\ stored \in Seq(Events)
HistoryTyped ==
  /\ outcome \in [Events -> Outcomes]
  /\ replayed \subseteq [event : Events, how : {"acked", "flushed"}, stream : BOOLEAN]
  /\ faults \in [FaultKinds -> Nat]
Typed == QueueTyped /\ TasksTyped /\ BrokerTyped /\ HistoryTyped

USE DEF fixedVars, queueVars, clientVars, brokerVars, historyVars

----------------------------------------------------------------------------
(* The parts a step is made of. *)

\* A fault is counted, and no other kind with it.
LEMMA FaultFacts ==
  ASSUME faults \in [FaultKinds -> Nat], NEW f \in FaultKinds, Fault(f)
  PROVE  /\ faults' \in [FaultKinds -> Nat]
         /\ \A g \in FaultKinds : faults'[g] = IF g = f THEN faults[g] + 1 ELSE faults[g]
  BY DEF Fault

\* Every kind of fault is counted.
LEMMA KindFacts ==
  {"link", "stream", "window", "crash", "append", "cursor", "rot", "late", "stop"}
    \subseteq FaultKinds
  BY DEF FaultKinds

\* append: where the old records and the new one are.
LEMMA PutFacts ==
  ASSUME NEW s \in Seq(Events), NEW e \in Events, NEW k \in 0 .. Len(s),
         NEW t, t = SubSeq(s, k + 1, Len(s)) \o <<e>>
  PROVE  /\ t \in Seq(Events) /\ Len(t) = Len(s) - k + 1 /\ Len(s) \in Nat
         /\ \A i \in 1 .. Len(s) - k : i + k \in DOMAIN s /\ t[i] = s[i + k]
  <1> DEFINE n == Len(s)
             u == SubSeq(s, k + 1, n)
  <1>1. n \in Nat
    BY AnySeq
  <1> HIDE DEF n
  <1>2. k + 1 \in Nat \ {0} /\ k + 1 <= n + 1 /\ n <= Len(s)
    BY <1>1 DEF n
  <1>3. /\ u \in Seq(Events) /\ Len(u) = n - (k + 1) + 1
        /\ \A i \in 1 .. n - (k + 1) + 1 : k + 1 + i - 1 \in DOMAIN s /\ u[i] = s[k + 1 + i - 1]
    BY ONLY <1>1, <1>2, AnySlice, s \in Seq(Events)
  <1>4. k \in Nat /\ k <= n
    BY <1>1 DEF n
  <1>5. n - (k + 1) + 1 = n - k /\ \A i \in 1 .. n - k : k + 1 + i - 1 = i + k
    BY <1>1, <1>4
  <1>6. t = u \o <<e>>
    BY DEF n
  <1> HIDE DEF u
  <1>7. /\ Len(u) = n - k
        /\ \A i \in 1 .. n - k : i + k \in DOMAIN s /\ u[i] = s[i + k]
    BY <1>3, <1>5
  <1>8. u \in Seq(Events) /\ Append(u, e) = u \o <<e>>
    BY <1>3, AnyBehind
  <1>9. /\ Append(u, e) \in Seq(Events) /\ Len(Append(u, e)) = Len(u) + 1
        /\ \A i \in DOMAIN u : Append(u, e)[i] = u[i]
        /\ Append(u, e)[Len(u) + 1] = e
    BY <1>8, AnyAppend
  <1>10. DOMAIN u = 1 .. n - k
    BY <1>7, <1>8, AnySeq
  <1>11. t = Append(u, e)
    BY <1>6, <1>8, Zenon
  <1>q. QED
    BY <1>1, <1>7, <1>9, <1>10, <1>11 DEF n

\* ... the new one last.
LEMMA PutLast ==
  ASSUME NEW s \in Seq(Events), NEW e \in Events, NEW k \in 0 .. Len(s),
         NEW t, t = SubSeq(s, k + 1, Len(s)) \o <<e>>
  PROVE  t[Len(t)] = e
  <1> DEFINE n == Len(s)
             u == SubSeq(s, k + 1, n)
  <1>1. n \in Nat /\ n <= Len(s)
    BY AnySeq
  <1>2. k + 1 \in Nat \ {0} /\ k + 1 <= n + 1
    BY <1>1
  <1>3. t = u \o <<e>>
    OBVIOUS
  <1> HIDE DEF n
  <1>4. u \in Seq(Events)
    BY ONLY <1>1, <1>2, AnySlice, s \in Seq(Events)
  <1> HIDE DEF u
  <1>5. Append(u, e) = u \o <<e>>
    BY <1>4, AnyBehind
  <1>6. t = Append(u, e)
    BY <1>3, <1>5, Zenon
  <1>7. Append(u, e)[Len(u) + 1] = e /\ Len(Append(u, e)) = Len(u) + 1
    BY <1>4, AnyAppend
  <1>q. QED
    BY <1>6, <1>7, Zenon

\* A publish that awaits an answer changes no message but for the answer.
LEMMA UnansweredFacts ==
  ASSUME NEW q \in Seq(Messages)
  PROVE  /\ Unanswered(q) \in Seq(Messages) /\ Len(Unanswered(q)) = Len(q)
         /\ DOMAIN Unanswered(q) = DOMAIN q
         /\ \A i \in DOMAIN q : /\ Unanswered(q)[i].event = q[i].event
                                /\ Unanswered(q)[i].reply = FALSE
  <1>1. Len(q) \in Nat /\ DOMAIN q = 1 .. Len(q) /\ \A i \in 1 .. Len(q) : q[i] \in Messages
    BY AnySeq
  <1>2. ASSUME NEW i \in 1 .. Len(q)
        PROVE  /\ [q[i] EXCEPT !.reply = FALSE] \in Messages
               /\ [q[i] EXCEPT !.reply = FALSE].event = q[i].event
               /\ [q[i] EXCEPT !.reply = FALSE].reply = FALSE
    BY <1>1, Zenon DEF Messages
  <1>3. Unanswered(q) = [i \in 1 .. Len(q) |-> [q[i] EXCEPT !.reply = FALSE]]
    BY <1>1 DEF Unanswered
  <1>4. Unanswered(q) \in [1 .. Len(q) -> Messages]
    BY <1>2, <1>3
  <1>5. Unanswered(q) \in Seq(Messages) /\ DOMAIN Unanswered(q) = 1 .. Len(q)
    BY <1>1, <1>4, AnyFunction
  <1>6. Len(Unanswered(q)) = Len(q)
    BY <1>1, <1>5, AnySeq
  <1>q. QED
    BY <1>1, <1>2, <1>3, <1>5, <1>6, Zenon

\* A message is well formed.
LEMMA MessageFacts ==
  ASSUME NEW e \in Events
  PROVE  /\ Message(e, TRUE) \in Messages
         /\ Message(e, TRUE).event = e /\ Message(e, TRUE).reply = TRUE
         /\ Message(e, FALSE) \in Messages
         /\ Message(e, FALSE).event = e /\ Message(e, FALSE).reply = FALSE
  BY DEF Message, Messages

----------------------------------------------------------------------------
(* The type invariant. *)

\* The steps that touch the spool.
LEMMA QueueCases ==
  ASSUME Next
  PROVE  \/ UNCHANGED queueVars
         \/ SpoolAppend \/ SpoolAppendFails
         \/ DrainPeek \/ DrainSkip \/ DrainConfirm
         \/ Stop \/ Crash
  <1>1. CASE Publishing
    BY <1>1, Zenon DEF Publishing, Receive, PublishOk, PublishStalls
  <1>2. CASE Signal \/ Stop \/ RecordRots \/ Crash
    BY <1>2 DEF Signal, RecordRots
  <1>3. CASE Draining
    BY <1>3, Zenon DEF Draining, DrainPublish, DrainAcked, DrainNoResponders, DrainAckTimeout,
         DrainFallback, DrainFlushed
  <1>4. CASE Network
    BY <1>4, Zenon DEF Network, LinkDrops, ClientNotices, Reconnects, BrokerReceives, WindowPasses,
         StreamGoes, StreamReturns
  <1>q. QED
    BY <1>1, <1>2, <1>3, <1>4 DEF Next

\* append keeps the spool well formed.
LEMMA PutTyped ==
  ASSUME QueueTyped, NEW e \in Events, NEW k \in 0 .. Len(log), Put(e, k)
  PROVE  QueueTyped'
  <1>1. log' = SubSeq(log, k + 1, Len(log)) \o <<e>> /\ log \in Seq(Events)
    BY DEF Put, QueueTyped
  <1>2. log' \in Seq(Events) /\ Len(log') = Len(log) - k + 1 /\ Len(log) \in Nat
    BY <1>1, PutFacts
  <1>3. pos \in 0 .. Len(log) /\ pos' = (IF pos > k THEN pos - k ELSE 0)
    BY DEF Put, QueueTyped
  <1>4. pos' \in 0 .. Len(log')
    BY <1>2, <1>3
  <1>5. held' \in Events \cup {None, Dropped}
    BY DEF Put, QueueTyped
  <1>q. QED
    BY <1>2, <1>4, <1>5 DEF QueueTyped

\* The record at the cursor, and the backlog behind it.
LEMMA OldestFacts ==
  ASSUME QueueTyped, pos < Len(log)
  PROVE  /\ pos + 1 \in DOMAIN log /\ log[pos + 1] \in Events
         /\ SubSeq(log, pos + 2, Len(log)) \in Seq(Events)
         /\ Len(SubSeq(log, pos + 2, Len(log))) = Len(log) - pos - 1
         /\ \A i \in 1 .. Len(log) - pos - 1 :
              /\ i + pos + 1 \in DOMAIN log
              /\ SubSeq(log, pos + 2, Len(log))[i] = log[i + pos + 1]
  <1>1. log \in Seq(Events) /\ pos \in 0 .. Len(log)
    BY DEF QueueTyped
  <1>2. Len(log) \in Nat /\ DOMAIN log = 1 .. Len(log) /\ \A i \in 1 .. Len(log) : log[i] \in Events
    BY <1>1, AnySeq
  <1>3. pos \in Nat /\ pos + 1 \in 1 .. Len(log)
    BY <1>1, <1>2
  <1> DEFINE n == Len(log)
             m == pos + 2
  <1>4. n \in Nat /\ m \in Nat \ {0} /\ m <= n + 1 /\ n <= Len(log) /\ log \in Seq(Events)
    BY <1>1, <1>2, <1>3
  <1>5. n - m + 1 = n - pos - 1 /\ \A i \in 1 .. n - pos - 1 : m + i - 1 = i + pos + 1
    BY <1>2, <1>3
  <1> HIDE DEF n, m
  <1>6. /\ SubSeq(log, m, n) \in Seq(Events) /\ Len(SubSeq(log, m, n)) = n - m + 1
        /\ \A i \in 1 .. n - m + 1 : m + i - 1 \in DOMAIN log /\ SubSeq(log, m, n)[i] = log[m + i - 1]
    BY ONLY <1>4, AnySlice
  <1>q. QED
    BY <1>2, <1>3, <1>5, <1>6 DEF n, m

\* advance keeps the spool well formed.
LEMMA AdvanceTyped ==
  ASSUME QueueTyped, Advance
  PROVE  QueueTyped'
  <1>1. CASE Settle
    <2>1. log' = SubSeq(log, pos + 2, Len(log)) /\ pos' = 0 /\ held' = None /\ pos < Len(log)
      BY <1>1 DEF Settle, HoldsOldest
    <2>2. log' \in Seq(Events)
      BY <2>1, OldestFacts
    <2>3. Len(log') \in Nat
      BY <2>2, AnySeq
    <2>q. QED
      BY <2>1, <2>2, <2>3 DEF QueueTyped
  <1>2. CASE SettleInMemory
    <2>1. UNCHANGED log /\ pos' = pos + 1 /\ held' = None /\ pos < Len(log)
      BY <1>2 DEF SettleInMemory, HoldsOldest
    <2>2. log \in Seq(Events) /\ pos \in 0 .. Len(log)
      BY DEF QueueTyped
    <2>3. Len(log) \in Nat
      BY <2>2, AnySeq
    <2>4. pos' \in 0 .. Len(log')
      BY <2>1, <2>2, <2>3
    <2>q. QED
      BY <2>1, <2>2, <2>4 DEF QueueTyped
  <1>3. CASE SettleDropped
    BY <1>3 DEF SettleDropped, QueueTyped
  <1>q. QED
    BY <1>1, <1>2, <1>3 DEF Advance

\* Every step keeps the spool well formed.
LEMMA QueueTypedStep ==
  ASSUME QueueTyped, TasksTyped, Next
  PROVE  QueueTyped'
  <1>0. log \in Seq(Events)
    BY DEF QueueTyped
  <1>1. Len(log) \in Nat
    BY <1>0, AnySeq
  <1>2. CASE UNCHANGED queueVars
    BY <1>2 DEF QueueTyped
  <1>3. CASE SpoolAppend
    <2>1. PICK k \in Overflow : Put(publisher.event, k)
      BY <1>3 DEF SpoolAppend
    <2>2. k \in 0 .. Len(log)
      BY <1>1 DEF Overflow
    <2>3. publisher.event \in Events
      BY <1>3 DEF SpoolAppend, TasksTyped
    <2>q. QED
      BY <2>1, <2>2, <2>3, PutTyped
  <1>4. CASE SpoolAppendFails
    <2>1. publisher.event \in Events /\ (UNCHANGED queueVars \/ Put(publisher.event, 0))
      BY <1>4 DEF SpoolAppendFails, TasksTyped
    <2>2. 0 \in 0 .. Len(log)
      BY <1>1
    <2>3. CASE Put(publisher.event, 0)
      BY <2>1, <2>2, <2>3, PutTyped
    <2>q. QED
      BY <1>2, <2>1, <2>3
  <1>5. CASE DrainPeek
    <2>1. UNCHANGED <<log, pos>> /\ held' = (IF pos < Len(log) THEN log[pos + 1] ELSE None)
      BY <1>5 DEF DrainPeek, Take
    <2>2. held' \in Events \cup {None, Dropped}
      BY <2>1, OldestFacts
    <2>q. QED
      BY <2>1, <2>2 DEF QueueTyped
  <1>6. CASE DrainSkip \/ DrainConfirm
    BY <1>6, AdvanceTyped DEF DrainSkip, DrainConfirm
  <1>7. CASE Stop \/ Crash
    BY <1>0, <1>1, <1>7 DEF Stop, Crash, Reopen, QueueTyped
  <1>q. QED
    BY <1>2, <1>3, <1>4, <1>5, <1>6, <1>7, QueueCases

\* Every step keeps the main loop and the drain where they can be.
LEMMA TasksTypedStep ==
  ASSUME QueueTyped, TasksTyped, Next
  PROVE  TasksTyped'
  <1>1. CASE Receive
    BY <1>1, SpoolQueueAssumption DEF Receive, TasksTyped
  <1>2. CASE PublishOk \/ SpoolAppend \/ SpoolAppendFails \/ Signal
    <2>1. UNCHANGED <<next, drain, js_mode>>
      BY <1>2, Zenon DEF PublishOk, SpoolAppend, SpoolAppendFails, Signal
    <2>2. publisher' = Idle \/ publisher' = [pc |-> "flush", event |-> None]
      BY <1>2, Zenon DEF PublishOk, SpoolAppend, SpoolAppendFails, Signal
    <2>q. QED
      BY <2>1, <2>2 DEF Idle, TasksTyped
  <1>3. CASE PublishStalls
    BY <1>3 DEF PublishStalls, Idle, TasksTyped
  <1>4. CASE Stop \/ Crash
    <2>1. UNCHANGED next /\ publisher' = Idle /\ drain' = drainIdle /\ js_mode' = TRUE
      BY <1>4 DEF Stop, Crash, drainIdle
    <2>q. QED
      BY <2>1 DEF Idle, drainIdle, TasksTyped, DrainPcs
  <1>5. CASE DrainPeek
    <2>1. held' = IF pos < Len(log) THEN log[pos + 1] ELSE None
      BY <1>5 DEF DrainPeek, Take
    <2>2. held' # None => held' \in Events
      BY <2>1, OldestFacts
    <2>q. QED
      BY <1>5, <2>2 DEF DrainPeek, drainIdle, TasksTyped, DrainPcs
  <1>6. CASE DrainSkip \/ DrainConfirm \/ DrainAckTimeout
    BY <1>6 DEF DrainSkip, DrainConfirm, DrainAckTimeout, drainIdle, TasksTyped, DrainPcs
  <1>7. CASE DrainPublish \/ DrainAcked \/ DrainNoResponders
    BY <1>7, Zenon DEF DrainPublish, DrainAcked, DrainNoResponders, TasksTyped, DrainPcs
  <1>8. CASE DrainFallback \/ DrainFlushed
    BY <1>8, Zenon DEF DrainFallback, DrainFlushed, TasksTyped, DrainPcs
  <1>9. CASE Network \/ RecordRots
    BY <1>9, Zenon DEF Network, LinkDrops, ClientNotices, Reconnects, BrokerReceives, WindowPasses,
         StreamGoes, StreamReturns, RecordRots, TasksTyped
  <1>q. QED
    BY <1>1, <1>2, <1>3, <1>4, <1>5, <1>6, <1>7, <1>8, <1>9 DEF Next, Publishing, Draining

\* What is left of a buffer: a run of its messages, perhaps no longer awaited.
Remains(r, q) ==
  \E k \in Nat :
    /\ Len(r) + k <= Len(q)
    /\ \A i \in DOMAIN r : /\ i + k \in DOMAIN q
                           /\ r[i].event = q[i + k].event
                           /\ r[i].reply => q[i + k].reply

\* The whole of a buffer remains, and so does the whole of what is unanswered.
LEMMA WholeRemains ==
  ASSUME NEW q \in Seq(Messages)
  PROVE  Remains(q, q) /\ Remains(Unanswered(q), q) /\ Remains(<<>>, q)
  <1>1. Len(q) \in Nat /\ DOMAIN q = 1 .. Len(q) /\ 0 \in Nat
    BY AnySeq
  <1>2. Len(q) + 0 <= Len(q) /\ \A i \in DOMAIN q : i + 0 = i
    BY <1>1
  <1>3. Remains(q, q)
    BY <1>1, <1>2 DEF Remains
  <1>4. Remains(Unanswered(q), q)
    <2>1. /\ Len(Unanswered(q)) + 0 <= Len(q)
          /\ \A i \in DOMAIN Unanswered(q) :
               /\ i + 0 \in DOMAIN q
               /\ Unanswered(q)[i].event = q[i + 0].event
               /\ Unanswered(q)[i].reply => q[i + 0].reply
      BY <1>2, UnansweredFacts, ZenonT(40)
    <2>q. QED
      BY <1>1, <2>1, Zenon DEF Remains
  <1>5. Len(<<>>) + 0 <= Len(q) /\ \A i \in DOMAIN <<>> : FALSE
    BY <1>1
  <1>6. Remains(<<>>, q)
    BY <1>1, <1>5 DEF Remains
  <1>q. QED
    BY <1>3, <1>4, <1>6

\* A slice of a buffer remains, answered or not.
LEMMA SliceRemains ==
  ASSUME NEW q \in Seq(Messages), NEW m \in Nat \ {0}, NEW n \in Nat, m <= n + 1, n <= Len(q)
  PROVE  /\ SubSeq(q, m, n) \in Seq(Messages)
         /\ Remains(SubSeq(q, m, n), q) /\ Remains(Unanswered(SubSeq(q, m, n)), q)
  <1> DEFINE r == SubSeq(q, m, n)
             u == Unanswered(r)
             k == m - 1
  <1>1. /\ r \in Seq(Messages) /\ Len(r) = n - m + 1
        /\ n - m + 1 \in Nat /\ DOMAIN r = 1 .. n - m + 1
        /\ \A i \in 1 .. n - m + 1 : m + i - 1 \in DOMAIN q /\ r[i] = q[m + i - 1]
    BY AnySlice
  <1>2. Len(q) \in Nat /\ k \in Nat /\ \A i \in 1 .. n - m + 1 : m + i - 1 = i + k
    BY AnySeq
  <1>3. Len(r) + k <= Len(q)
    BY <1>1, <1>2
  <1>4. \A i \in DOMAIN r : i + k \in DOMAIN q /\ r[i] = q[i + k]
    BY <1>1, <1>2
  <1> HIDE DEF r, k
  <1>5. /\ Len(u) = Len(r) /\ DOMAIN u = DOMAIN r
        /\ \A i \in DOMAIN r : u[i].event = r[i].event /\ u[i].reply = FALSE
    BY <1>1, UnansweredFacts, Zenon
  <1> HIDE DEF u
  <1>6. Remains(r, q)
    BY <1>2, <1>3, <1>4 DEF Remains
  <1>7. Remains(u, q)
    <2>1. /\ Len(u) + k <= Len(q)
          /\ \A i \in DOMAIN u : /\ i + k \in DOMAIN q
                                 /\ u[i].event = q[i + k].event
                                 /\ u[i].reply => q[i + k].reply
      BY <1>3, <1>4, <1>5
    <2>q. QED
      BY <1>2, <2>1 DEF Remains
  <1>q. QED
    BY <1>1, <1>6, <1>7 DEF r, u

\* The messages behind the first remain.
LEMMA TailRemains ==
  ASSUME NEW q \in Seq(Messages), q # <<>>
  PROVE  Remains(Tail(q), q)
  <1>1. /\ Len(Tail(q)) = Len(q) - 1
        /\ \A i \in DOMAIN Tail(q) : i + 1 \in DOMAIN q /\ Tail(q)[i] = q[i + 1]
    BY AnyTail
  <1>2. Len(q) \in Nat
    BY AnySeq
  <1>3. Len(Tail(q)) + 1 <= Len(q) /\ 1 \in Nat
    BY <1>1, <1>2
  <1>q. QED
    BY <1>1, <1>3 DEF Remains

\* One more message behind the others: what the buffer then holds.
LEMMA PostFacts ==
  ASSUME NEW q \in Seq(Messages), NEW m \in Messages, NEW r, r = Append(q, m)
  PROVE  /\ r \in Seq(Messages) /\ Len(r) = Len(q) + 1 /\ Len(q) \in Nat
         /\ DOMAIN q = 1 .. Len(q) /\ DOMAIN r = 1 .. Len(q) + 1
         /\ \A i \in DOMAIN r : \/ i \in DOMAIN q /\ r[i] = q[i]
                                \/ i = Len(q) + 1 /\ r[i] = m
  <1>1. r \in Seq(Messages) /\ Len(r) = Len(q) + 1 /\ Len(q) \in Nat
    BY AnyAppend
  <1>2. \A i \in DOMAIN r : \/ i \in DOMAIN q /\ r[i] = q[i]
                            \/ i = Len(q) + 1 /\ r[i] = m
    BY EachAppended
  <1>3. DOMAIN q = 1 .. Len(q) /\ DOMAIN r = 1 .. Len(q) + 1
    BY <1>1, AnySeq
  <1>q. QED
    BY <1>1, <1>2, <1>3

\* The steps that send; whatever else happens to the buffer leaves a run of it.
LEMMA BufferCases ==
  ASSUME TasksTyped, BrokerTyped, Next
  PROVE  /\ buffer' \in Seq(Messages)
         /\ Remains(buffer', buffer) \/ PublishOk \/ DrainPublish \/ DrainFallback
  <1>a. buffer \in Seq(Messages)
    BY Zenon DEF BrokerTyped
  <1>0. /\ buffer \in Seq(Messages) /\ Remains(buffer, buffer)
        /\ Remains(Unanswered(buffer), buffer) /\ Remains(<<>>, buffer)
    BY <1>a, WholeRemains
  <1>1. Len(buffer) \in Nat /\ Unanswered(buffer) \in Seq(Messages)
    BY <1>a, AnySeq, UnansweredFacts, Zenon
  <1>2. CASE UNCHANGED buffer
    BY <1>0, <1>2
  <1>3. CASE PublishOk
    <2>1. publisher.event \in Events /\ buffer' = Append(buffer, Message(publisher.event, FALSE))
      BY <1>3 DEF PublishOk, TasksTyped
    <2> DEFINE m == Message(publisher.event, FALSE)
    <2>2. m \in Messages /\ buffer' = Append(buffer, m)
      BY <2>1, MessageFacts, Zenon
    <2> HIDE DEF m
    <2>3. buffer' \in Seq(Messages)
      BY ONLY <1>a, <2>2, PostFacts
    <2>q. QED
      BY <1>3, <2>3
  <1>4. CASE DrainFallback
    <2>1. drain.record \in Events /\ buffer' = Append(buffer, Message(drain.record, FALSE))
      BY <1>4 DEF DrainFallback, TasksTyped
    <2> DEFINE m == Message(drain.record, FALSE)
    <2>2. m \in Messages /\ buffer' = Append(buffer, m)
      BY <2>1, MessageFacts, Zenon
    <2> HIDE DEF m
    <2>3. buffer' \in Seq(Messages)
      BY ONLY <1>a, <2>2, PostFacts
    <2>q. QED
      BY <1>4, <2>3
  <1>5. CASE DrainPublish
    <2>1. /\ drain.record \in Events
          /\ buffer' = Append(Unanswered(buffer), Message(drain.record, TRUE))
      BY <1>5 DEF DrainPublish, TasksTyped
    <2>2. Unanswered(buffer) \in Seq(Messages)
      BY <1>0, UnansweredFacts, Zenon
    <2> DEFINE m == Message(drain.record, TRUE)
    <2>3. m \in Messages /\ buffer' = Append(Unanswered(buffer), m)
      BY <2>1, MessageFacts, Zenon
    <2> HIDE DEF m
    <2>4. buffer' \in Seq(Messages)
      BY ONLY <2>2, <2>3, PostFacts
    <2>q. QED
      BY <1>5, <2>4
  <1>6. CASE Stop
    <2>1. buffer' = Unanswered(buffer) \/ buffer' = <<>>
      BY <1>6 DEF Stop
    <2>2. <<>> \in Seq(Messages)
      OBVIOUS
    <2>q. QED
      BY <1>0, <1>1, <2>1, <2>2, Zenon
  <1>7. CASE DrainAckTimeout
    <2>1. buffer' = Unanswered(buffer)
      BY <1>7 DEF DrainAckTimeout
    <2>q. QED
      BY <1>0, <1>1, <2>1
  <1>8. CASE ClientNotices
    <2>1. PICK k \in 0 .. Len(buffer) : buffer' = SubSeq(buffer, k + 1, Len(buffer))
      BY <1>8 DEF ClientNotices
    <2>2. /\ k + 1 \in Nat \ {0} /\ Len(buffer) \in Nat /\ k + 1 <= Len(buffer) + 1
          /\ Len(buffer) <= Len(buffer)
      BY <1>1
    <2>3. SubSeq(buffer, k + 1, Len(buffer)) \in Seq(Messages)
      BY ONLY <1>a, <2>2, SliceRemains
    <2>4. Remains(SubSeq(buffer, k + 1, Len(buffer)), buffer)
      BY ONLY <1>a, <2>2, SliceRemains
    <2>q. QED
      BY <2>1, <2>3, <2>4
  <1>9. CASE BrokerReceives
    <2>1. buffer # <<>> /\ buffer' = Tail(buffer)
      BY <1>9, Zenon DEF BrokerReceives
    <2>2. Tail(buffer) \in Seq(Messages)
      BY <1>0, <2>1, AnyTail
    <2>q. QED
      BY <1>0, <2>1, <2>2, TailRemains
  <1>10. CASE Crash
    <2>1. PICK k \in IF link THEN 0 .. Len(buffer) ELSE {0} :
            buffer' = Unanswered(SubSeq(buffer, 1, k))
      BY <1>10 DEF Crash
    <2>2. 1 \in Nat \ {0} /\ k \in Nat /\ 1 <= k + 1 /\ k <= Len(buffer)
      BY <1>1, <2>1
    <2>3. SubSeq(buffer, 1, k) \in Seq(Messages) /\ Remains(buffer', buffer)
      BY <1>0, <2>1, <2>2, SliceRemains
    <2>q. QED
      BY <2>1, <2>3, UnansweredFacts, Zenon
  <1>11. CASE Publishing \/ Signal \/ RecordRots
    BY <1>2, <1>3, <1>11 DEF Publishing, Receive, PublishStalls, SpoolAppend, SpoolAppendFails,
         Signal, RecordRots
  <1>12. CASE Draining
    BY <1>2, <1>4, <1>5, <1>7, <1>12, Zenon DEF Draining, DrainPeek, DrainSkip, DrainAcked,
         DrainNoResponders, DrainFlushed, DrainConfirm
  <1>13. CASE Network
    BY <1>2, <1>8, <1>9, <1>13 DEF Network, LinkDrops, Reconnects, WindowPasses, StreamGoes,
         StreamReturns
  <1>q. QED
    BY <1>6, <1>10, <1>11, <1>12, <1>13 DEF Next

\* Only the broker writes the stream, and it only appends.
LEMMA StoredCases ==
  ASSUME BrokerTyped, Next
  PROVE  \/ UNCHANGED stored
         \/ /\ BrokerReceives /\ stream
            /\ buffer # <<>> /\ buffer[1] \in Messages /\ buffer[1].event \notin window
            /\ stored' = Append(stored, buffer[1].event)
            /\ window' = window \cup {buffer[1].event}
            /\ UNCHANGED faults
  <1>1. CASE BrokerReceives
    <2>1. buffer # <<>> /\ buffer \in Seq(Messages)
      BY <1>1, Zenon DEF BrokerReceives, BrokerTyped
    <2>2. buffer[1] \in Messages /\ Head(buffer) = buffer[1]
      BY <2>1, AnyTail
    <2>3. buffer[1].id = buffer[1].event /\ buffer[1].event \in Events
      BY <2>2 DEF Messages
    <2>4. buffer[1].event # None
      BY <2>3, SpoolQueueAssumption DEF None
    <2>5. CASE stream
      <3>1. /\ stored' = IF Head(buffer).id \in window THEN stored
                         ELSE Append(stored, Head(buffer).event)
            /\ window' = window \cup ({Head(buffer).id} \ {None})
            /\ UNCHANGED faults
        BY <1>1, <2>5 DEF BrokerReceives
      <3>2. {buffer[1].event} \ {None} = {buffer[1].event}
        BY <2>4
      <3>q. QED
        BY <1>1, <2>1, <2>2, <2>3, <2>5, <3>1, <3>2, Zenon
    <2>6. CASE ~stream
      BY <1>1, <2>6, Zenon DEF BrokerReceives
    <2>q. QED
      BY <2>5, <2>6
  <1>2. CASE Publishing \/ Signal \/ Stop \/ RecordRots \/ Crash
    BY <1>2, Zenon DEF Publishing, Receive, PublishOk, PublishStalls, SpoolAppend, SpoolAppendFails,
         Signal, Stop, RecordRots, Crash
  <1>3. CASE Draining
    BY <1>3, Zenon DEF Draining, DrainPeek, DrainSkip, DrainPublish, DrainAcked, DrainNoResponders,
         DrainAckTimeout, DrainFallback, DrainFlushed, DrainConfirm
  <1>4. CASE Network
    BY <1>1, <1>4 DEF Network, LinkDrops, ClientNotices, Reconnects, WindowPasses, StreamGoes,
         StreamReturns
  <1>q. QED
    BY <1>2, <1>3, <1>4 DEF Next

\* Every step keeps what is on its way and what is stored well formed.
LEMMA BrokerTypedStep ==
  ASSUME TasksTyped, BrokerTyped, Next
  PROVE  BrokerTyped'
  <1>1. buffer' \in Seq(Messages)
    BY BufferCases
  <1>2. stored' \in Seq(Events)
    <2>1. stored \in Seq(Events)
      BY Zenon DEF BrokerTyped
    <2>2. CASE UNCHANGED stored
      BY <2>1, <2>2
    <2>3. CASE stored' = Append(stored, buffer[1].event) /\ buffer[1] \in Messages
      <3>1. buffer[1].event \in Events
        BY <2>3 DEF Messages
      <3>q. QED
        BY <2>1, <2>3, <3>1, AnyAppend
    <2>q. QED
      BY <2>2, <2>3, StoredCases
  <1>3. ack' \in {"none", "acked", "no responders"} /\ stream' \in BOOLEAN
    <2>1. CASE Publishing \/ Signal \/ Stop \/ RecordRots \/ Crash
      BY <2>1, Zenon DEF BrokerTyped, Publishing, Receive, PublishOk, PublishStalls, SpoolAppend,
           SpoolAppendFails, Signal, Stop, RecordRots, Crash
    <2>2. CASE Draining
      BY <2>2, Zenon DEF BrokerTyped, Draining, DrainPeek, DrainSkip, DrainPublish, DrainAcked,
           DrainNoResponders, DrainAckTimeout, DrainFallback, DrainFlushed, DrainConfirm
    <2>3. CASE BrokerReceives
      <3>1. UNCHANGED stream /\ (ack' = ack \/ ack' = "acked" \/ ack' = "no responders")
        BY <2>3, Zenon DEF BrokerReceives
      <3>q. QED
        BY <3>1, Zenon DEF BrokerTyped
    <2>4. CASE Network
      BY <2>3, <2>4, Zenon DEF BrokerTyped, Network, LinkDrops, ClientNotices, Reconnects,
           WindowPasses, StreamGoes, StreamReturns
    <2>q. QED
      BY <2>1, <2>2, <2>4, Zenon DEF Next
  <1>q. QED
    BY <1>1, <1>2, <1>3, Zenon DEF BrokerTyped

\* Faults are counted, never forgotten.
LEMMA FaultCases ==
  ASSUME HistoryTyped, Next
  PROVE  /\ faults' \in [FaultKinds -> Nat]
         /\ \A g \in FaultKinds : faults[g] <= faults'[g]
  <1>0. faults \in [FaultKinds -> Nat]
    BY DEF HistoryTyped
  <1>1. CASE UNCHANGED faults
    BY <1>0, <1>1
  <1>2. CASE \E f \in FaultKinds : Fault(f)
    <2>1. PICK f \in FaultKinds : Fault(f)
      BY <1>2
    <2>q. QED
      BY <1>0, <2>1, FaultFacts
  <1>3. UNCHANGED faults \/ \E f \in FaultKinds : Fault(f)
    <2>1. CASE Publishing \/ Signal \/ Stop \/ RecordRots \/ Crash
      BY <2>1, KindFacts, Zenon DEF Publishing, Receive, PublishOk, PublishStalls, SpoolAppend,
           SpoolAppendFails, Signal, Stop, RecordRots, Crash
    <2>2. CASE Draining
      BY <2>2, KindFacts, Zenon DEF Draining, DrainPeek, DrainSkip, DrainPublish, DrainAcked,
           DrainNoResponders, DrainAckTimeout, DrainFallback, DrainFlushed, DrainConfirm, Advance
    <2>3. CASE Network
      BY <2>3, KindFacts, Zenon DEF Network, LinkDrops, ClientNotices, Reconnects, BrokerReceives,
           WindowPasses, StreamGoes, StreamReturns
    <2>q. QED
      BY <2>1, <2>2, <2>3 DEF Next
  <1>q. QED
    BY <1>1, <1>2, <1>3

\* The steps that give an event its outcome, once and for all.
LEMMA OutcomeCases ==
  ASSUME Next
  PROVE  \/ UNCHANGED outcome
         \/ /\ publisher.pc \in {"publish", "spool"} /\ publisher'.pc = "idle"
            /\ \E o \in Outcomes : outcome' = [outcome EXCEPT ![publisher.event] = o]
  <1>1. CASE PublishOk \/ SpoolAppend \/ SpoolAppendFails \/ PublishStalls
    <2>1. UNCHANGED outcome \/ (publisher.pc \in {"publish", "spool"} /\ publisher' = Idle)
      BY <1>1, Zenon DEF PublishOk, SpoolAppend, SpoolAppendFails, PublishStalls
    <2>2. UNCHANGED outcome
            \/ \E o \in Outcomes : outcome' = [outcome EXCEPT ![publisher.event] = o]
      BY <1>1, Zenon DEF PublishOk, SpoolAppend, SpoolAppendFails, PublishStalls, Outcomes
    <2>q. QED
      BY <2>1, <2>2 DEF Idle
  <1>2. CASE Publishing \/ Signal \/ Stop \/ RecordRots \/ Crash
    BY <1>1, <1>2 DEF Publishing, Receive, Signal, Stop, RecordRots, Crash
  <1>3. CASE Draining
    BY <1>3, Zenon DEF Draining, DrainPeek, DrainSkip, DrainPublish, DrainAcked, DrainNoResponders,
         DrainAckTimeout, DrainFallback, DrainFlushed, DrainConfirm
  <1>4. CASE Network
    BY <1>4, Zenon DEF Network, LinkDrops, ClientNotices, Reconnects, BrokerReceives, WindowPasses,
         StreamGoes, StreamReturns
  <1>q. QED
    BY <1>2, <1>3, <1>4 DEF Next

\* Only the drain adds to what is replayed.
LEMMA ReplayedCases ==
  ASSUME Next
  PROVE  UNCHANGED replayed \/ DrainConfirm
  <1>1. CASE Publishing \/ Signal \/ Stop \/ RecordRots \/ Crash
    BY <1>1, Zenon DEF Publishing, Receive, PublishOk, PublishStalls, SpoolAppend, SpoolAppendFails,
         Signal, Stop, RecordRots, Crash
  <1>2. CASE Draining
    BY <1>2, Zenon DEF Draining, DrainPeek, DrainSkip, DrainPublish, DrainAcked, DrainNoResponders,
         DrainAckTimeout, DrainFallback, DrainFlushed
  <1>3. CASE Network
    BY <1>3, Zenon DEF Network, LinkDrops, ClientNotices, Reconnects, BrokerReceives, WindowPasses,
         StreamGoes, StreamReturns
  <1>q. QED
    BY <1>1, <1>2, <1>3 DEF Next

\* Every step keeps the histories well formed.
LEMMA HistoryTypedStep ==
  ASSUME TasksTyped, BrokerTyped, HistoryTyped, Next
  PROVE  HistoryTyped'
  <1>1. outcome' \in [Events -> Outcomes]
    BY OutcomeCases DEF HistoryTyped
  <1>2. CASE DrainConfirm
    <2>1. replayed' = replayed \cup {[event |-> drain.record, how |-> drain.pc, stream |-> stream]}
      BY <1>2 DEF DrainConfirm
    <2>2. drain.pc \in {"acked", "flushed"} /\ drain.record \in Events /\ stream \in BOOLEAN
      BY <1>2, Zenon DEF DrainConfirm, TasksTyped, BrokerTyped
    <2>3. replayed' \subseteq [event : Events, how : {"acked", "flushed"}, stream : BOOLEAN]
      BY <2>1, <2>2 DEF HistoryTyped
    <2>q. QED
      BY <1>1, <2>3, FaultCases DEF HistoryTyped
  <1>3. CASE UNCHANGED replayed
    BY <1>1, <1>3, FaultCases DEF HistoryTyped
  <1>q. QED
    BY <1>2, <1>3, ReplayedCases

\* The type invariant is inductive.
LEMMA TypedStep ==
  ASSUME Typed, [Next]_runtimeVars
  PROVE  Typed'
  <1>1. CASE Next
    BY <1>1, QueueTypedStep, TasksTypedStep, BrokerTypedStep, HistoryTypedStep DEF Typed
  <1>2. CASE UNCHANGED runtimeVars
    BY <1>2, ZenonT(40) DEF Typed, QueueTyped, TasksTyped, BrokerTyped, HistoryTyped, runtimeVars, Outcomes
  <1>q. QED
    BY <1>1, <1>2

\* It holds at the start.
LEMMA TypedInit ==
  ASSUME Init
  PROVE  Typed
  <1>1. QueueTyped
    BY DEF Init, QueueInit, QueueTyped
  <1>2. TasksTyped
    BY DEF Init, Idle, drainIdle, TasksTyped, DrainPcs
  <1>3. BrokerTyped
    BY DEF Init, BrokerTyped
  <1>4. HistoryTyped
    BY DEF Init, HistoryTyped, Outcomes
  <1>q. QED
    BY <1>1, <1>2, <1>3, <1>4 DEF Typed

----------------------------------------------------------------------------
(* What the drain confirms is stored, and what leaves the spool is accounted *)
(* for.                                                                      *)

\* The record the drain is at is the one at the cursor, unless the bound took it.
Holding ==
  drain.pc # "peek" => \/ held = Dropped
                       \/ held = drain.record /\ HoldsOldest

\* An id in the duplicate window is that of an event the stream stores.
WindowStored == window \subseteq Range(stored)

\* The only answer the drain can hear is about the record it is at.
Answered ==
  /\ drain.pc = "await" =>
       /\ \A i \in DOMAIN buffer : buffer[i].reply => buffer[i].event = drain.record
       /\ ack = "acked" => drain.record \in Range(stored)
  /\ drain.pc = "acked" => drain.record \in Range(stored)

\* As long as the stream is there, the drain waits for it.
Streaming ==
  faults["stream"] = 0 =>
    /\ stream /\ js_mode /\ ack # "no responders"
    /\ drain.pc \notin {"fallback", "flush", "flushed"}

DrainInv == Holding /\ WindowStored /\ Answered /\ Streaming

\* The drain moves on, starts again, peeks, or stays at its record.
LEMMA DrainCases ==
  ASSUME Next
  PROVE  \/ UNCHANGED drain
         \/ drain' = drainIdle
         \/ DrainPeek
         \/ /\ DrainPublish \/ DrainAcked \/ DrainNoResponders \/ DrainFallback \/ DrainFlushed
            /\ UNCHANGED queueVars
  <1>1. CASE Publishing \/ Signal \/ Stop \/ RecordRots \/ Crash
    BY <1>1, Zenon DEF Publishing, Receive, PublishOk, PublishStalls, SpoolAppend, SpoolAppendFails,
         Signal, Stop, RecordRots, Crash, drainIdle
  <1>2. CASE Draining
    BY <1>2, Zenon DEF Draining, DrainSkip, DrainPublish, DrainAcked, DrainNoResponders,
         DrainAckTimeout, DrainFallback, DrainFlushed, DrainConfirm
  <1>3. CASE Network
    BY <1>3, Zenon DEF Network, LinkDrops, ClientNotices, Reconnects, BrokerReceives, WindowPasses,
         StreamGoes, StreamReturns
  <1>q. QED
    BY <1>1, <1>2, <1>3 DEF Next

\* The drain's own steps keep the record they are at.
LEMMA DrainStays ==
  ASSUME TasksTyped,
         DrainPublish \/ DrainAcked \/ DrainNoResponders \/ DrainFallback \/ DrainFlushed
  PROVE  drain.pc # "peek" /\ drain'.record = drain.record
  <1>1. drain.pc # "peek"
    BY Zenon DEF DrainPublish, DrainAcked, DrainNoResponders, DrainFallback, DrainFlushed
  <1>2. \E c \in DrainPcs : drain' = [drain EXCEPT !.pc = c]
    BY Zenon DEF DrainPublish, DrainAcked, DrainNoResponders, DrainFallback, DrainFlushed, DrainPcs
  <1>q. QED
    BY <1>1, <1>2 DEF TasksTyped

\* append moves the record the drain holds with the others, or drops it.
LEMMA PutHolds ==
  ASSUME QueueTyped, NEW e \in Events, NEW k \in 0 .. Len(log), Put(e, k),
         NEW r \in Events, held = Dropped \/ (held = r /\ HoldsOldest)
  PROVE  held' = Dropped \/ (held' = r /\ HoldsOldest')
  <1>0. /\ log' = SubSeq(log, k + 1, Len(log)) \o <<e>> /\ log \in Seq(Events)
        /\ e \in Events /\ k \in 0 .. Len(log)
    BY DEF Put, QueueTyped
  <1>1. /\ pos' = (IF pos > k THEN pos - k ELSE 0)
        /\ held' = (IF held # None /\ k > pos THEN Dropped ELSE held)
        /\ pos \in 0 .. Len(log)
    BY DEF Put, QueueTyped
  <1>2. /\ Len(log') = Len(log) - k + 1 /\ Len(log) \in Nat
        /\ \A i \in 1 .. Len(log) - k : i + k \in DOMAIN log /\ log'[i] = log[i + k]
    BY ONLY <1>0, PutFacts
  <1>3. CASE held = Dropped
    BY <1>1, <1>3
  <1>4. CASE held = r /\ HoldsOldest
    <2>1. held # None
      BY <1>4, SpoolQueueAssumption DEF None
    <2>2. CASE k > pos
      BY <1>1, <2>1, <2>2
    <2>3. CASE ~(k > pos)
      <3>1. pos < Len(log) /\ held = log[pos + 1] /\ held' = r
        BY <1>1, <1>4, <2>3 DEF HoldsOldest
      <3>2. pos' = pos - k /\ pos' + 1 \in 1 .. Len(log) - k /\ pos' + 1 + k = pos + 1
        BY <1>1, <1>2, <2>3, <3>1
      <3>3. log'[pos' + 1] = log[pos + 1]
        BY <1>2, <3>2
      <3>4. pos' < Len(log')
        BY <1>2, <3>2
      <3>q. QED
        BY <1>4, <3>1, <3>3, <3>4, Zenon DEF HoldsOldest
    <2>q. QED
      BY <2>2, <2>3
  <1>q. QED
    BY <1>3, <1>4

\* Every step leaves the drain at the record at the cursor.
LEMMA HoldingStep ==
  ASSUME Typed, Holding, Next
  PROVE  Holding'
  <1>0. QueueTyped /\ TasksTyped
    BY DEF Typed
  <1>1. CASE drain' = drainIdle
    BY <1>1 DEF drainIdle, Holding
  <1>2. CASE DrainPeek
    <2>1. held' = IF pos < Len(log) THEN log[pos + 1] ELSE None
      BY <1>2 DEF DrainPeek, Take
    <2>2. UNCHANGED <<log, pos>>
      BY <1>2 DEF DrainPeek, Take
    <2>3. drain' = IF held' = None THEN drainIdle ELSE [pc |-> "verify", record |-> held']
      BY <1>2 DEF DrainPeek
    <2>4. drain'.pc # "peek" => held' # None /\ drain'.record = held'
      BY <2>3 DEF drainIdle
    <2>5. held' # None => HoldsOldest'
      BY <2>1, <2>2 DEF HoldsOldest
    <2>q. QED
      BY <2>4, <2>5 DEF Holding
  <1>3. CASE drain.pc # "peek" /\ drain'.record = drain.record /\ UNCHANGED queueVars
    BY <1>3 DEF Holding, HoldsOldest
  <1>4. CASE UNCHANGED drain
    <2>1. CASE UNCHANGED queueVars
      BY <1>4, <2>1 DEF Holding, HoldsOldest
    <2>2. CASE drain.pc # "peek" /\ \E k \in 0 .. Len(log) : publisher.event \in Events
                                                            /\ Put(publisher.event, k)
      <3>1. PICK k \in 0 .. Len(log) : publisher.event \in Events /\ Put(publisher.event, k)
        BY <2>2
      <3>2. drain.record \in Events /\ (held = Dropped \/ (held = drain.record /\ HoldsOldest))
        BY <1>0, <2>2 DEF TasksTyped, Holding
      <3>3. held' = Dropped \/ (held' = drain.record /\ HoldsOldest')
        BY <1>0, <3>1, <3>2, PutHolds
      <3>q. QED
        BY <1>4, <3>3 DEF Holding
    <2>3. CASE drain.pc = "peek"
      BY <1>4, <2>3 DEF Holding
    <2>4. CASE DrainPeek
      BY <1>2, <2>4
    <2>5. CASE DrainSkip \/ DrainConfirm \/ Stop \/ Crash
      BY <1>1, <2>5 DEF DrainSkip, DrainConfirm, Stop, Crash, drainIdle
    <2>6. CASE SpoolAppend \/ SpoolAppendFails
      <3>1. log \in Seq(Events)
        BY <1>0 DEF QueueTyped
      <3>2. Len(log) \in Nat
        BY <3>1, AnySeq
      <3>3. publisher.event \in Events
        BY <1>0, <2>6, Zenon DEF SpoolAppend, SpoolAppendFails, TasksTyped
      <3>4. UNCHANGED queueVars \/ \E k \in Overflow \cup {0} : Put(publisher.event, k)
        BY <2>6 DEF SpoolAppend, SpoolAppendFails
      <3>5. Overflow \cup {0} \subseteq 0 .. Len(log)
        BY <3>2 DEF Overflow
      <3>q. QED
        BY <2>1, <2>2, <2>3, <3>3, <3>4, <3>5
    <2>q. QED
      BY <2>1, <2>4, <2>5, <2>6, QueueCases
  <1>q. QED
    BY <1>0, <1>1, <1>2, <1>3, <1>4, DrainCases, DrainStays

\* What one message does at the broker.
LEMMA ReceiveFacts ==
  ASSUME BrokerTyped, BrokerReceives
  PROVE  /\ buffer # <<>> /\ 1 \in DOMAIN buffer /\ buffer[1].event \in Events
         /\ buffer[1].reply \in BOOLEAN
         /\ stream => /\ window' = window \cup {buffer[1].event}
                      /\ stored' = (IF buffer[1].event \in window THEN stored
                                    ELSE Append(stored, buffer[1].event))
                      /\ ack' = (IF buffer[1].reply THEN "acked" ELSE ack)
         /\ ~stream => /\ UNCHANGED <<stored, window>>
                       /\ ack' = (IF buffer[1].reply THEN "no responders" ELSE ack)
  <1>1. buffer # <<>> /\ buffer \in Seq(Messages)
    BY Zenon DEF BrokerReceives, BrokerTyped
  <1>2. buffer[1] \in Messages /\ Head(buffer) = buffer[1] /\ 1 \in DOMAIN buffer
    BY <1>1, AnyTail
  <1>3. buffer[1].id = buffer[1].event /\ buffer[1].event \in Events /\ buffer[1].reply \in BOOLEAN
    BY <1>2 DEF Messages
  <1>4. buffer[1].event # None
    BY <1>3, SpoolQueueAssumption DEF None
  <1>5. {buffer[1].event} \ {None} = {buffer[1].event}
    BY <1>4
  <1>6. stream => /\ window' = window \cup ({Head(buffer).id} \ {None})
                  /\ stored' = (IF Head(buffer).id \in window THEN stored
                                ELSE Append(stored, Head(buffer).event))
                  /\ ack' = (IF Head(buffer).reply THEN "acked" ELSE ack)
    BY DEF BrokerReceives
  <1>7. ~stream => /\ UNCHANGED <<stored, window>>
                   /\ ack' = (IF Head(buffer).reply THEN "no responders" ELSE ack)
    BY Zenon DEF BrokerReceives
  <1>q. QED
    BY <1>1, <1>2, <1>3, <1>5, <1>6, <1>7, Zenon

\* The members of a sequence with one more at the back.
LEMMA ToSetAppend ==
  ASSUME NEW S, NEW s \in Seq(S), NEW x \in S
  PROVE  Range(Append(s, x)) = Range(s) \cup {x}
  <1> DEFINE t == Append(s, x)
  <1>1. /\ Len(s) \in Nat /\ DOMAIN s = 1 .. Len(s) /\ t \in Seq(S) /\ Len(t) = Len(s) + 1
        /\ (\A i \in DOMAIN s : t[i] = s[i]) /\ t[Len(s) + 1] = x
    BY AnySeq, AnyAppend
  <1>2. DOMAIN t = 1 .. Len(s) + 1
    BY <1>1, AnySeq
  <1> HIDE DEF t
  <1>3. DOMAIN s \subseteq DOMAIN t /\ Len(s) + 1 \in DOMAIN t
    BY <1>1, <1>2
  <1>4. \A i \in DOMAIN t : i \in DOMAIN s \/ i = Len(s) + 1
    BY <1>1, <1>2
  <1>5. Range(t) = Range(s) \cup {x}
    BY <1>1, <1>3, <1>4 DEF Range
  <1>q. QED
    BY <1>5 DEF t

\* What the stream stores it keeps, and it stores what it puts in the window.
LEMMA StoredGrows ==
  ASSUME BrokerTyped, Next
  PROVE  Range(stored) \subseteq Range(stored')
  <1>1. stored \in Seq(Events)
    BY Zenon DEF BrokerTyped
  <1>2. CASE UNCHANGED stored
    BY <1>2
  <1>3. CASE stored' = Append(stored, buffer[1].event) /\ buffer[1] \in Messages
    <2>1. buffer[1].event \in Events
      BY <1>3 DEF Messages
    <2>q. QED
      BY <1>1, <1>3, <2>1, ToSetAppend
  <1>q. QED
    BY <1>2, <1>3, StoredCases

\* A message taken by the stream is stored, now or before.
LEMMA TakenIsStored ==
  ASSUME BrokerTyped, WindowStored, BrokerReceives, stream
  PROVE  buffer[1].event \in Range(stored')
  <1>1. stored \in Seq(Events)
    BY Zenon DEF BrokerTyped
  <1>2. /\ buffer[1].event \in Events
        /\ stored' = (IF buffer[1].event \in window THEN stored
                      ELSE Append(stored, buffer[1].event))
    BY ReceiveFacts
  <1>3. CASE buffer[1].event \in window
    BY <1>2, <1>3 DEF WindowStored
  <1>4. CASE buffer[1].event \notin window
    BY <1>1, <1>2, <1>4, ToSetAppend
  <1>q. QED
    BY <1>3, <1>4

\* The steps that touch the duplicate window.
LEMMA WindowCases ==
  ASSUME Next
  PROVE  UNCHANGED window \/ WindowPasses \/ BrokerReceives
  <1>1. CASE Publishing \/ Signal \/ Stop \/ RecordRots \/ Crash
    BY <1>1, Zenon DEF Publishing, Receive, PublishOk, PublishStalls, SpoolAppend, SpoolAppendFails,
         Signal, Stop, RecordRots, Crash
  <1>2. CASE Draining
    BY <1>2, Zenon DEF Draining, DrainPeek, DrainSkip, DrainPublish, DrainAcked, DrainNoResponders,
         DrainAckTimeout, DrainFallback, DrainFlushed, DrainConfirm
  <1>3. CASE Network
    BY <1>3 DEF Network, LinkDrops, ClientNotices, Reconnects, StreamGoes, StreamReturns
  <1>q. QED
    BY <1>1, <1>2, <1>3 DEF Next

\* Every step keeps the window inside the stream.
LEMMA WindowStoredStep ==
  ASSUME BrokerTyped, WindowStored, Next
  PROVE  WindowStored'
  <1>1. Range(stored) \subseteq Range(stored')
    BY StoredGrows
  <1>2. CASE UNCHANGED window \/ WindowPasses
    <2>1. window' \subseteq window
      BY <1>2 DEF WindowPasses
    <2>q. QED
      BY <1>1, <2>1 DEF WindowStored, Range
  <1>3. CASE BrokerReceives /\ stream
    <2>1. window' = window \cup {buffer[1].event} /\ buffer[1].event \in Range(stored')
      BY <1>3, ReceiveFacts, TakenIsStored
    <2>q. QED
      BY <1>1, <2>1 DEF WindowStored, Range
  <1>4. CASE BrokerReceives /\ ~stream
    BY <1>2, <1>4, ReceiveFacts, Zenon
  <1>q. QED
    BY <1>2, <1>3, <1>4, WindowCases

\* The answers on their way stay about the record the drain is at.
LEMMA AwaitedStep ==
  ASSUME Typed, Answered, drain.pc = "await", UNCHANGED drain, Next
  PROVE  \A i \in DOMAIN buffer' : buffer'[i].reply => buffer'[i].event = drain.record
  <1>0. TasksTyped /\ BrokerTyped /\ buffer \in Seq(Messages)
    BY Zenon DEF Typed, BrokerTyped
  <1>1. \A i \in DOMAIN buffer : buffer[i].reply => buffer[i].event = drain.record
    BY DEF Answered
  <1>2. CASE Remains(buffer', buffer)
    BY <1>1, <1>2 DEF Remains
  <1>3. CASE PublishOk
    <2>1. publisher.event \in Events /\ buffer' = Append(buffer, Message(publisher.event, FALSE))
      BY <1>0, <1>3 DEF PublishOk, TasksTyped
    <2> DEFINE m == Message(publisher.event, FALSE)
    <2>2. m \in Messages /\ m.reply = FALSE /\ buffer' = Append(buffer, m)
      BY <2>1, MessageFacts, Zenon
    <2> HIDE DEF m
    <2>3. \A i \in DOMAIN buffer' : \/ i \in DOMAIN buffer /\ buffer'[i] = buffer[i]
                                    \/ i = Len(buffer) + 1 /\ buffer'[i] = m
      BY ONLY <1>0, <2>2, PostFacts
    <2>q. QED
      BY <1>1, <2>2, <2>3
  <1>4. ~DrainPublish /\ ~DrainFallback
    <2>1. drain.pc # "verify" /\ drain.pc # "fallback"
      OBVIOUS
    <2>q. QED
      BY <2>1 DEF DrainPublish, DrainFallback
  <1>q. QED
    BY <1>0, <1>2, <1>3, <1>4, BufferCases

\* An answer the drain has heard is about a stored record.
LEMMA AckStep ==
  ASSUME Typed, WindowStored, Answered, drain.pc = "await", UNCHANGED drain, Next
  PROVE  ack' = "acked" => drain.record \in Range(stored')
  <1>0. BrokerTyped
    BY DEF Typed
  <1>1. ack = "acked" => drain.record \in Range(stored')
    BY <1>0, StoredGrows DEF Answered
  <1>2. CASE BrokerReceives
    <2>1. CASE stream /\ buffer[1].reply
      <3>1. buffer[1].event \in Range(stored')
        BY <1>0, <1>2, <2>1, TakenIsStored
      <3>2. buffer[1].event = drain.record
        BY <1>0, <1>2, <2>1, ReceiveFacts DEF Answered
      <3>q. QED
        BY <3>1, <3>2
    <2>2. CASE ~(stream /\ buffer[1].reply)
      <3>1. ack' = ack \/ ack' = "no responders"
        BY <1>0, <1>2, <2>2, ReceiveFacts, Zenon
      <3>q. QED
        BY <1>1, <3>1
    <2>q. QED
      BY <2>1, <2>2
  <1>3. CASE ack' = ack \/ ack' = "none"
    BY <1>1, <1>3
  <1>4. BrokerReceives \/ ack' = ack \/ ack' = "none"
    <2>1. CASE Publishing \/ Signal \/ Stop \/ RecordRots \/ Crash
      BY <2>1, Zenon DEF Publishing, Receive, PublishOk, PublishStalls, SpoolAppend,
           SpoolAppendFails, Signal, Stop, RecordRots, Crash
    <2>2. CASE Draining
      BY <2>2, Zenon DEF Draining, DrainPeek, DrainSkip, DrainPublish, DrainAcked,
           DrainNoResponders, DrainAckTimeout, DrainFallback, DrainFlushed, DrainConfirm
    <2>3. CASE Network
      BY <2>3 DEF Network, LinkDrops, ClientNotices, Reconnects, WindowPasses, StreamGoes,
           StreamReturns
    <2>q. QED
      BY <2>1, <2>2, <2>3 DEF Next
  <1>q. QED
    BY <1>2, <1>3, <1>4

\* Every step keeps the drain from mistaking one record's answer for another's.
LEMMA AnsweredStep ==
  ASSUME Typed, WindowStored, Answered, Next
  PROVE  Answered'
  <1>0. TasksTyped /\ BrokerTyped /\ buffer \in Seq(Messages)
    BY Zenon DEF Typed, BrokerTyped
  <1>1. Range(stored) \subseteq Range(stored')
    BY <1>0, StoredGrows
  <1> SUFFICES ( /\ drain'.pc = "await" =>
                      /\ \A i \in DOMAIN buffer' : buffer'[i].reply => buffer'[i].event = drain'.record
                      /\ ack' = "acked" => drain'.record \in Range(stored')
                 /\ drain'.pc = "acked" => drain'.record \in Range(stored') )
    BY DEF Answered, Range
  <1>2. CASE UNCHANGED drain
    <2>1. drain.pc = "await" =>
            /\ \A i \in DOMAIN buffer' : buffer'[i].reply => buffer'[i].event = drain.record
            /\ ack' = "acked" => drain.record \in Range(stored')
      BY AwaitedStep, AckStep, <1>2
    <2>2. drain.pc = "acked" => drain.record \in Range(stored')
      BY <1>1 DEF Answered
    <2>q. QED
      BY <1>2, <2>1, <2>2
  <1>3. CASE drain' = drainIdle \/ DrainPeek
    <2>1. drain'.pc \in {"peek", "verify"}
      BY <1>3 DEF DrainPeek, drainIdle
    <2>q. QED
      BY <2>1
  <1>4. CASE DrainPublish
    <2>1. /\ drain.record \in Events
          /\ buffer' = Append(Unanswered(buffer), Message(drain.record, TRUE))
          /\ ack' = "none" /\ drain' = [drain EXCEPT !.pc = "await"]
      BY <1>0, <1>4 DEF DrainPublish, TasksTyped
    <2>2. drain'.record = drain.record /\ drain'.pc = "await"
      BY <1>0, <2>1 DEF TasksTyped
    <2> DEFINE m == Message(drain.record, TRUE)
               u == Unanswered(buffer)
    <2>3. m \in Messages /\ m.event = drain.record /\ buffer' = Append(u, m)
      BY <2>1, MessageFacts, Zenon
    <2> HIDE DEF m
    <2>4. u \in Seq(Messages) /\ \A i \in DOMAIN u : u[i].reply = FALSE
      BY <1>0, UnansweredFacts, Zenon
    <2> HIDE DEF u
    <2>5. \A i \in DOMAIN buffer' : \/ i \in DOMAIN u /\ buffer'[i] = u[i]
                                    \/ i = Len(u) + 1 /\ buffer'[i] = m
      BY ONLY <2>3, <2>4, PostFacts
    <2>6. \A i \in DOMAIN buffer' : buffer'[i].reply => buffer'[i].event = drain.record
      BY <2>3, <2>4, <2>5
    <2>q. QED
      BY <2>1, <2>2, <2>6, Zenon
  <1>5. CASE DrainAcked
    <2>1. drain'.pc = "acked" /\ drain'.record = drain.record /\ drain.pc = "await" /\ ack = "acked"
      BY <1>0, <1>5 DEF DrainAcked, TasksTyped
    <2>q. QED
      BY <1>1, <2>1 DEF Answered
  <1>6. CASE DrainNoResponders \/ DrainFallback \/ DrainFlushed
    <2>1. drain'.pc \in {"fallback", "flush", "flushed"}
      BY <1>0, <1>6, Zenon DEF DrainNoResponders, DrainFallback, DrainFlushed, TasksTyped
    <2>q. QED
      BY <2>1
  <1>q. QED
    BY <1>2, <1>3, <1>4, <1>5, <1>6, DrainCases

\* Every step keeps the drain waiting for a stream that never went away.
LEMMA StreamingStep ==
  ASSUME Typed, Streaming, Next
  PROVE  Streaming'
  <1>0. TasksTyped /\ BrokerTyped /\ HistoryTyped /\ faults \in [FaultKinds -> Nat]
    BY DEF Typed, HistoryTyped
  <1>1. "stream" \in FaultKinds
    BY KindFacts
  <1>2. faults["stream"] <= faults'["stream"] /\ faults["stream"] \in Nat /\ faults'["stream"] \in Nat
    BY <1>0, <1>1, FaultCases
  <1>3. SUFFICES ASSUME faults'["stream"] = 0
                 PROVE  /\ stream' /\ js_mode' /\ ack' # "no responders"
                        /\ drain'.pc \notin {"fallback", "flush", "flushed"}
    BY Zenon DEF Streaming
  <1>4. faults["stream"] = 0
    BY <1>2, <1>3
  <1>5. /\ stream /\ js_mode /\ ack # "no responders"
        /\ drain.pc \notin {"fallback", "flush", "flushed"}
    BY <1>4, Zenon DEF Streaming
  <1>6. CASE Publishing \/ Signal \/ RecordRots
    BY <1>5, <1>6, Zenon DEF Publishing, Receive, PublishOk, PublishStalls, SpoolAppend,
         SpoolAppendFails, Signal, RecordRots
  <1>7. CASE Stop \/ Crash
    <2>1. UNCHANGED stream /\ js_mode' = TRUE /\ ack' = "none" /\ drain' = drainIdle
      BY <1>7 DEF Stop, Crash, drainIdle
    <2>q. QED
      BY <1>5, <2>1, Zenon DEF drainIdle
  <1>8. CASE DrainPeek \/ DrainSkip \/ DrainConfirm \/ DrainAckTimeout
    <2>1. UNCHANGED <<stream, js_mode, ack>>
      BY <1>8 DEF DrainPeek, DrainSkip, DrainConfirm, DrainAckTimeout
    <2>2. drain' = drainIdle \/ drain' = [pc |-> "verify", record |-> held']
      BY <1>8 DEF DrainPeek, DrainSkip, DrainConfirm, DrainAckTimeout
    <2>3. drain'.pc \in {"peek", "verify"}
      BY <2>2 DEF drainIdle
    <2>q. QED
      BY <1>5, <2>1, <2>3, Zenon
  <1>9. CASE DrainPublish \/ DrainAcked
    BY <1>0, <1>5, <1>9, Zenon DEF DrainPublish, DrainAcked, TasksTyped
  <1>10. ~DrainNoResponders /\ ~DrainFallback /\ ~DrainFlushed
    BY <1>5, Zenon DEF DrainNoResponders, DrainFallback, DrainFlushed
  <1>11. CASE BrokerReceives
    <2>1. UNCHANGED <<stream, js_mode, drain>>
      BY <1>11, Zenon DEF BrokerReceives
    <2>2. ack' = ack \/ ack' = "acked"
      BY <1>0, <1>5, <1>11, ReceiveFacts, Zenon
    <2>q. QED
      BY <1>5, <2>1, <2>2, Zenon
  <1>12. ~StreamGoes
    <2>1. ASSUME StreamGoes PROVE FALSE
      <3>1. faults'["stream"] = faults["stream"] + 1
        BY <1>0, <1>1, <2>1, FaultFacts DEF StreamGoes
      <3>q. QED
        BY <1>2, <1>3, <3>1
    <2>q. QED
      BY <2>1
  <1>13. CASE Network
    BY <1>5, <1>11, <1>12, <1>13, Zenon DEF Network, LinkDrops, ClientNotices, Reconnects,
         WindowPasses, StreamReturns
  <1>q. QED
    BY <1>6, <1>7, <1>8, <1>9, <1>10, <1>13, Zenon DEF Next, Draining

\* The drain's invariant is inductive.
LEMMA DrainInvStep ==
  ASSUME Typed, DrainInv, [Next]_runtimeVars
  PROVE  DrainInv'
  <1>1. CASE Next
    <2>1. BrokerTyped /\ Holding /\ WindowStored /\ Answered /\ Streaming
      BY DEF Typed, DrainInv
    <2>2. Holding'
      BY <1>1, <2>1, HoldingStep
    <2>3. WindowStored'
      BY <1>1, <2>1, WindowStoredStep
    <2>4. Answered'
      BY <1>1, <2>1, AnsweredStep
    <2>5. Streaming'
      BY <1>1, <2>1, StreamingStep
    <2>q. QED
      BY <2>2, <2>3, <2>4, <2>5 DEF DrainInv
  <1>2. CASE UNCHANGED runtimeVars
    BY <1>2, Zenon DEF DrainInv, Holding, HoldsOldest, WindowStored, Answered, Streaming, runtimeVars, Range
  <1>q. QED
    BY <1>1, <1>2

\* A process whose drain has not moved satisfies it.
LEMMA DrainInvInit ==
  ASSUME Init
  PROVE  DrainInv
  <1>1. Holding /\ Answered
    BY DEF Init, drainIdle, Holding, Answered
  <1>2. WindowStored /\ Streaming
    BY DEF Init, drainIdle, WindowStored, Streaming
  <1>q. QED
    BY <1>1, <1>2 DEF DrainInv

\* What is drained on an answer stays stored.
LEMMA AckedStep ==
  ASSUME Typed, DrainInv, AckedIsStored, [Next]_runtimeVars
  PROVE  AckedIsStored'
  <1>1. CASE Next
    <2>0. TasksTyped /\ BrokerTyped /\ HistoryTyped /\ Answered /\ Streaming
      BY DEF Typed, DrainInv
    <2>1. Range(stored) \subseteq Range(stored')
      BY <1>1, <2>0, StoredGrows
    <2>2. faults'["stream"] = 0 => faults["stream"] = 0
      <3>1. "stream" \in FaultKinds
        BY KindFacts
      <3>2. faults["stream"] <= faults'["stream"] /\ faults["stream"] \in Nat
              /\ faults'["stream"] \in Nat
        BY <1>1, <2>0, <3>1, FaultCases DEF HistoryTyped
      <3>q. QED
        BY <3>2
    <2>3. ASSUME NEW r \in replayed', r.how = "acked" \/ faults'["stream"] = 0
          PROVE  r.event \in Range(stored')
      <3>1. CASE r \in replayed
        <4>1. r.event \in Range(stored)
          BY <2>2, <2>3, <3>1 DEF AckedIsStored
        <4>q. QED
          BY <2>1, <4>1
      <3>2. CASE r \notin replayed
        <4>1. DrainConfirm
          BY <1>1, <3>2, ReplayedCases
        <4>2. r = [event |-> drain.record, how |-> drain.pc, stream |-> stream]
          BY <3>2, <4>1 DEF DrainConfirm
        <4>3. r.event = drain.record /\ r.how = drain.pc
          BY <4>2
        <4>4. drain.pc = "acked" \/ drain.pc = "flushed"
          BY <4>1 DEF DrainConfirm
        <4>5. drain.pc = "flushed" => faults["stream"] # 0
          BY <2>0 DEF Streaming
        <4>6. drain.pc = "acked"
          BY <2>2, <2>3, <4>3, <4>4, <4>5
        <4>7. drain.record \in Range(stored)
          BY <2>0, <4>6 DEF Answered
        <4>q. QED
          BY <2>1, <4>3, <4>7
      <3>q. QED
        BY <3>1, <3>2
    <2>q. QED
      BY <2>3 DEF AckedIsStored, Range
  <1>2. CASE UNCHANGED runtimeVars
    BY <1>2 DEF AckedIsStored, runtimeVars, Range
  <1>q. QED
    BY <1>1, <1>2

\* spawn_drain advances on a confirmation only: a record drained on a PubAck is
\* stored in the stream, and so is every drained record of a process whose
\* stream never went away, whatever messages, answers and links were lost.
THEOREM AckedIsStoredHolds == Spec => []AckedIsStored
  <1>1. Init => Typed /\ DrainInv /\ AckedIsStored
    <2>1. Init => AckedIsStored
      BY DEF Init, AckedIsStored
    <2>q. QED
      BY <2>1, TypedInit, DrainInvInit
  <1>2. Typed /\ DrainInv /\ AckedIsStored /\ [Next]_runtimeVars
          => (Typed /\ DrainInv /\ AckedIsStored)'
    BY TypedStep, DrainInvStep, AckedStep
  <1>q. QED
    BY <1>1, <1>2, PTL DEF Spec

----------------------------------------------------------------------------
(* What the metrics count as spooled is not lost. *)

\* The records of log s the drain has still to read when it has passed p.
Rest(s, p) == {s[i] : i \in p + 1 .. Len(s)}

\* They are the backlog.
LEMMA BacklogIsRest ==
  ASSUME NEW s \in Seq(Events), NEW p \in 0 .. Len(s)
  PROVE  Range(SubSeq(s, p + 1, Len(s))) = Rest(s, p)
  <1> DEFINE n == Len(s)
             m == p + 1
             b == SubSeq(s, m, n)
  <1>1. n \in Nat /\ n <= Len(s)
    BY AnySeq
  <1>2. p \in Nat /\ m \in Nat \ {0} /\ m <= n + 1
    BY <1>1
  <1>a. m = p + 1
    OBVIOUS
  <1> HIDE DEF n, m
  <1>3. /\ DOMAIN b = 1 .. n - m + 1
        /\ \A i \in 1 .. n - m + 1 : m + i - 1 \in DOMAIN s /\ b[i] = s[m + i - 1]
    BY ONLY <1>1, <1>2, AnySlice, s \in Seq(Events)
  <1> HIDE DEF b
  <1>4. ASSUME NEW x \in Range(b) PROVE x \in {s[i] : i \in m .. n}
    <2>1. PICK i \in 1 .. n - m + 1 : x = b[i]
      BY <1>3 DEF Range
    <2>2. m + i - 1 \in m .. n
      BY <1>1, <1>2
    <2>q. QED
      BY <1>3, <2>1, <2>2
  <1>5. ASSUME NEW j \in m .. n PROVE s[j] \in Range(b)
    <2> DEFINE i == j - m + 1
    <2>1. i \in 1 .. n - m + 1 /\ m + i - 1 = j
      BY <1>1, <1>2
    <2> HIDE DEF i
    <2>2. b[i] = s[j] /\ i \in DOMAIN b
      BY <1>3, <2>1
    <2>q. QED
      BY <2>2 DEF Range
  <1>6. Range(b) = {s[i] : i \in m .. n}
    BY <1>4, <1>5
  <1>q. QED
    BY <1>6, <1>a DEF b, n, Rest, m

\* append loses from the backlog what the bound takes, and adds its record.
LEMMA PutRest ==
  ASSUME QueueTyped, NEW e \in Events, NEW k \in 0 .. Len(log), Put(e, k)
  PROVE  /\ e \in Rest(log', pos')
         /\ Rest(log, pos) \subseteq Rest(log', pos') \cup {log[i] : i \in pos + 1 .. k}
  <1>0. /\ log' = SubSeq(log, k + 1, Len(log)) \o <<e>> /\ log \in Seq(Events)
        /\ e \in Events /\ k \in 0 .. Len(log)
    BY DEF Put, QueueTyped
  <1>1. pos' = (IF pos > k THEN pos - k ELSE 0) /\ pos \in 0 .. Len(log)
    BY DEF Put, QueueTyped
  <1>2. /\ Len(log') = Len(log) - k + 1 /\ Len(log) \in Nat
        /\ \A i \in 1 .. Len(log) - k : i + k \in DOMAIN log /\ log'[i] = log[i + k]
    BY ONLY <1>0, PutFacts
  <1>last. log'[Len(log')] = e
    BY ONLY <1>0, PutLast, ZenonT(40)
  <1> DEFINE n == Len(log)
             c == n - k + 1
  <1>3. n \in Nat /\ k \in Nat /\ pos \in Nat /\ pos <= n /\ k <= n
    BY <1>1, <1>2
  <1>a. pos' \in Nat /\ pos' <= n - k
    BY <1>1, <1>3
  <1>b. Len(log') = c /\ log'[c] = e
    BY <1>2, <1>last
  <1>c. c \in pos' + 1 .. c
    BY <1>3, <1>a
  <1>4. c \in pos' + 1 .. c /\ Len(log') = c /\ log'[c] = e
    BY <1>b, <1>c
  <1>5. e \in Rest(log', pos')
    <2> HIDE DEF c
    <2>q. QED
      BY <1>4 DEF Rest
  <1>6. ASSUME NEW i \in pos + 1 .. n, ~(i \in pos + 1 .. k) PROVE log[i] \in Rest(log', pos')
    <2> DEFINE j == i - k
    <2>1. j \in 1 .. n - k /\ j + k = i /\ j \in pos' + 1 .. c
      BY <1>1, <1>3, <1>6
    <2> HIDE DEF j
    <2>2. log'[j] = log[i]
      BY <1>2, <2>1
    <2>3. j \in pos' + 1 .. Len(log')
      BY <1>4, <2>1
    <2>q. QED
      BY <2>2, <2>3 DEF Rest
  <1>q. QED
    BY <1>5, <1>6 DEF Rest

\* advance, for the record at the cursor, takes that one from the backlog.
LEMMA SettleRest ==
  ASSUME QueueTyped, Settle \/ SettleInMemory
  PROVE  Rest(log, pos) \subseteq Rest(log', pos') \cup {log[pos + 1]}
  <1>0. log \in Seq(Events) /\ pos \in 0 .. Len(log) /\ pos < Len(log)
    BY DEF QueueTyped, Settle, SettleInMemory, HoldsOldest
  <1> DEFINE n == Len(log)
  <1>1. n \in Nat /\ pos \in Nat
    BY <1>0, AnySeq
  <1>2. SUFFICES ASSUME NEW i \in pos + 1 .. n, i # pos + 1 PROVE log[i] \in Rest(log', pos')
    BY DEF Rest
  <1>3. CASE Settle
    <2>1. log' = SubSeq(log, pos + 2, n) /\ pos' = 0
      BY <1>3 DEF Settle
    <2> DEFINE j == i - pos - 1
    <2>2. j \in 1 .. n - pos - 1 /\ j + pos + 1 = i
      BY <1>1, <1>2
    <2> HIDE DEF j
    <2> DEFINE t == SubSeq(log, pos + 2, n)
    <2>a. Len(t) = n - pos - 1 /\ \A l \in 1 .. n - pos - 1 : t[l] = log[l + pos + 1]
      BY <1>0, OldestFacts
    <2> HIDE DEF t
    <2>b. log' = t
      BY <2>1 DEF t
    <2>3. Len(log') = n - pos - 1 /\ log'[j] = log[j + pos + 1]
      BY <2>2, <2>a, <2>b
    <2>c. pos' + 1 = 1
      BY <2>1
    <2>4. j \in pos' + 1 .. Len(log')
      BY <2>2, <2>3, <2>c
    <2>q. QED
      BY <2>2, <2>3, <2>4 DEF Rest
  <1>4. CASE SettleInMemory
    <2>1. log' = log /\ pos' = pos + 1
      BY <1>4 DEF SettleInMemory
    <2>2. i \in pos' + 1 .. n
      BY <1>1, <1>2, <2>1
    <2>q. QED
      BY <2>1, <2>2 DEF Rest
  <1>q. QED
    BY <1>3, <1>4

\* advance, as the drain calls it, takes the record the drain is at, if any.
LEMMA AdvanceRest ==
  ASSUME QueueTyped, TasksTyped, Holding, drain.pc # "peek", Advance
  PROVE  Rest(log, pos) \subseteq Rest(log', pos') \cup {drain.record}
  <1>1. CASE SettleDropped
    BY <1>1 DEF SettleDropped
  <1>2. CASE Settle \/ SettleInMemory
    <2>1. pos < Len(log) /\ held = log[pos + 1]
      BY <1>2 DEF Settle, SettleInMemory, HoldsOldest
    <2>2. held \in Events
      BY <2>1, OldestFacts
    <2>3. held # Dropped
      BY <2>2, SpoolQueueAssumption DEF Dropped
    <2>4. log[pos + 1] = drain.record
      BY <2>1, <2>3 DEF Holding
    <2>q. QED
      BY <1>2, <2>4, SettleRest
  <1>q. QED
    BY <1>1, <1>2 DEF Advance

\* The events among records rs that were confirmed by a flush.
FlushedOf(rs) == {r.event : r \in {q \in rs : q.how = "flushed"}}

\* What leaves the backlog is stored, shed or flushed, and stays so.
LEMMA LeftBacklog ==
  ASSUME Typed, DrainInv, Next
  PROVE  Rest(log, pos) \subseteq
           Rest(log', pos') \cup Range(stored') \cup shed' \cup FlushedOf(replayed')
  <1>0. QueueTyped /\ TasksTyped /\ BrokerTyped /\ Holding /\ Answered
    BY DEF Typed, DrainInv
  <1>1. log \in Seq(Events) /\ pos \in 0 .. Len(log)
    BY <1>0 DEF QueueTyped
  <1>2. Len(log) \in Nat
    BY <1>1, AnySeq
  <1>3. CASE UNCHANGED queueVars
    BY <1>3
  <1>4. CASE SpoolAppend
    <2>1. PICK k \in Overflow : /\ Put(publisher.event, k)
                                /\ shed' = shed \cup {log[i] : i \in pos + 1 .. k}
      BY <1>4 DEF SpoolAppend
    <2>2. k \in 0 .. Len(log) /\ publisher.event \in Events
      BY <1>0, <1>2, <1>4 DEF Overflow, SpoolAppend, TasksTyped
    <2>3. Rest(log, pos) \subseteq Rest(log', pos') \cup {log[i] : i \in pos + 1 .. k}
      BY <1>0, <2>1, <2>2, PutRest
    <2>q. QED
      BY <2>1, <2>3
  <1>5. CASE SpoolAppendFails
    <2>1. publisher.event \in Events /\ (UNCHANGED queueVars \/ Put(publisher.event, 0))
      BY <1>0, <1>5 DEF SpoolAppendFails, TasksTyped
    <2>2. CASE Put(publisher.event, 0)
      <3>1. 0 \in 0 .. Len(log)
        BY <1>2
      <3>2. Rest(log, pos) \subseteq Rest(log', pos') \cup {log[i] : i \in pos + 1 .. 0}
        BY <1>0, <2>1, <2>2, <3>1, PutRest
      <3>3. pos + 1 .. 0 = {}
        BY <1>1, <1>2
      <3>q. QED
        BY <3>2, <3>3
    <2>q. QED
      BY <1>3, <2>1, <2>2
  <1>6. CASE DrainPeek
    <2>1. UNCHANGED <<log, pos>>
      BY <1>6 DEF DrainPeek, Take
    <2>q. QED
      BY <2>1
  <1>7. CASE DrainSkip
    <2>1. drain.pc # "peek" /\ Advance /\ drain.record \in shed'
      BY <1>7 DEF DrainSkip
    <2>q. QED
      BY <1>0, <2>1, AdvanceRest
  <1>8. CASE DrainConfirm
    <2>1. drain.pc # "peek" /\ Advance /\ drain.pc \in {"acked", "flushed"}
      BY <1>8 DEF DrainConfirm
    <2>2. CASE drain.pc = "acked"
      <3>1. drain.record \in Range(stored')
        BY <1>0, <2>2, StoredGrows DEF Answered
      <3>q. QED
        BY <1>0, <2>1, <3>1, AdvanceRest
    <2>3. CASE drain.pc = "flushed"
      <3> DEFINE r == [event |-> drain.record, how |-> drain.pc, stream |-> stream]
      <3>1. r \in replayed' /\ r.how = "flushed" /\ r.event = drain.record
        BY <1>8, <2>3 DEF DrainConfirm
      <3> HIDE DEF r
      <3>2. drain.record \in FlushedOf(replayed')
        BY <3>1 DEF FlushedOf
      <3>q. QED
        BY <1>0, <2>1, <3>2, AdvanceRest
    <2>q. QED
      BY <2>1, <2>2, <2>3
  <1>9. CASE Stop \/ Crash
    <2>1. UNCHANGED log /\ pos' = 0
      BY <1>9 DEF Stop, Crash, Reopen
    <2>2. pos + 1 .. Len(log) \subseteq 0 + 1 .. Len(log)
      BY <1>1, <1>2
    <2>3. Rest(log, pos) \subseteq Rest(log, 0)
      BY <2>2 DEF Rest
    <2>q. QED
      BY <2>1, <2>3
  <1>q. QED
    BY <1>3, <1>4, <1>5, <1>6, <1>7, <1>8, <1>9, QueueCases

\* An event is counted as spooled by spool_append alone.
LEMMA SpooledCases ==
  ASSUME Typed, Next, NEW e \in Events, outcome'[e] = "spooled"
  PROVE  outcome[e] = "spooled" \/ (SpoolAppend /\ e = publisher.event)
  <1>0. outcome \in [Events -> Outcomes] /\ TasksTyped
    BY DEF Typed, HistoryTyped
  <1>1. CASE UNCHANGED outcome
    BY <1>1
  <1>2. CASE PublishOk
    <2>1. outcome' = [outcome EXCEPT ![publisher.event] = "published"]
      BY <1>2 DEF PublishOk
    <2>q. QED
      BY <1>0, <2>1
  <1>3. CASE SpoolAppendFails
    <2>1. outcome' = [outcome EXCEPT ![publisher.event] = "spool_failed"]
      BY <1>3 DEF SpoolAppendFails
    <2>q. QED
      BY <1>0, <2>1
  <1>4. CASE PublishStalls
    <2>1. UNCHANGED outcome \/ outcome' = [outcome EXCEPT ![publisher.event] = "dropped_backpressure"]
      BY <1>4 DEF PublishStalls
    <2>q. QED
      BY <1>0, <2>1
  <1>5. CASE SpoolAppend
    <2>1. outcome' = [outcome EXCEPT ![publisher.event] = "spooled"]
      BY <1>5 DEF SpoolAppend
    <2>q. QED
      BY <1>0, <1>5, <2>1
  <1>6. CASE Signal \/ Stop \/ RecordRots \/ Crash \/ Receive
    BY <1>1, <1>6 DEF Signal, Stop, RecordRots, Crash, Receive
  <1>7. CASE Draining
    BY <1>1, <1>7, Zenon DEF Draining, DrainPeek, DrainSkip, DrainPublish, DrainAcked,
         DrainNoResponders, DrainAckTimeout, DrainFallback, DrainFlushed, DrainConfirm
  <1>8. CASE Network
    BY <1>1, <1>8, Zenon DEF Network, LinkDrops, ClientNotices, Reconnects, BrokerReceives,
         WindowPasses, StreamGoes, StreamReturns
  <1>q. QED
    BY <1>2, <1>3, <1>4, <1>5, <1>6, <1>7, <1>8 DEF Next, Publishing

\* Every step keeps account of what was counted as spooled.
LEMMA SurvivesStep ==
  ASSUME Typed, Typed', DrainInv, SpooledSurvives, [Next]_runtimeVars
  PROVE  SpooledSurvives'
  <1>1. CASE Next
    <2>0. QueueTyped /\ BrokerTyped /\ TasksTyped
      BY DEF Typed
    <2>1. /\ log \in Seq(Events) /\ pos \in 0 .. Len(log)
          /\ log' \in Seq(Events) /\ pos' \in 0 .. Len(log')
      BY DEF Typed, QueueTyped
    <2>2. /\ Range(SubSeq(log, pos + 1, Len(log))) = Rest(log, pos)
          /\ Range(SubSeq(log', pos' + 1, Len(log'))) = Rest(log', pos')
      BY <2>1, BacklogIsRest
    <2>3. /\ Range(Backlog) = Rest(log, pos) /\ Flushed = FlushedOf(replayed)
          /\ Range(SubSeq(log', pos' + 1, Len(log'))) = Rest(log', pos')
      BY <2>2 DEF Backlog, Flushed, FlushedOf
    <2>4. shed \subseteq shed' /\ replayed \subseteq replayed'
      <3>1. CASE Publishing \/ Signal \/ Stop \/ RecordRots \/ Crash
        BY <3>1, Zenon DEF Publishing, Receive, PublishOk, PublishStalls, SpoolAppend,
             SpoolAppendFails, Signal, Stop, RecordRots, Crash
      <3>2. CASE Draining
        BY <3>2, Zenon DEF Draining, DrainPeek, DrainSkip, DrainPublish, DrainAcked,
             DrainNoResponders, DrainAckTimeout, DrainFallback, DrainFlushed, DrainConfirm
      <3>3. CASE Network
        BY <3>3, Zenon DEF Network, LinkDrops, ClientNotices, Reconnects, BrokerReceives,
             WindowPasses, StreamGoes, StreamReturns
      <3>q. QED
        BY <1>1, <3>1, <3>2, <3>3 DEF Next
    <2>5. FlushedOf(replayed) \subseteq FlushedOf(replayed')
      BY <2>4 DEF FlushedOf
    <2>6. Range(stored) \subseteq Range(stored')
      BY <1>1, <2>0, StoredGrows
    <2>7. ASSUME NEW e \in Events, outcome'[e] = "spooled"
          PROVE  e \in Rest(log', pos') \cup Range(stored') \cup shed' \cup FlushedOf(replayed')
      <3>1. CASE outcome[e] = "spooled"
        <4>1. e \in Rest(log, pos) \cup Range(stored) \cup shed \cup FlushedOf(replayed)
          BY <2>3, <3>1 DEF SpooledSurvives
        <4>q. QED
          BY <1>1, <2>4, <2>5, <2>6, <4>1, LeftBacklog
      <3>2. CASE SpoolAppend /\ e = publisher.event
        <4>1. PICK k \in Overflow : Put(e, k)
          BY <3>2 DEF SpoolAppend
        <4>2. Len(log) \in Nat
          BY <2>1, AnySeq
        <4>3. k \in 0 .. Len(log)
          BY <4>2 DEF Overflow
        <4>q. QED
          BY <2>0, <4>1, <4>3, PutRest
      <3>q. QED
        BY <1>1, <2>7, <3>1, <3>2, SpooledCases
    <2>8. /\ Range(Backlog)' = Rest(log', pos') /\ Flushed' = FlushedOf(replayed')
          /\ Range(stored)' = Range(stored')
      BY <2>3, Zenon DEF Backlog, Flushed, FlushedOf, Range
    <2>q. QED
      BY <2>7, <2>8 DEF SpooledSurvives
  <1>2. CASE UNCHANGED runtimeVars
    BY <1>2, Zenon DEF SpooledSurvives, Backlog, Flushed, runtimeVars, Range
  <1>q. QED
    BY <1>1, <1>2

\* spool_append, spawn_drain and the spool between them lose nothing silently:
\* an event counted as spooled is ahead of the drain on disk, stored in the
\* stream, dropped at the bound, skipped as corrupt, or flushed by a drain that
\* has met a subject without a stream, for any crashes, retries and link losses.
THEOREM SpooledSurvivesHolds == Spec => []SpooledSurvives
  <1>1. Init => Typed /\ DrainInv /\ SpooledSurvives
    <2>1. Init => SpooledSurvives
      BY DEF Init, SpooledSurvives
    <2>q. QED
      BY <2>1, TypedInit, DrainInvInit
  <1>2. Typed /\ DrainInv /\ SpooledSurvives /\ [Next]_runtimeVars
          => (Typed /\ DrainInv /\ SpooledSurvives)'
    BY TypedStep, DrainInvStep, SurvivesStep
  <1>q. QED
    BY <1>1, <1>2, PTL DEF Spec

============================================================================
