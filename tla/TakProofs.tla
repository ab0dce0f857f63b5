----------------------------- MODULE TakProofs -----------------------------
(***************************************************************************)
(* The order and the counters of the TAK egress relay, for every size of   *)
(* its buffer, channel and socket and any number of payloads and faults.   *)
(***************************************************************************)
EXTENDS TakEgress, TLAPS, FiniteSetTheorems

(* Sequences: their entries, and what the operators do to them. *)

\* In the order of the bus, and none twice.
Increasing(s) == \A i, j \in DOMAIN s : i < j => s[i] < s[j]
\* Everything in s came before everything in t.
Below(s, t) == \A i \in DOMAIN s, j \in DOMAIN t : s[i] < t[j]
\* Everything in s has been published.
UpTo(s, n) == \A i \in DOMAIN s : s[i] <= n

\* A sequence of numbers, its indices and its entries.
LEMMA SeqFacts ==
  ASSUME NEW s \in Seq(Nat)
  PROVE  Len(s) \in Nat /\ DOMAIN s = 1 .. Len(s) /\ \A i \in DOMAIN s : s[i] \in Nat
  OBVIOUS

\* Nothing is in the empty sequence.
LEMMA EmptyFacts ==
  /\ <<>> \in Seq(Nat) /\ Increasing(<<>>) /\ Len(<<>>) = 0
  /\ \A s : Below(<<>>, s) /\ Below(s, <<>>)
  /\ \A n : UpTo(<<>>, n)
  BY DEF Increasing, Below, UpTo

\* The entries behind the front.
LEMMA TailEntries ==
  ASSUME NEW s \in Seq(Nat), s # <<>>
  PROVE  /\ Tail(s) \in Seq(Nat) /\ Len(Tail(s)) = Len(s) - 1 /\ Len(s) >= 1
         /\ 1 \in DOMAIN s /\ s[1] \in Nat
         /\ DOMAIN Tail(s) = 1 .. Len(s) - 1
         /\ \A i \in DOMAIN Tail(s) : i + 1 \in DOMAIN s /\ Tail(s)[i] = s[i + 1]
  <1>1. Len(s) \in Nat /\ DOMAIN s = 1 .. Len(s) /\ Len(s) # 0
    BY SeqFacts
  <1>2. Tail(s) \in Seq(Nat) /\ Len(Tail(s)) = Len(s) - 1
    OBVIOUS
  <1>3. DOMAIN Tail(s) = 1 .. Len(s) - 1
    BY <1>2, SeqFacts
  <1>4. \A i \in 1 .. Len(s) - 1 : Tail(s)[i] = s[i + 1]
    BY <1>1
  <1>5. 1 \in DOMAIN s /\ \A i \in 1 .. Len(s) - 1 : i + 1 \in DOMAIN s
    BY <1>1
  <1>q. QED
    BY <1>1, <1>2, <1>3, <1>4, <1>5, SeqFacts

\* Taking the front keeps every order.
LEMMA TailOrder ==
  ASSUME NEW s \in Seq(Nat), s # <<>>
  PROVE  /\ Increasing(s) => Increasing(Tail(s))
         /\ \A n : UpTo(s, n) => UpTo(Tail(s), n)
         /\ \A t : Below(s, t) => Below(Tail(s), t)
         /\ \A t : Below(t, s) => Below(t, Tail(s))
  <1>1. Increasing(s) => Increasing(Tail(s))
    BY TailEntries, SeqFacts DEF Increasing
  <1>2. ASSUME NEW n, UpTo(s, n) PROVE UpTo(Tail(s), n)
    BY <1>2, TailEntries DEF UpTo
  <1>3. ASSUME NEW t, Below(s, t) PROVE Below(Tail(s), t)
    BY <1>3, TailEntries DEF Below
  <1>4. ASSUME NEW t, Below(t, s) PROVE Below(t, Tail(s))
    BY <1>4, TailEntries DEF Below
  <1>q. QED
    BY <1>1, <1>2, <1>3, <1>4

\* The front comes before the rest.
LEMMA FrontOrder ==
  ASSUME NEW s \in Seq(Nat), s # <<>>, Increasing(s)
  PROVE  \A j \in DOMAIN Tail(s) : s[1] < Tail(s)[j]
  BY TailEntries, SeqFacts DEF Increasing

\* The entries of a sequence with one more at the back.
LEMMA AppendEntries ==
  ASSUME NEW s \in Seq(Nat), NEW x \in Nat
  PROVE  /\ Append(s, x) \in Seq(Nat) /\ Len(Append(s, x)) = Len(s) + 1
         /\ DOMAIN Append(s, x) = 1 .. Len(s) + 1
         /\ \A i \in DOMAIN s : Append(s, x)[i] = s[i]
         /\ Append(s, x)[Len(s) + 1] = x
         /\ \A i \in DOMAIN Append(s, x) : i \in DOMAIN s \/ i = Len(s) + 1
  <1>1. Len(s) \in Nat /\ DOMAIN s = 1 .. Len(s)
    BY SeqFacts
  <1>2. Append(s, x) \in Seq(Nat) /\ Len(Append(s, x)) = Len(s) + 1
    OBVIOUS
  <1>3. DOMAIN Append(s, x) = 1 .. Len(s) + 1
    BY <1>2, SeqFacts
  <1>4. (\A i \in DOMAIN s : Append(s, x)[i] = s[i]) /\ Append(s, x)[Len(s) + 1] = x
    BY <1>1
  <1>5. \A i \in 1 .. Len(s) + 1 : i \in 1 .. Len(s) \/ i = Len(s) + 1
    BY <1>1
  <1>q. QED
    BY <1>1, <1>2, <1>3, <1>4, <1>5

\* Adding at the back what came later keeps every order.
LEMMA AppendOrder ==
  ASSUME NEW s \in Seq(Nat), NEW x \in Nat
  PROVE  /\ Increasing(s) /\ (\A i \in DOMAIN s : s[i] < x) => Increasing(Append(s, x))
         /\ \A n : UpTo(s, n) /\ x <= n => UpTo(Append(s, x), n)
         /\ \A t : Below(s, t) /\ (\A j \in DOMAIN t : x < t[j]) => Below(Append(s, x), t)
         /\ \A t : Below(t, s) /\ (\A j \in DOMAIN t : t[j] < x) => Below(t, Append(s, x))
  <1>1. ASSUME Increasing(s), \A i \in DOMAIN s : s[i] < x PROVE Increasing(Append(s, x))
    BY <1>1, AppendEntries, SeqFacts DEF Increasing
  <1>2. ASSUME NEW n, UpTo(s, n), x <= n PROVE UpTo(Append(s, x), n)
    BY <1>2, AppendEntries DEF UpTo
  <1>3. ASSUME NEW t, Below(s, t), \A j \in DOMAIN t : x < t[j] PROVE Below(Append(s, x), t)
    BY <1>3, AppendEntries DEF Below
  <1>4. ASSUME NEW t, Below(t, s), \A j \in DOMAIN t : t[j] < x PROVE Below(t, Append(s, x))
    BY <1>4, AppendEntries DEF Below
  <1>q. QED
    BY <1>1, <1>2, <1>3, <1>4

\* A bounded buffer takes one more: what is given up is the oldest entry, so what
\* stays and the new one are in order, and the count of what is given up makes up
\* for the length.
LEMMA PushOrder ==
  ASSUME NEW s \in Seq(Nat), NEW max \in Nat \ {0}, NEW x \in Nat
  PROVE  LET kept == IF Len(s) >= max THEN Tail(s) ELSE s
             drops == IF Len(s) >= max THEN 1 ELSE 0
             added == Append(kept, x)
         IN  /\ added \in Seq(Nat)
             /\ drops \in {0, 1}
             /\ Len(added) + drops = Len(s) + 1
             /\ Increasing(s) /\ (\A i \in DOMAIN s : s[i] < x) => Increasing(added)
             /\ \A n : UpTo(s, n) /\ x <= n => UpTo(added, n)
             /\ \A t : Below(s, t) /\ (\A j \in DOMAIN t : x < t[j]) => Below(added, t)
             /\ \A t : Below(t, s) /\ (\A j \in DOMAIN t : t[j] < x) => Below(t, added)
  <1>d. DEFINE kept == IF Len(s) >= max THEN Tail(s) ELSE s
               drops == IF Len(s) >= max THEN 1 ELSE 0
  <1>0. Len(s) \in Nat /\ (Len(s) >= max => s # <<>>)
    BY SeqFacts, EmptyFacts
  <1>1. kept \in Seq(Nat) /\ Len(kept) + drops = Len(s) /\ drops \in {0, 1}
    BY <1>0, TailEntries
  <1>2. /\ Increasing(s) => Increasing(kept)
        /\ \A n : UpTo(s, n) => UpTo(kept, n)
        /\ \A t : Below(s, t) => Below(kept, t)
        /\ \A t : Below(t, s) => Below(t, kept)
    BY <1>0, TailOrder
  <1>3. (\A i \in DOMAIN s : s[i] < x) => \A i \in DOMAIN kept : kept[i] < x
    BY <1>0, TailEntries
  <1> HIDE DEF kept, drops
  <1>5. Append(kept, x) \in Seq(Nat) /\ Len(Append(kept, x)) = Len(kept) + 1 /\ Len(kept) \in Nat
    BY <1>1, AppendEntries, SeqFacts
  <1>6. Len(Append(kept, x)) + drops = Len(s) + 1
    BY <1>0, <1>1, <1>5
  <1>7. /\ Increasing(s) /\ (\A i \in DOMAIN s : s[i] < x) => Increasing(Append(kept, x))
        /\ \A n : UpTo(s, n) /\ x <= n => UpTo(Append(kept, x), n)
        /\ \A t : Below(s, t) /\ (\A j \in DOMAIN t : x < t[j]) => Below(Append(kept, x), t)
        /\ \A t : Below(t, s) /\ (\A j \in DOMAIN t : t[j] < x) => Below(t, Append(kept, x))
    BY <1>1, <1>2, <1>3, AppendOrder
  <1>q. QED
    BY <1>1, <1>5, <1>6, <1>7 DEF kept, drops

----------------------------------------------------------------------------

\* The payloads on their way, oldest first: read by TAK, on the wire, buffered, in the
\* subscription's channel.  A datagram link has neither a connection nor a wire.
TakTyped ==
  /\ arrived \in Nat /\ inbox \in Seq(Nat) /\ buffer \in Seq(Nat)
  /\ wire \in Seq(Nat) /\ tak \in Seq(Nat)
  /\ delivered \in Nat /\ gap_dropped \in Nat
  /\ pushed \subseteq 1 .. arrived

InOrder ==
  /\ Increasing(tak) /\ Increasing(wire) /\ Increasing(buffer) /\ Increasing(inbox)
  /\ Below(tak, wire) /\ Below(tak, buffer) /\ Below(tak, inbox)
  /\ Below(wire, buffer) /\ Below(wire, inbox) /\ Below(buffer, inbox)
  /\ UpTo(tak, arrived) /\ UpTo(wire, arrived) /\ UpTo(buffer, arrived) /\ UpTo(inbox, arrived)

LinkState ==
  /\ pc \in {"connect", "write"} => buffer # <<>>
  /\ datagram \in BOOLEAN
  /\ datagram => stream = TRUE /\ conn = "none" /\ wire = <<>> /\ pc # "connect"

\* Every entry of the channel is still to be pushed.
Unpushed == \A i \in DOMAIN inbox : inbox[i] >= 1 /\ \A n \in pushed : n < inbox[i]

TakInv == TakTyped /\ InOrder /\ LinkState /\ Unpushed /\ Accounted

\* Nothing has arrived.
LEMMA TakInit == Init => TakInv
  <1> SUFFICES ASSUME Init PROVE TakInv
    OBVIOUS
  <1>1. TakTyped
    BY EmptyFacts DEF Init, TakTyped
  <1>2. InOrder
    BY EmptyFacts DEF Init, InOrder
  <1>3. LinkState
    BY DEF Init, LinkState
  <1>4. Unpushed
    BY DEF Init, Unpushed
  <1>5. Accounted
    BY FS_EmptySet, EmptyFacts DEF Init, Accounted
  <1>q. QED
    BY <1>1, <1>2, <1>3, <1>4, <1>5 DEF TakInv

\* A step that moves no payload.
LEMMA TakStays ==
  ASSUME TakInv, UNCHANGED <<arrived, inbox, pushed, relayVars, wire, tak>>, LinkState'
  PROVE  TakInv'
  <1>1. TakTyped' /\ InOrder'
    BY DEF TakInv, TakTyped, InOrder, relayVars
  <1>2. Unpushed' /\ Accounted'
    BY DEF TakInv, Unpushed, Accounted, relayVars
  <1>q. QED
    BY <1>1, <1>2 DEF TakInv

\* The counters when the front of the buffer is sent.
LEMMA SentCounts ==
  ASSUME TakInv, Sent, buffer # <<>>, UNCHANGED pushed
  PROVE  Accounted' /\ delivered' \in Nat /\ gap_dropped' \in Nat
  <1>1. Len(Tail(buffer)) = Len(buffer) - 1 /\ Len(buffer) \in Nat
    BY TailEntries, SeqFacts DEF TakInv, TakTyped
  <1>2. /\ buffer' = Tail(buffer) /\ delivered' = delivered + 1 /\ gap_dropped' = gap_dropped
        /\ delivered \in Nat /\ gap_dropped \in Nat
    BY DEF Sent, TakInv, TakTyped
  <1>3. Cardinality(pushed') = delivered + gap_dropped + Len(buffer)
    BY DEF TakInv, Accounted
  <1>q. QED
    BY <1>1, <1>2, <1>3 DEF Accounted

\* The stream takes the payload at the front, or takes it in vain.
LEMMA WriteOkKeeps ==
  ASSUME TakInv, WriteOk PROVE TakInv'
  <1>1. /\ buffer # <<>> /\ Sent /\ buffer' = Tail(buffer) /\ pc' = "drain"
        /\ UNCHANGED <<arrived, inbox, pushed, tak, datagram>> /\ datagram = FALSE
    BY DEF WriteOk, Sent, busVars, TakInv, LinkState
  <1>2. /\ buffer \in Seq(Nat) /\ wire \in Seq(Nat) /\ 1 \in DOMAIN buffer /\ buffer[1] \in Nat
        /\ Tail(buffer) \in Seq(Nat)
    BY <1>1, TailEntries DEF TakInv, TakTyped
  <1>3. Accounted' /\ delivered' \in Nat /\ gap_dropped' \in Nat
    BY <1>1, SentCounts
  <1>4. /\ Increasing(Tail(buffer)) /\ UpTo(Tail(buffer), arrived)
        /\ Below(tak, Tail(buffer)) /\ Below(wire, Tail(buffer)) /\ Below(Tail(buffer), inbox)
    BY <1>1, <1>2, TailOrder DEF TakInv, InOrder
  <1>5. /\ wire' \in Seq(Nat) /\ Increasing(wire') /\ UpTo(wire', arrived)
        /\ Below(tak, wire') /\ Below(wire', Tail(buffer)) /\ Below(wire', inbox)
    <2>1. CASE wire' = wire
      BY <1>2, <1>4, <2>1 DEF TakInv, InOrder
    <2>2. CASE wire' = Append(wire, buffer[1])
      <3>1. wire' \in Seq(Nat)
        BY <1>2, <2>2, AppendEntries
      <3>2. \A i \in DOMAIN wire : wire[i] < buffer[1]
        BY <1>2 DEF TakInv, InOrder, Below
      <3>3. \A i \in DOMAIN tak : tak[i] < buffer[1]
        BY <1>2 DEF TakInv, InOrder, Below
      <3>4. \A j \in DOMAIN inbox : buffer[1] < inbox[j]
        BY <1>2 DEF TakInv, InOrder, Below
      <3>5. \A j \in DOMAIN Tail(buffer) : buffer[1] < Tail(buffer)[j]
        BY <1>1, <1>2, FrontOrder DEF TakInv, InOrder
      <3>6. buffer[1] <= arrived
        BY <1>2 DEF TakInv, InOrder, UpTo
      <3>q. QED
        BY <1>2, <1>4, <2>2, <3>1, <3>2, <3>3, <3>4, <3>5, <3>6, AppendOrder, Zenon DEF TakInv, InOrder
    <2>q. QED
      BY <2>1, <2>2 DEF WriteOk
  <1>6. TakTyped'
    BY <1>1, <1>2, <1>3, <1>5 DEF TakInv, TakTyped
  <1>7. InOrder'
    BY <1>1, <1>4, <1>5 DEF TakInv, InOrder
  <1>8. LinkState' /\ Unpushed'
    BY <1>1 DEF TakInv, LinkState, Unpushed
  <1>q. QED
    BY <1>3, <1>6, <1>7, <1>8 DEF TakInv

\* A datagram takes the front of the buffer to TAK, or is lost.
LEMMA DatagramSentKeeps ==
  ASSUME TakInv, DatagramSent PROVE TakInv'
  <1>1. /\ buffer # <<>> /\ Sent /\ buffer' = Tail(buffer) /\ pc' = "drain"
        /\ UNCHANGED <<arrived, inbox, pushed, wire, datagram, stream, conn>> /\ wire = <<>>
    BY DEF DatagramSent, Sent, busVars, linkVars, TakInv, LinkState
  <1>2. /\ buffer \in Seq(Nat) /\ tak \in Seq(Nat) /\ 1 \in DOMAIN buffer /\ buffer[1] \in Nat
        /\ Tail(buffer) \in Seq(Nat)
    BY <1>1, TailEntries DEF TakInv, TakTyped
  <1>3. Accounted' /\ delivered' \in Nat /\ gap_dropped' \in Nat
    BY <1>1, SentCounts
  <1>4. /\ Increasing(Tail(buffer)) /\ UpTo(Tail(buffer), arrived)
        /\ Below(tak, Tail(buffer)) /\ Below(Tail(buffer), inbox)
    BY <1>1, <1>2, TailOrder DEF TakInv, InOrder
  <1>5. /\ tak' \in Seq(Nat) /\ Increasing(tak') /\ UpTo(tak', arrived)
        /\ Below(tak', Tail(buffer)) /\ Below(tak', inbox)
    <2>1. CASE tak' = tak
      BY <1>2, <1>4, <2>1 DEF TakInv, InOrder
    <2>2. CASE tak' = Append(tak, buffer[1])
      <3>1. tak' \in Seq(Nat)
        BY <1>2, <2>2, AppendEntries
      <3>2. \A i \in DOMAIN tak : tak[i] < buffer[1]
        BY <1>2 DEF TakInv, InOrder, Below
      <3>3. \A j \in DOMAIN inbox : buffer[1] < inbox[j]
        BY <1>2 DEF TakInv, InOrder, Below
      <3>4. \A j \in DOMAIN Tail(buffer) : buffer[1] < Tail(buffer)[j]
        BY <1>1, <1>2, FrontOrder DEF TakInv, InOrder
      <3>5. buffer[1] <= arrived
        BY <1>2 DEF TakInv, InOrder, UpTo
      <3>q. QED
        BY <1>2, <1>4, <2>2, <3>1, <3>2, <3>3, <3>4, <3>5, AppendOrder, Zenon DEF TakInv, InOrder
    <2>q. QED
      BY <2>1, <2>2 DEF DatagramSent
  <1>6. TakTyped'
    BY <1>1, <1>2, <1>3, <1>5 DEF TakInv, TakTyped
  <1>7. InOrder'
    BY <1>1, <1>4, <1>5, EmptyFacts DEF TakInv, InOrder
  <1>8. LinkState' /\ Unpushed'
    BY <1>1 DEF TakInv, LinkState, Unpushed
  <1>q. QED
    BY <1>3, <1>6, <1>7, <1>8 DEF TakInv

\* A new connection, or the end of one, leaves nothing on the wire.
LEMMA WireEmptied ==
  ASSUME TakInv, ConnectOk \/ ConnDies PROVE TakInv'
  <1>1. UNCHANGED <<arrived, inbox, pushed, relayVars, tak, datagram>> /\ wire' = <<>>
    BY DEF ConnectOk, ConnDies, busVars
  <1>2. TakTyped' /\ InOrder'
    BY <1>1, EmptyFacts DEF TakInv, TakTyped, InOrder, relayVars
  <1>3. Unpushed' /\ Accounted'
    BY <1>1 DEF TakInv, Unpushed, Accounted, relayVars
  <1>4. LinkState'
    <2>1. ~datagram
      BY DEF TakInv, LinkState, ConnectOk, ConnDies
    <2>2. pc' \in {"connect", "write"} => buffer' # <<>>
      <3>1. pc \in {"connect", "write"} => buffer # <<>>
        BY DEF TakInv, LinkState
      <3>q. QED
        BY <1>1, <3>1 DEF ConnectOk, ConnDies, relayVars
    <2>q. QED
      BY <1>1, <2>1, <2>2 DEF TakInv, LinkState
  <1>q. QED
    BY <1>2, <1>3, <1>4 DEF TakInv

\* TAK reads the front of the wire.
LEMMA TakReadsKeeps ==
  ASSUME TakInv, TakReads PROVE TakInv'
  <1>1. /\ UNCHANGED <<arrived, inbox, pushed, relayVars, datagram, stream, conn, pc>>
        /\ wire # <<>> /\ wire' = Tail(wire) /\ tak' = Append(tak, wire[1]) /\ ~datagram
    BY DEF TakReads, busVars, linkVars, TakInv, LinkState
  <1>2. /\ wire \in Seq(Nat) /\ tak \in Seq(Nat) /\ 1 \in DOMAIN wire /\ wire[1] \in Nat
        /\ Tail(wire) \in Seq(Nat) /\ Append(tak, wire[1]) \in Seq(Nat)
    BY <1>1, TailEntries, AppendEntries DEF TakInv, TakTyped
  <1>3. TakTyped'
    BY <1>1, <1>2 DEF TakInv, TakTyped, relayVars
  <1>4. /\ \A i \in DOMAIN tak : tak[i] < wire[1]
        /\ \A j \in DOMAIN inbox : wire[1] < inbox[j]
        /\ \A j \in DOMAIN buffer : wire[1] < buffer[j]
        /\ wire[1] <= arrived
    BY <1>2 DEF TakInv, InOrder, Below, UpTo
  <1>5. \A j \in DOMAIN Tail(wire) : wire[1] < Tail(wire)[j]
    BY <1>1, <1>2, FrontOrder DEF TakInv, InOrder
  <1>6. /\ Increasing(Tail(wire)) /\ UpTo(Tail(wire), arrived)
        /\ Below(tak, Tail(wire)) /\ Below(Tail(wire), buffer) /\ Below(Tail(wire), inbox)
    BY <1>1, <1>2, TailOrder DEF TakInv, InOrder
  <1>7. /\ Increasing(tak') /\ UpTo(tak', arrived) /\ Below(tak', Tail(wire))
        /\ Below(tak', buffer) /\ Below(tak', inbox)
    BY <1>1, <1>2, <1>4, <1>5, <1>6, AppendOrder, Zenon DEF TakInv, InOrder
  <1>8. InOrder'
    BY <1>1, <1>6, <1>7 DEF TakInv, InOrder, relayVars
  <1>9. LinkState' /\ Unpushed' /\ Accounted'
    BY <1>1 DEF TakInv, LinkState, Unpushed, Accounted, relayVars
  <1>q. QED
    BY <1>3, <1>8, <1>9 DEF TakInv

\* A payload arrives on the bus: into the channel, or lost where that is full.
LEMMA ArriveKeeps ==
  ASSUME TakInv, Arrive PROVE TakInv'
  <1>1. /\ UNCHANGED <<pushed, relayVars, wire, tak, datagram, stream, conn, pc>>
        /\ arrived' = arrived + 1 /\ arrived \in Nat /\ inbox \in Seq(Nat)
        /\ inbox' = inbox \/ inbox' = Append(inbox, arrived + 1)
    BY DEF Arrive, linkVars, peerVars, TakInv, TakTyped
  <1>2. \A s \in Seq(Nat) : UpTo(s, arrived) => UpTo(s, arrived + 1) /\ \A i \in DOMAIN s : s[i] < arrived + 1
    BY <1>1, SeqFacts DEF UpTo
  <1>3. inbox' \in Seq(Nat)
    BY <1>1, AppendEntries
  <1>4. TakTyped'
    <2>1. 1 .. arrived \subseteq 1 .. arrived + 1
      BY <1>1
    <2>q. QED
      BY <1>1, <1>3, <2>1 DEF TakInv, TakTyped, relayVars
  <1>5. /\ Increasing(inbox') /\ Below(tak, inbox') /\ Below(wire, inbox') /\ Below(buffer, inbox')
        /\ UpTo(inbox', arrived + 1)
    <2>1. CASE inbox' = inbox
      BY <1>1, <1>2, <2>1 DEF TakInv, InOrder
    <2>2. CASE inbox' = Append(inbox, arrived + 1)
      <3>1. /\ \A i \in DOMAIN inbox : inbox[i] < arrived + 1
            /\ \A i \in DOMAIN tak : tak[i] < arrived + 1
            /\ \A i \in DOMAIN wire : wire[i] < arrived + 1
            /\ \A i \in DOMAIN buffer : buffer[i] < arrived + 1
            /\ UpTo(inbox, arrived + 1)
        BY <1>2 DEF TakInv, TakTyped, InOrder
      <3>2. arrived + 1 \in Nat /\ arrived + 1 <= arrived + 1
        BY <1>1
      <3>q. QED
        BY <1>1, <2>2, <3>1, <3>2, AppendOrder DEF TakInv, InOrder
    <2>q. QED
      BY <1>1, <2>1, <2>2
  <1>6. InOrder'
    BY <1>1, <1>2, <1>5 DEF TakInv, TakTyped, InOrder, relayVars
  <1>7. Unpushed'
    <2>1. CASE inbox' = inbox
      BY <1>1, <2>1 DEF TakInv, Unpushed
    <2>2. CASE inbox' = Append(inbox, arrived + 1)
      <3>1. \A n \in pushed : n < arrived + 1
        BY <1>1 DEF TakInv, TakTyped
      <3>2. arrived + 1 \in Nat /\ arrived + 1 >= 1
        BY <1>1
      <3>q. QED
        BY <1>1, <2>2, <3>1, <3>2, AppendEntries DEF TakInv, Unpushed
    <2>q. QED
      BY <1>1, <2>1, <2>2
  <1>8. LinkState' /\ Accounted'
    BY <1>1 DEF TakInv, LinkState, Accounted, relayVars
  <1>q. QED
    BY <1>4, <1>6, <1>7, <1>8 DEF TakInv

\* Relay::push takes the front of the channel into the buffer.
LEMMA SelectPushKeeps ==
  ASSUME TakInv, SelectPush PROVE TakInv'
  <1>d. DEFINE x == inbox[1]
  <1>1. /\ UNCHANGED <<arrived, wire, tak, datagram, stream, conn, delivered>> /\ inbox # <<>>
        /\ inbox' = Tail(inbox) /\ pushed' = pushed \cup {x} /\ pc' = "drain"
        /\ buffer' = Push(buffer, BufferMax, x)
        /\ gap_dropped' = gap_dropped + PushDrops(buffer, BufferMax)
    BY DEF SelectPush, linkVars, peerVars
  <1>2. /\ inbox \in Seq(Nat) /\ buffer \in Seq(Nat) /\ 1 \in DOMAIN inbox /\ x \in Nat
        /\ Tail(inbox) \in Seq(Nat) /\ BufferMax \in Nat \ {0}
    BY <1>1, TailEntries, TakAssumption DEF TakInv, TakTyped
  <1>3. /\ \A i \in DOMAIN buffer : buffer[i] < x
        /\ \A i \in DOMAIN wire : wire[i] < x
        /\ \A i \in DOMAIN tak : tak[i] < x
        /\ x <= arrived /\ x >= 1 /\ x \notin pushed
    BY <1>2 DEF TakInv, InOrder, Below, UpTo, Unpushed
  <1>4. \A j \in DOMAIN Tail(inbox) : x < Tail(inbox)[j]
    BY <1>1, <1>2, FrontOrder DEF TakInv, InOrder
  <1>5. /\ Increasing(Tail(inbox)) /\ UpTo(Tail(inbox), arrived)
        /\ Below(tak, Tail(inbox)) /\ Below(wire, Tail(inbox)) /\ Below(buffer, Tail(inbox))
    BY <1>1, <1>2, TailOrder DEF TakInv, InOrder
  <1> HIDE DEF x
  <1>6. /\ buffer' \in Seq(Nat) /\ Increasing(buffer') /\ UpTo(buffer', arrived)
        /\ Below(buffer', Tail(inbox)) /\ Below(tak, buffer') /\ Below(wire, buffer')
    BY <1>1, <1>2, <1>3, <1>4, <1>5, PushOrder, Zenon DEF Push, TakInv, InOrder
  <1>7. PushDrops(buffer, BufferMax) \in {0, 1} /\ Len(buffer') + PushDrops(buffer, BufferMax) = Len(buffer) + 1
    BY <1>1, <1>2, PushOrder DEF Push, PushDrops
  <1>8. TakTyped'
    <2>1. gap_dropped' \in Nat
      BY <1>1, <1>7 DEF TakInv, TakTyped
    <2>2. pushed' \subseteq 1 .. arrived
      BY <1>1, <1>2, <1>3 DEF TakInv, TakTyped
    <2>q. QED
      BY <1>1, <1>2, <1>6, <2>1, <2>2 DEF TakInv, TakTyped
  <1>9. InOrder'
    BY <1>1, <1>5, <1>6 DEF TakInv, InOrder
  <1>10. Unpushed'
    <2>1. \A i \in DOMAIN Tail(inbox) : i + 1 \in DOMAIN inbox /\ Tail(inbox)[i] = inbox[i + 1]
      BY <1>1, <1>2, TailEntries
    <2>q. QED
      BY <1>1, <1>4, <2>1 DEF TakInv, Unpushed
  <1>11. Accounted'
    <2>1. IsFiniteSet(pushed)
      <3>1. IsFiniteSet(1 .. arrived)
        BY FS_Interval DEF TakInv, TakTyped
      <3>q. QED
        BY <3>1, FS_Subset, Zenon DEF TakInv, TakTyped
    <2>2. Cardinality(pushed') = Cardinality(pushed) + 1
      BY <1>1, <1>3, <2>1, FS_AddElement, Zenon
    <2>3. /\ Len(buffer) \in Nat /\ Len(buffer') \in Nat /\ delivered \in Nat /\ gap_dropped \in Nat
          /\ Cardinality(pushed) = delivered + gap_dropped + Len(buffer)
      BY <1>2, <1>6, SeqFacts DEF TakInv, TakTyped, Accounted
    <2>q. QED
      BY <1>1, <1>7, <2>2, <2>3 DEF Accounted
  <1>12. LinkState'
    BY <1>1 DEF TakInv, LinkState
  <1>q. QED
    BY <1>8, <1>9, <1>10, <1>11, <1>12 DEF TakInv

\* Every step keeps the invariant.
LEMMA TakStep == TakInv /\ [Next]_takVars => TakInv'
  <1> SUFFICES ASSUME TakInv, [Next]_takVars PROVE TakInv'
    OBVIOUS
  <1>1. CASE UNCHANGED takVars
    <2>1. LinkState'
      BY <1>1 DEF TakInv, LinkState, takVars, busVars, relayVars, linkVars, peerVars
    <2>q. QED
      BY <1>1, <2>1, TakStays DEF takVars, busVars, peerVars
  <1>2. CASE DrainNext \/ ConnectFails \/ WriteFails \/ DatagramFails \/ SelectRetry
               \/ SelectShutdown \/ FinalTimeout \/ TakReturns \/ Signal
    <2>1. UNCHANGED <<arrived, inbox, pushed, relayVars, wire, tak, datagram, conn>>
      BY <1>2 DEF DrainNext, ConnectFails, WriteFails, DatagramFails, SelectRetry, SelectShutdown,
                  FinalTimeout, TakReturns, Signal, busVars, peerVars
    <2>2. LinkState'
      <3>1. pc' \in {"connect", "write"} => buffer # <<>>
        BY <1>2 DEF DrainNext, ConnectFails, WriteFails, DatagramFails, SelectRetry, SelectShutdown,
                    FinalTimeout, TakReturns, Signal, DrainEnds, TakInv, LinkState
      <3>2. datagram => stream' = TRUE /\ pc' # "connect"
        BY <1>2, Zenon DEF DrainNext, ConnectFails, WriteFails, DatagramFails, SelectRetry, SelectShutdown,
                    FinalTimeout, TakReturns, Signal, DrainEnds, linkVars, TakInv, LinkState
      <3>q. QED
        BY <2>1, <3>1, <3>2 DEF TakInv, LinkState, relayVars
    <2>q. QED
      BY <2>1, <2>2, TakStays
  <1>q. QED
    BY <1>1, <1>2, WireEmptied, WriteOkKeeps, DatagramSentKeeps, SelectPushKeeps, ArriveKeeps,
       TakReadsKeeps DEF Next, Sending, Selecting, World

\* Whatever the sizes and the faults, the counters of Relay::push and Relay::drain and
\* the buffer account for every payload once.
THEOREM AccountedHolds == Spec => []Accounted
  <1>1. TakInv => Accounted
    BY DEF TakInv
  <1>q. QED
    BY <1>1, TakInit, TakStep, PTL DEF Spec

\* And TAK sees payloads in bus order, none twice: what is on the wire, in the buffer and
\* in the channel is in order too, each part behind the one before.
THEOREM TakSeesInOrderHolds == Spec => []TakSeesInOrder
  <1>1. TakInv => TakSeesInOrder
    BY DEF TakInv, InOrder, Increasing, TakSeesInOrder
  <1>q. QED
    BY <1>1, TakInit, TakStep, PTL DEF Spec
=============================================================================
