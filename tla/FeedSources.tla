---------------------------- MODULE FeedSources ----------------------------
(***************************************************************************)
(* The transports whose frames arrive as messages: ws-client and mqtt,     *)
(* which subscribe to a server, rest-poll, which asks one, and             *)
(* pcap-replay, which reads a capture.                                     *)
(*                                                                         *)
(* A message is a record of a number and a size.  rumqttc keeps the        *)
(* requests that were not sent when a connection fails (external).         *)
(***************************************************************************)
EXTENDS Transport, SequencesExt, FiniteSetsExt

CONSTANTS FeedMaxFrame,  \* MAX_FRAME_BYTES
          FeedSizes,     \* message sizes, some above it
          RetryMax,      \* RETRY_MAX, in units of RETRY_MIN
          MaxMessages,   \* bound: messages of a server
          MaxOutages,    \* bound: connections lost and servers unreachable
          MqttChannel,   \* capacity of the channel to rumqttc's event loop
          MaxPollErrors, \* bound: connections mqtt fails to open
          Packets,       \* captures: sequences of packets
          MaxGap,        \* max_gap_ms
          MaxReplays     \* bound: frames replayed

ASSUME FeedAssumption ==
  /\ FeedMaxFrame \in Nat /\ FeedSizes \subseteq Nat /\ RetryMax \in Nat \ {0}
  /\ MaxMessages \in Nat /\ MaxOutages \in Nat /\ MaxGap \in Nat /\ MaxReplays \in Nat
  /\ MqttChannel \in Nat \ {0} /\ MaxPollErrors \in Nat
  /\ \A p \in Packets : p \in Seq([ts : Nat, udp : BOOLEAN, torn : BOOLEAN])

IsFeed == kind \in {"ws-client", "mqtt", "rest-poll"}
IsReplay == kind = "pcap-replay"

Least(a, b) == IF a < b THEN a ELSE b

\* ws drops a message above the buffer; mqtt and rest-poll cut it to the buffer.
Received(msg) ==
  IF kind = "ws-client" THEN IF msg.size > FeedMaxFrame THEN <<>> ELSE <<msg>>
  ELSE <<[msg EXCEPT !.size = Least(@, FeedMaxFrame)]>>

FeedInit ==
  /\ kind \in Kinds \cap {"ws-client", "mqtt", "rest-poll"}
  /\ source = [link |-> FALSE, subscribed |-> FALSE, requests |-> 0, errors |-> 0,
               backoff |-> 1]
  /\ peer = [reachable |-> TRUE, conn |-> FALSE, sub |-> FALSE, wire |-> <<>>, sent |-> <<>>,
             outages |-> 0]
  /\ delivered = <<>>
-----------------------------------------------------------------------------
(* The server (external).  A connection the server lost is found so when read. *)

Alive == source.link /\ peer.conn

ServerSends(n) ==
  /\ IsFeed /\ Len(peer.sent) < MaxMessages
  /\ IF kind = "rest-poll" THEN peer.wire = <<>> ELSE Alive /\ peer.sub
  /\ LET msg == [id |-> Len(peer.sent) + 1, size |-> n] IN
       peer' = [peer EXCEPT !.wire = Append(@, msg), !.sent = Append(@, msg)]
  /\ UNCHANGED <<kind, source, delivered>>

\* The server goes away, what is under way lost and the subscription forgotten.
ServerFails ==
  /\ IsFeed /\ peer.reachable /\ peer.outages < MaxOutages
  /\ peer' = [peer EXCEPT !.reachable = FALSE, !.conn = FALSE, !.sub = FALSE,
                          !.wire = <<>>, !.outages = @ + 1]
  /\ UNCHANGED <<kind, source, delivered>>

ServerReturns ==
  /\ IsFeed /\ ~peer.reachable
  /\ peer' = [peer EXCEPT !.reachable = TRUE]
  /\ UNCHANGED <<kind, source, delivered>>

-----------------------------------------------------------------------------
(* ws-client *)

\* dial: handshake and subscription; the backoff starts over.
Dial ==
  /\ kind = "ws-client" /\ ~source.link /\ peer.reachable
  /\ source' = [source EXCEPT !.link = TRUE, !.backoff = 1]
  /\ peer' = [peer EXCEPT !.conn = TRUE, !.sub = TRUE]
  /\ UNCHANGED <<kind, delivered>>

DialFails ==
  /\ kind = "ws-client" /\ ~source.link /\ ~peer.reachable
  /\ source' = [source EXCEPT !.backoff = Least(2 * @, RetryMax)]
  /\ UNCHANGED <<kind, peer, delivered>>

\* A connection that closed or failed is found so by the next read.
WsDrops ==
  /\ kind = "ws-client" /\ source.link /\ ~peer.conn
  /\ source' = [source EXCEPT !.link = FALSE]
  /\ UNCHANGED <<kind, peer, delivered>>
-----------------------------------------------------------------------------
(* mqtt *)

\* recv asks for the subscription before it polls; it waits while the channel to
\* the event loop is full.
MqttSubscribe ==
  /\ kind = "mqtt" /\ ~source.subscribed /\ source.requests < MqttChannel
  /\ source' = [source EXCEPT !.subscribed = TRUE, !.requests = @ + 1]
  /\ UNCHANGED <<kind, peer, delivered>>

MqttPollConnects ==
  /\ kind = "mqtt" /\ source.subscribed /\ ~source.link /\ peer.reachable
  /\ source' = [source EXCEPT !.link = TRUE]
  /\ peer' = [peer EXCEPT !.conn = TRUE]
  /\ UNCHANGED <<kind, delivered>>

\* The event loop sends the requests it holds.
MqttPollRequests ==
  /\ kind = "mqtt" /\ source.subscribed /\ Alive /\ source.requests > 0
  /\ source' = [source EXCEPT !.requests = 0]
  /\ peer' = [peer EXCEPT !.sub = TRUE]
  /\ UNCHANGED <<kind, delivered>>

PollErrs ==
  /\ kind = "mqtt" /\ source.subscribed /\ ~Alive
  /\ source.link \/ (~peer.reachable /\ source.errors < MaxPollErrors)

\* An error of poll, connected or not: the next turn subscribes again.
MqttPollErr ==
  /\ PollErrs
  /\ source' = [source EXCEPT !.link = FALSE, !.subscribed = FALSE, !.errors = IF source.link THEN @ ELSE @ + 1]
  /\ UNCHANGED <<kind, peer, delivered>>
-----------------------------------------------------------------------------
(* Messages; rest-poll's are the bodies of answered requests *)

FeedRecv ==
  /\ IsFeed /\ peer.wire # <<>> /\ peer.reachable
  /\ kind = "mqtt" => source.subscribed
  /\ kind # "rest-poll" => Alive
  /\ delivered' = delivered \o Received(Head(peer.wire))
  /\ peer' = [peer EXCEPT !.wire = Tail(@)]
  /\ UNCHANGED <<kind, source>>

FeedReads ==
  \/ Dial \/ DialFails \/ WsDrops
  \/ MqttSubscribe \/ MqttPollConnects \/ MqttPollRequests \/ MqttPollErr
  \/ FeedRecv
-----------------------------------------------------------------------------
(* pcap-replay *)

\* parse_pcap: up to a torn record, each UDP payload with the time since the one
\* before it; time that runs backwards is no time.
Readable(packets) ==
  LET torn == {i \in DOMAIN packets : packets[i].torn}
  IN  IF torn = {} THEN Len(packets) ELSE Min(torn) - 1
Payloads(packets) == SetToSortSeq({i \in 1 .. Readable(packets) : packets[i].udp}, <)
Elapsed(packets, i, j) == IF packets[j].ts < packets[i].ts THEN 0 ELSE packets[j].ts - packets[i].ts

Datagrams(packets) ==
  LET taken == Payloads(packets)
  IN  [i \in DOMAIN taken |->
        [packet |-> taken[i],
         delay |-> IF i = 1 THEN 0 ELSE Elapsed(packets, taken[i - 1], taken[i])]]

\* open refuses a capture without a datagram.
ReplayInit ==
  /\ kind \in Kinds \cap {"pcap-replay"}
  /\ peer \in {p \in Packets : Datagrams(p) # <<>>}
  /\ source \in [looping : BOOLEAN, next : {1}, clock : {0}]
  /\ delivered = <<>>

ReplayRecv ==
  LET all == Datagrams(peer) IN
  /\ IsReplay /\ source.next <= Len(all) /\ Len(delivered) < MaxReplays
  /\ LET now == source.clock + Least(all[source.next].delay, MaxGap) IN
       /\ delivered' = Append(delivered, [packet |-> all[source.next].packet, at |-> now])
       /\ source' = [source EXCEPT !.next = @ + 1, !.clock = now]
  /\ UNCHANGED <<kind, peer>>

ReplayRestarts ==
  /\ IsReplay /\ source.looping /\ source.next > Len(Datagrams(peer))
  /\ source' = [source EXCEPT !.next = 1]
  /\ UNCHANGED <<kind, peer, delivered>>

FeedNext ==
  \/ \E n \in FeedSizes : ServerSends(n)
  \/ ServerFails
  \/ ServerReturns
  \/ FeedReads
  \/ ReplayRecv
  \/ ReplayRestarts
-----------------------------------------------------------------------------
(* What these transports promise *)

\* Messages are delivered in the order sent, none twice, and a ws-client never
\* delivers part of one.
FeedInOrder ==
  IsFeed => /\ \A i \in 2 .. Len(delivered) : delivered[i - 1].id < delivered[i].id
            /\ \A i \in DOMAIN delivered :
                 \/ delivered[i] = peer.sent[delivered[i].id]
                 \/ kind # "ws-client" /\ delivered[i].size = FeedMaxFrame

\* While the server stays, the source comes to be connected and subscribed and
\* stays so, and every message that fits comes to be delivered.
FeedRecovers ==
  /\ <>[](IsFeed /\ kind # "rest-poll" /\ peer.reachable) => <>[](IsFeed => Alive /\ peer.sub)
  /\ \A i \in 1 .. MaxMessages :
       (IsFeed /\ Len(peer.sent) >= i /\ peer.sent[i].size <= FeedMaxFrame /\ peer.wire # <<>>)
         ~> (IsFeed => peer.outages > 0 \/ \E j \in DOMAIN delivered : delivered[j].id = i)

\* In a capture whose time does not run backwards every datagram is delivered as
\* long after the first of its round as it was recorded, gaps above the limit cut
\* short, however many other packets lie between; and a loop begins anew with the
\* first.
ReplayKeepsTime ==
  IsReplay => LET all == Datagrams(peer) IN
    (\A i, j \in DOMAIN peer : i <= j => peer[i].ts <= peer[j].ts) =>
      \A i \in DOMAIN delivered :
        /\ delivered[i].packet = all[((i - 1) % Len(all)) + 1].packet
        /\ i > 1 /\ delivered[i].packet > delivered[i - 1].packet =>
             delivered[i].at - delivered[i - 1].at =
               Least(MaxGap, peer[delivered[i].packet].ts - peer[delivered[i - 1].packet].ts)
=============================================================================
