------------------------------ MODULE TakEgress ------------------------------
(***************************************************************************)
(* The TAK egress relay: governed payloads from NATS, forwarded verbatim   *)
(* to TAK over a TLS stream (or as datagrams), through a bounded buffer.   *)
(* One task runs everything: `pc` is where its loop stands.  Payloads are  *)
(* numbered as they arrive on the bus.                                     *)
(*                                                                         *)
(* `wire` holds the bytes TCP has taken and TAK has not yet read; a        *)
(* connection that dies takes them along, and the relay notices only when  *)
(* a later write fails.                                                    *)
(***************************************************************************)
EXTENDS Relay, FiniteSets

CONSTANTS BufferMax,     \* tak.buffer_max
          MaxPayloads,   \* bound: payloads on the bus
          InboxMax,      \* capacity of the NATS subscription's channel
          WireMax,       \* capacity of the socket
          MaxFaults      \* bound: connection losses, failed connects and sends

ASSUME TakAssumption ==
  /\ BufferMax \in Nat \ {0} /\ InboxMax \in Nat \ {0} /\ WireMax \in Nat \ {0}
  /\ MaxPayloads \in Nat /\ MaxFaults \in Nat

VARIABLES
  datagram,     \* tak.target is udp:// instead of tls://
  arrived,      \* payloads published on the egress subject so far
  inbox,        \* the subscription's channel
  pc, final,    \* where the loop is; is it in the final drain?
  buffer, delivered, gap_dropped,
  stream, up,   \* the TLS stream as the relay sees it, and its gauge
  conn,         \* what has really become of the connection
  wire, listening, tak, \* TAK: bytes on the way, its port, what it has read
  shutdown,     \* SIGTERM or SIGINT has been received
  pushed,       \* history: payloads handed to the relay
  faults

relayVars == <<buffer, delivered, gap_dropped>>
linkVars == <<stream, up>>
peerVars == <<conn, wire, listening, tak>>
busVars == <<datagram, arrived, inbox, pushed>>
takVars == <<busVars, pc, final, relayVars, linkVars, peerVars, shutdown, faults>>

Fault == faults < MaxFaults /\ faults' = faults + 1
-----------------------------------------------------------------------------
(* Relay::drain and TakLink::send *)

\* drain returns: to the select!, or out of run after the final drain.
DrainEndsInLoop == pc' = "select"
DrainEnds == pc' = IF final THEN "stopped" ELSE "select"

DrainNext ==
  /\ pc = "drain"
  /\ IF buffer = <<>>
     THEN DrainEnds
     ELSE pc' = IF stream THEN "write" ELSE "connect"
  /\ UNCHANGED <<busVars, final, relayVars, linkVars, peerVars, shutdown, faults>>

ConnectOk ==
  /\ pc = "connect"
  /\ listening
  /\ stream' = TRUE
  /\ up' = 1
  /\ conn' = "open"
  /\ wire' = <<>>
  /\ pc' = "write"
  /\ UNCHANGED <<busVars, final, relayVars, listening, tak, shutdown, faults>>

\* Refused, or timed out after five seconds.
ConnectFails ==
  /\ pc = "connect"
  /\ (~ listening /\ UNCHANGED faults) \/ Fault
  /\ up' = 0
  /\ DrainEnds
  /\ UNCHANGED <<busVars, final, relayVars, stream, peerVars, shutdown>>

Sent ==
  /\ buffer' = Tail(buffer)
  /\ delivered' = delivered + 1
  /\ UNCHANGED gap_dropped

\* The stream takes the whole payload.  On a connection that has died without
\* a reset yet, it does so in vain.
WriteOk ==
  /\ pc = "write"
  /\ ~ datagram
  /\ \/ conn = "open" /\ Len(wire) < WireMax /\ wire' = Append(wire, buffer[1])
     \/ conn = "dead" /\ wire' = wire
  /\ Sent
  /\ pc' = "drain"
  /\ UNCHANGED <<busVars, final, linkVars, conn, listening, tak, shutdown, faults>>

\* A write error drops the stream; the payload stays at the front.
WriteFailsRequeued ==
  /\ pc = "write"
  /\ conn = "dead"
  /\ stream' = FALSE
  /\ up' = 0
  /\ buffer' = Append(Tail(buffer), buffer[1])
  /\ DrainEnds
  /\ UNCHANGED <<busVars, final, delivered, gap_dropped, peerVars, shutdown, faults>>
WriteFailsLost ==
  /\ pc = "write"
  /\ conn = "dead"
  /\ stream' = FALSE
  /\ up' = 0
  /\ buffer' = Tail(buffer)
  /\ DrainEnds
  /\ UNCHANGED <<busVars, final, delivered, gap_dropped, peerVars, shutdown, faults>>
WriteFails ==
  /\ pc = "write"
  /\ conn = "dead"
  /\ stream' = FALSE
  /\ up' = 0
  /\ DrainEnds
  /\ UNCHANGED <<busVars, final, relayVars, peerVars, shutdown, faults>>

\* A datagram leaves and arrives, or leaves and is lost, or is refused.
DatagramSent ==
  /\ pc = "write"
  /\ datagram
  /\ \/ tak' = Append(tak, buffer[1]) /\ UNCHANGED faults
     \/ Fault /\ UNCHANGED tak
  /\ Sent
  /\ pc' = "drain"
  /\ UNCHANGED <<busVars, final, linkVars, conn, wire, listening, shutdown>>

DatagramFails ==
  /\ pc = "write"
  /\ datagram
  /\ Fault
  /\ DrainEnds
  /\ UNCHANGED <<busVars, final, relayVars, linkVars, peerVars, shutdown>>
-----------------------------------------------------------------------------
(* The select! of run *)

SelectPush ==
  /\ pc = "select"
  /\ inbox # <<>>
  /\ buffer' = Push(buffer, BufferMax, inbox[1])
  /\ gap_dropped' = gap_dropped + PushDrops(buffer, BufferMax)
  /\ inbox' = Tail(inbox)
  /\ pushed' = pushed \cup {inbox[1]}
  /\ pc' = "drain"
  /\ UNCHANGED <<datagram, arrived, final, delivered, linkVars, peerVars, shutdown, faults>>

SelectRetry ==
  /\ pc = "select"
  /\ buffer # <<>>
  /\ pc' = "drain"
  /\ UNCHANGED <<busVars, final, relayVars, linkVars, peerVars, shutdown, faults>>

SelectShutdown ==
  /\ pc = "select"
  /\ shutdown
  /\ final' = TRUE
  /\ pc' = "drain"
  /\ UNCHANGED <<busVars, relayVars, linkVars, peerVars, shutdown, faults>>

\* The two seconds given to the final drain are over.
FinalTimeout ==
  /\ final
  /\ pc \in {"drain", "connect", "write"}
  /\ pc' = "stopped"
  /\ UNCHANGED <<busVars, final, relayVars, linkVars, peerVars, shutdown, faults>>
-----------------------------------------------------------------------------
(* The bus, TAK and the operator *)

\* A full channel makes the NATS client discard the message.
Arrive ==
  /\ arrived < MaxPayloads
  /\ arrived' = arrived + 1
  /\ inbox' = IF Len(inbox) < InboxMax THEN Append(inbox, arrived + 1) ELSE inbox
  /\ UNCHANGED <<datagram, pushed, pc, final, relayVars, linkVars, peerVars, shutdown, faults>>

TakReads ==
  /\ conn = "open"
  /\ wire # <<>>
  /\ tak' = Append(tak, wire[1])
  /\ wire' = Tail(wire)
  /\ UNCHANGED <<busVars, pc, final, relayVars, linkVars, conn, listening, shutdown, faults>>

ConnDies ==
  /\ conn = "open"
  /\ Fault
  /\ conn' = "dead"
  /\ wire' = <<>>
  /\ listening' \in BOOLEAN
  /\ UNCHANGED <<busVars, pc, final, relayVars, linkVars, tak, shutdown>>

TakReturns ==
  /\ ~ listening
  /\ listening' = TRUE
  /\ UNCHANGED <<busVars, pc, final, relayVars, linkVars, conn, wire, tak, shutdown, faults>>

Signal ==
  /\ ~ shutdown
  /\ shutdown' = TRUE
  /\ UNCHANGED <<busVars, pc, final, relayVars, linkVars, peerVars, faults>>
-----------------------------------------------------------------------------
Init ==
  /\ datagram \in BOOLEAN
  /\ arrived = 0 /\ inbox = <<>> /\ pushed = {}
  /\ pc = "drain" /\ final = FALSE
  /\ buffer = <<>> /\ delivered = 0 /\ gap_dropped = 0
  /\ stream = datagram
  /\ up = IF datagram THEN 1 ELSE 0
  /\ conn = "none" /\ wire = <<>> /\ tak = <<>>
  /\ listening \in BOOLEAN
  /\ shutdown = FALSE /\ faults = 0

Sending == \/ DrainNext \/ ConnectOk \/ ConnectFails \/ WriteOk \/ WriteFails
           \/ DatagramSent \/ DatagramFails
Selecting == SelectPush \/ SelectRetry \/ SelectShutdown
World == Arrive \/ TakReads \/ ConnDies \/ TakReturns \/ Signal

Next == Sending \/ Selecting \/ FinalTimeout \/ World
Spec == Init /\ [][Next]_takVars

\* The task runs whenever it can, select! takes no branch only when none is
\* ready, and its timeout fires.
TaskRuns == WF_takVars(Sending \/ Selecting) /\ WF_takVars(FinalTimeout)
            /\ SF_takVars(SelectShutdown)
\* TAK reads what reaches it and comes back.
TakLives == WF_takVars(TakReads) /\ WF_takVars(TakReturns)
LiveSpec == Spec /\ TaskRuns /\ TakLives
-----------------------------------------------------------------------------
\* Every payload handed to the relay is accounted for by the two counters on
\* /metrics and the buffer: a failed write, a reconnect or an overflow neither
\* loses one uncounted nor counts one twice.  (Relay::push and Relay::drain)
Accounted == Cardinality(pushed) = delivered + gap_dropped + Len(buffer)

\* TAK sees payloads in bus order and none twice, across reconnects and
\* overflow.  (Relay::drain sends "oldest first" and keeps what failed.)
TakSeesInOrder == \A i, j \in DOMAIN tak : i < j => tak[i] < tak[j]

\* While TAK comes back and reads, a buffered payload does not stay buffered,
\* though only the retry timer may be there to send it, unless newer ones push it
\* out; and "on SIGTERM or SIGINT the relay drains the queue for up to 2 s, then
\* exits".  (run's select! and its final drain)
DrainsAndStops ==
  /\ \A n \in 1 .. MaxPayloads :
       (n \in pushed /\ pc # "stopped") ~>
         (pc = "stopped" \/ \A i \in DOMAIN buffer : buffer[i] # n)
  /\ shutdown ~> pc = "stopped"
=============================================================================
