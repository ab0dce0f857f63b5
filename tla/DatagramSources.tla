-------------------------- MODULE DatagramSources --------------------------
(***************************************************************************)
(* The transports whose frames arrive whole from the network: udp, one     *)
(* datagram to a frame, and dds, which takes a frame out of a CDR sample   *)
(* in the shape the configuration names.                                   *)
(*                                                                         *)
(* The network may lose, repeat and reorder what is under way, and both    *)
(* receive buffers are bounded (external).  A published sample is the data *)
(* of its first field, the shape and encoding its publisher gave it.       *)
(***************************************************************************)
EXTENDS Transport, SequencesExt

CONSTANTS
  Published,       \* samples: data, shape, plain (plain CDR) and little (endian)
  DatagramMax,     \* MAX_FRAME_BYTES; a datagram is never longer
  ReceiveBuffer,   \* SAMPLE_BUFFER, and the socket's buffer
  MaxPublished,    \* bound: samples a publisher sends
  MaxStrays        \* bound: samples the network repeats or reorders

ASSUME DatagramAssumption ==
  /\ DatagramMax \in Nat /\ ReceiveBuffer \in Nat \ {0}
  /\ MaxPublished \in Nat /\ MaxStrays \in Nat

IsDatagram == kind \in {"udp", "dds"}

----------------------------------------------------------------------------
(* CDR, as the publisher's middleware writes it (external)                 *)

\* A length in four bytes, small enough to have three of them zero.
Prefix(n, little) == IF little THEN <<n, 0, 0, 0>> ELSE <<0, 0, 0, n>>
\* The field of a one-field struct, padded to a multiple of four bytes.
Padded(bytes) == bytes \o [i \in 1 .. ((4 - (Len(bytes) % 4)) % 4) |-> 0]
Field(p) ==
  CASE p.shape = "octets" -> Padded(Prefix(Len(p.data), p.little) \o p.data)
    [] p.shape = "string" -> Padded(Prefix(Len(p.data) + 1, p.little) \o p.data \o <<0>>)
    [] p.shape = "other" -> p.data
\* Any other encoding puts a delimiter header or a parameter list before the field.
OnWire(p) == IF kind = "udp" THEN p.data ELSE IF p.plain THEN Field(p) ELSE <<9, 9>> \o Field(p)

----------------------------------------------------------------------------
(* dds.rs: from a sample to a frame.  No frame is the empty sequence.      *)

ReadLength(bytes, little) ==
  IF little THEN bytes[1] + 256 * (bytes[2] + 256 * (bytes[3] + 256 * bytes[4]))
  ELSE bytes[4] + 256 * (bytes[3] + 256 * (bytes[2] + 256 * bytes[1]))

UnwrapOctets(s) ==
  IF ~s.plain \/ Len(s.bytes) < 4 THEN <<>>
  ELSE LET end == 4 + ReadLength(s.bytes, s.little) IN
       IF end <= Len(s.bytes) /\ Len(s.bytes) - end < 4
       THEN <<SubSeq(s.bytes, 5, end)>> ELSE <<>>

UnwrapString(s) ==
  LET octets == UnwrapOctets(s) IN
  IF octets # <<>> /\ octets[1] # <<>> /\ Last(octets[1]) = 0
  THEN <<Front(octets[1])>> ELSE <<>>

FrameOf(s, payload) ==
  CASE payload = "body" -> <<s.bytes>>
    [] payload = "octets" -> UnwrapOctets(s)
    [] payload = "string" -> UnwrapString(s)

----------------------------------------------------------------------------
DatagramInit ==
  /\ kind \in Kinds \cap {"udp", "dds"}
  /\ source \in [payload : IF kind = "udp" THEN {"datagram"} ELSE {"body", "octets", "string"}]
  /\ peer = [sent |-> <<>>, wire |-> <<>>, strays |-> 0]
  /\ delivered = <<>>

Arriving(n, p) ==
  [id |-> n, bytes |-> OnWire(p), plain |-> p.plain, little |-> p.little, readable |-> TRUE]

\* A publisher sends; the buffer takes it if it has room.
Publish(p) ==
  /\ IsDatagram /\ Len(peer.sent) < MaxPublished
  /\ kind = "udp" => p.shape = "other"
  /\ peer' = [peer EXCEPT
                 !.sent = Append(@, p),
                 !.wire = IF Len(@) < ReceiveBuffer
                          THEN Append(@, Arriving(Len(peer.sent) + 1, p)) ELSE @]
  /\ UNCHANGED <<kind, source, delivered>>

\* The network loses a sample, or brings one late or again; a DDS sample may also
\* come to be one the stack cannot read.
Stray ==
  /\ IsDatagram /\ peer.strays < MaxStrays
  /\ \/ \E i \in DOMAIN peer.wire : peer' = [peer EXCEPT !.wire = RemoveAt(@, i), !.strays = @ + 1]
     \/ /\ kind = "udp" /\ Len(peer.wire) < ReceiveBuffer
        /\ \E n \in DOMAIN peer.sent :
             peer' = [peer EXCEPT !.wire = Append(@, Arriving(n, peer.sent[n])), !.strays = @ + 1]
     \/ /\ kind = "dds"
        /\ \E i \in DOMAIN peer.wire :
             peer' = [peer EXCEPT !.wire[i].readable = FALSE, !.strays = @ + 1]
  /\ UNCHANGED <<kind, source, delivered>>

\* UdpSource::recv
UdpRecv ==
  /\ kind = "udp" /\ peer.wire # <<>>
  /\ delivered' = Append(delivered, [id |-> Head(peer.wire).id, bytes |-> Head(peer.wire).bytes])
  /\ peer' = [peer EXCEPT !.wire = Tail(@)]
  /\ UNCHANGED <<kind, source>>

\* DdsSource::recv, one turn of its loop: a sample it cannot read, that has another
\* shape or is too long is passed over.
DdsRecv ==
  /\ kind = "dds" /\ peer.wire # <<>>
  /\ LET sample == Head(peer.wire)
         frame == FrameOf(sample, source.payload)
     IN delivered' = IF sample.readable /\ frame # <<>> /\ Len(frame[1]) <= DatagramMax
                     THEN Append(delivered, [id |-> sample.id, bytes |-> frame[1]])
                     ELSE delivered
  /\ peer' = [peer EXCEPT !.wire = Tail(@)]
  /\ UNCHANGED <<kind, source>>

DatagramReads == UdpRecv \/ DdsRecv
DatagramNext == (\E p \in Published : Publish(p)) \/ Stray \/ DatagramReads

----------------------------------------------------------------------------
(* What these transports promise                                           *)

\* A frame is one datagram, or the very bytes a publisher of the configured shape
\* wrapped, in either byte order, without padding or terminator; a sample in an
\* encoding that puts something before the field never becomes a frame of it.
DatagramsWhole ==
  IsDatagram => \A i \in DOMAIN delivered :
    LET p == peer.sent[delivered[i].id] IN
    /\ source.payload \in {"datagram", "body"} => delivered[i].bytes = OnWire(p)
    /\ source.payload \in {"octets", "string"} => p.plain
    /\ source.payload = p.shape => delivered[i].bytes = p.data

\* dds keeps the publisher's order and repeats nothing, whatever it passes over.
SamplesInOrder ==
  kind = "dds" => \A i \in 2 .. Len(delivered) : delivered[i - 1].id < delivered[i].id

\* The last sample that reached the buffer in the configured shape is delivered,
\* whatever the samples before it were.
SamplesDelivered ==
  (/\ IsDatagram /\ peer.strays = MaxStrays
   /\ \E i \in DOMAIN peer.wire :
        LET p == peer.sent[MaxPublished] IN
        /\ peer.wire[i].id = MaxPublished /\ peer.wire[i].readable
        /\ Len(p.data) <= DatagramMax
        /\ kind = "dds" => p.plain /\ p.shape = source.payload)
    ~> (IsDatagram => \E j \in DOMAIN delivered : delivered[j].id = MaxPublished)
=============================================================================
