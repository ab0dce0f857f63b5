--------------------------- MODULE StreamSources ---------------------------
(***************************************************************************)
(* The transports that cut frames out of a byte stream: tcp-client,        *)
(* tcp-server, stdin, exec and serial.  They share read_frame and differ   *)
(* in what they do when it fails.                                          *)
(*                                                                         *)
(* A byte is a cell <<connection, frame, index, size>>: index 0 is the     *)
(* newline or the length prefix of its frame.  Bytes arrive in chunks of   *)
(* any size, which read_frame makes invisible: a read takes place when     *)
(* what it waits for has arrived.                                          *)
(***************************************************************************)
EXTENDS Transport, SequencesExt

CONSTANTS MaxFrame,      \* MAX_FRAME_BYTES
          StreamSizes,   \* frame sizes senders use, some above MaxFrame
          ChannelFrames, \* CHANNEL_FRAMES
          MaxConns,      \* bound: connections, runs of the command, openings
          FramesOn,      \* bound: frames sent on each connection
          MaxEnds        \* bound: connections that end or break

ASSUME StreamAssumption ==
  /\ MaxFrame \in Nat \ {0} /\ StreamSizes \subseteq Nat
  /\ ChannelFrames \in Nat \ {0} /\ MaxConns \in Nat
  /\ FramesOn \in [1 .. MaxConns -> Nat] /\ MaxEnds \in Nat

StreamKinds == {"tcp-client", "tcp-server", "stdin", "exec", "serial"}
Conns == 1 .. MaxConns

Payload(c, k, n) == [i \in 1 .. n |-> <<c, k, i, n>>]
Encoded(framing, c, k, n) ==
  IF framing = "line" THEN Append(Payload(c, k, n), <<c, k, 0, n>>)
                      ELSE <<<<c, k, 0, n>>>> \o Payload(c, k, n)
\* A u16 prefix cannot exceed the buffer.
SizesOf(framing) == IF framing = "u16" THEN StreamSizes \cap 1 .. MaxFrame
                                       ELSE StreamSizes
-----------------------------------------------------------------------------
(* read_frame, on the bytes `wire` of a connection that has ended or not *)

Ok(frame, rest) == [res |-> "ok", frame |-> frame, rest |-> rest]
Failed(res, rest) == [res |-> res, frame |-> <<>>, rest |-> rest]
Past(wire, n) == SubSeq(wire, n + 1, Len(wire))

Newlines(wire) == {i \in DOMAIN wire : wire[i][3] = 0}
FirstNewline(wire) == CHOOSE i \in Newlines(wire) : \A j \in Newlines(wire) : i <= j

\* copy_bounded: the line, unless it overflowed the buffer.
BoundedTruncates(line, rest) == Ok(SubSeq(line, 1, MaxFrame), rest)
Bounded(line, rest) ==
  IF Len(line) > MaxFrame THEN Failed("invalid", rest) ELSE Ok(line, rest)

ReadLine(wire, end) ==
  IF Newlines(wire) # {}
  THEN LET p == FirstNewline(wire)
       IN  {Bounded(SubSeq(wire, 1, p - 1), Past(wire, p))}
  ELSE CASE end = "none"  -> {}
         [] end = "eof"   -> IF wire = <<>> THEN {Failed("ended", <<>>)}
                                            ELSE {Bounded(wire, <<>>)}
         [] end = "reset" -> {Failed("ended", <<>>)}

\* The prefix is the frame's own, or payload read as one: any number.
Declared(cell, max) == IF cell[3] = 0 THEN {cell[4]} ELSE 0 .. max + 1

ReadPayload(wire, end, n) ==
  IF n > MaxFrame THEN {Failed("invalid", Tail(wire))}
  ELSE IF Len(wire) > n THEN {Ok(SubSeq(wire, 2, n + 1), Past(wire, n + 1))}
  ELSE IF end = "none" THEN {}
  ELSE {Failed("ended", <<>>)}

ReadFrame(framing, wire, end) ==
  IF framing = "line" THEN ReadLine(wire, end)
  ELSE IF wire # <<>>
       THEN UNION {ReadPayload(wire, end, n) : n \in Declared(Head(wire), MaxFrame)}
       ELSE IF end = "none" THEN {} ELSE {Failed("ended", <<>>)}
-----------------------------------------------------------------------------
(* The senders: frames are begun in order; a connection may end inside one.   *)
(* What is written to a connection nobody reads any more is lost.             *)

NewConn == [open |-> FALSE, end |-> "none", wire |-> <<>>, sent |-> <<>>, cut |-> 0]

StreamInit ==
  /\ kind \in Kinds \cap StreamKinds
  /\ peer = [c \in Conns |-> NewConn]
  /\ \E framing \in IF kind \in {"exec", "serial"} THEN {"line"}
                    ELSE {"line", "u16", "u32le"} :
       source = [framing |-> framing, reading |-> {},
                 held |-> [c \in Conns |-> <<>>], channel |-> <<>>]
  /\ delivered = [c \in Conns |-> <<>>]

\* Frames are told apart by connection: `delivered` is a sequence for each.
Deliver(c, cells) == delivered' = [delivered EXCEPT ![c] = Append(@, cells)]

IsStream == kind \in StreamKinds

Up(c) == IsStream /\ c \in source.reading /\ peer[c].end = "none"
MayEnd == Cardinality({c \in Conns : peer[c].end # "none"}) < MaxEnds

Writing(c, n) ==
  /\ Up(c)
  /\ Len(peer[c].sent) < FramesOn[c]
  /\ n \in SizesOf(source.framing)

StreamSend(c, n) ==
  /\ Writing(c, n)
  /\ peer' = [peer EXCEPT
       ![c].wire = @ \o Encoded(source.framing, c, Len(peer[c].sent) + 1, n),
       ![c].sent = Append(@, n)]
  /\ UNCHANGED <<kind, source, delivered>>

\* The connection ends, part of a frame written.
StreamEnds(c, n, m) ==
  LET bytes == Encoded(source.framing, c, Len(peer[c].sent) + 1, n) IN
  /\ Writing(c, n) /\ MayEnd
  /\ peer' = [peer EXCEPT ![c].end = "eof", ![c].wire = @ \o SubSeq(bytes, 1, m),
                          ![c].cut = IF m = 0 THEN 0 ELSE n]
  /\ UNCHANGED <<kind, source, delivered>>

\* The connection breaks: bytes under way are lost.
StreamBreaks(c) ==
  /\ Up(c) /\ MayEnd /\ kind # "stdin"
  /\ \E m \in 0 .. Len(peer[c].wire) :
       peer' = [peer EXCEPT ![c].end = "reset", ![c].wire = SubSeq(@, 1, m)]
  /\ UNCHANGED <<kind, source, delivered>>
-----------------------------------------------------------------------------
(* Connecting.  A failed attempt only waits and tries again. *)

\* connect, spawn, open_port: one connection at a time, each a new one.
StreamConnect ==
  LET c == Cardinality({d \in Conns : peer[d].open}) + 1 IN
  /\ IsStream /\ c \in Conns
  /\ CASE kind = "tcp-server" -> TRUE
       [] kind = "stdin"      -> c = 1
       [] OTHER               -> source.reading = {}
  /\ peer' = [peer EXCEPT ![c].open = TRUE]
  /\ source' = [source EXCEPT !.reading = @ \cup {c}]
  /\ UNCHANGED <<kind, delivered>>
-----------------------------------------------------------------------------
(* Reading *)

\* What the transport does with a read that failed: drop the connection, or
\* go on with it (serial and stdin return the error from recv, tcp-server logs).
KeepsAfter(res) ==
  CASE kind \in {"tcp-client", "exec"}   -> FALSE
    [] kind \in {"tcp-server", "serial"} -> res = "invalid"
    [] kind = "stdin"                    -> TRUE

Reads(c, r) ==
  /\ IsStream /\ c \in source.reading
  /\ source.held[c] = <<>>

\* recv of the transports that read the stream themselves.
StreamRecv(c, r) ==
  /\ kind # "tcp-server"
  /\ Reads(c, r) /\ r.res = "ok"
  /\ peer' = [peer EXCEPT ![c].wire = r.rest]
  /\ Deliver(c, r.frame)
  /\ UNCHANGED <<kind, source>>

\* tcp-server: the connection's task reads and then waits for the channel.
ConnectionReads(c, r) ==
  /\ kind = "tcp-server"
  /\ Reads(c, r) /\ r.res = "ok"
  /\ peer' = [peer EXCEPT ![c].wire = r.rest]
  /\ source' = [source EXCEPT !.held[c] = <<[conn |-> c, cells |-> r.frame]>>]
  /\ UNCHANGED <<kind, delivered>>

ConnectionSends(c) ==
  /\ kind = "tcp-server" /\ source.held[c] # <<>>
  /\ Len(source.channel) < ChannelFrames
  /\ source' = [source EXCEPT !.held[c] = <<>>, !.channel = @ \o source.held[c]]
  /\ UNCHANGED <<kind, peer, delivered>>

\* tcp-server's recv takes from the channel.
ServerRecv ==
  /\ kind = "tcp-server" /\ source.channel # <<>>
  /\ Deliver(Head(source.channel).conn, Head(source.channel).cells)
  /\ source' = [source EXCEPT !.channel = Tail(@)]
  /\ UNCHANGED <<kind, peer>>

ReadFails(c, r) ==
  /\ Reads(c, r) /\ r.res # "ok"
  /\ IF KeepsAfter(r.res)
     THEN peer' = [peer EXCEPT ![c].wire = r.rest] /\ UNCHANGED source
     ELSE /\ peer' = [peer EXCEPT ![c].wire = <<>>]
          /\ source' = [source EXCEPT !.reading = @ \ {c}]
  /\ UNCHANGED <<kind, delivered>>

Connection(c) ==
  \/ IsStream /\ \E r \in ReadFrame(source.framing, peer[c].wire, peer[c].end) :
       StreamRecv(c, r) \/ ConnectionReads(c, r) \/ ReadFails(c, r)
  \/ ConnectionSends(c)

StreamNext ==
  \/ \E c \in Conns :
       \/ \E n \in StreamSizes : StreamSend(c, n) \/ \E m \in 0 .. n : StreamEnds(c, n, m)
       \/ StreamBreaks(c)
       \/ Connection(c)
  \/ StreamConnect
  \/ ServerRecv
-----------------------------------------------------------------------------
(* What the stream transports promise *)

\* A prefix above the buffer on a connection that is kept: "the next read takes
\* payload bytes as a prefix" (stream.rs).  Every other connection is in step.
InStep(c) ==
  source.framing = "u32le" /\ kind \in {"tcp-server", "stdin"} =>
    /\ \A k \in DOMAIN peer[c].sent : peer[c].sent[k] <= MaxFrame
    /\ peer[c].cut <= MaxFrame

\* The frame with these cells, and the one the connection ended in.
IsSent(c, cells) ==
  \E k \in DOMAIN peer[c].sent : cells = Payload(c, k, peer[c].sent[k])
IsCutOff(c, cells) ==
  /\ source.framing = "line" /\ peer[c].end = "eof"
  /\ IsPrefix(cells, Payload(c, Len(peer[c].sent) + 1, peer[c].cut))

\* Every frame delivered is, byte for byte, one that a sender sent, however the
\* bytes of other frames and connections arrive, overlong frames included; but
\* the last line of a stream that ends in it is delivered as far as it got.
\* (read_line, copy_bounded, read_payload)
FramesWhole ==
  IsStream => \A c \in Conns : InStep(c) =>
    \A i \in DOMAIN delivered[c] :
      IsSent(c, delivered[c][i]) \/ IsCutOff(c, delivered[c][i])

\* What has been read from a connection, delivered or on its way.
Pipeline(c) ==
  LET queued == SelectSeq(source.channel \o source.held[c], LAMBDA d : d.conn = c)
  IN  delivered[c] \o [i \in DOMAIN queued |-> queued[i].cells]

\* Of one connection nothing that fits the buffer is skipped, repeated or
\* overtaken, also when the channel is full and other connections press in: the
\* frames read are those that fit, in the order they were sent.  (connection_loop)
FramesInOrder ==
  IsStream => \A c \in Conns : InStep(c) =>
    LET read == SelectSeq(Pipeline(c), LAMBDA cells : IsSent(c, cells))
        number(i) == read[i][1][2]
    IN  \A i \in DOMAIN read :
          {number(j) : j \in 1 .. i - 1} =
            {k \in 1 .. number(i) - 1 : peer[c].sent[k] <= MaxFrame}

\* A frame that fits is lost only with its connection: to a break, or to an
\* overlong frame before it where that ends the connection or loses step.
LostWithConnection(c, k) ==
  \/ peer[c].end = "reset"
  \/ /\ kind \in {"tcp-client", "exec"} \/ source.framing = "u32le"
     /\ \E j \in DOMAIN peer[c].sent : j < k /\ peer[c].sent[j] > MaxFrame

\* Every frame that was sent and fits is eventually delivered, unless it is lost
\* with its connection: an overlong line on a serial line or a pushed feed costs
\* no other frame.  (recv of each transport)
SentIsDelivered ==
  \A c \in Conns : \A k \in 1 .. FramesOn[c] :
    LET fits == IsStream /\ k \in DOMAIN peer[c].sent /\ peer[c].sent[k] <= MaxFrame
        arrived == Contains(delivered[c], Payload(c, k, peer[c].sent[k]))
    IN  fits ~> (IsStream => LostWithConnection(c, k) \/ (fits /\ arrived))
=============================================================================
