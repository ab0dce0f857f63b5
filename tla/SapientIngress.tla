--------------------------- MODULE SapientIngress ---------------------------
(***************************************************************************)
(* sapient in its dmm role: sensors connect to the acceptor (dmm.rs), each  *)
(* connection's task answers registrations and forwards every message into  *)
(* one bounded channel, and SapientParser reads the messages as they leave  *)
(* it, remembering each node's name, position and velocity units.           *)
(* The sensor and its socket are external.                                  *)
(***************************************************************************)
EXTENDS Parser

CONSTANTS
  Sites,          \* deployments: the nodes there, the units they may declare, what
                  \* they send, MAX_NODES, and bounds on connections and writes
  ChannelFrames   \* CHANNEL_FRAMES

IsSapient == kind = "sapient"
MaxWrites == Max({site.writes : site \in Sites})
MaxConns == Max({site.conns : site \in Sites})
NoMessage == [what |-> "none"]
Unknown == [name |-> 0, location |-> 0, units |-> "mps"]
Conn(c) == parser.conns[c]
Conns == DOMAIN parser.conns
\* The parser's record with connection c replaced; no message is parsed.
SetConn(c, conn) ==
  /\ parser' = [parser EXCEPT !.conns[c] = conn]
  /\ UNCHANGED <<kind, frames, events, clock>>
-----------------------------------------------------------------------------
(* The sensors (external) *)

\* A sensor (re)connects, perhaps set to other units; what its last connection
\* still holds stays readable.
SensorConnect(n, units) ==
  /\ Len(parser.conns) < parser.site.conns
  /\ parser' = [parser EXCEPT !.conns =
       Append([c \in Conns |-> IF Conn(c).node = n THEN [Conn(c) EXCEPT !.open = FALSE]
                               ELSE Conn(c)],
              [node |-> n, units |-> units, open |-> TRUE, stage |-> "new",
               socket |-> <<>>, held |-> NoMessage, reading |-> TRUE, cut |-> FALSE])]
  /\ UNCHANGED <<kind, frames, events, clock>>

Write(c, message, stage) ==
  /\ Conn(c).open /\ parser.written < parser.site.writes
  /\ LET sent == [message EXCEPT !.conn = c, !.node = Conn(c).node,
                                 !.no = parser.written + 1]
     IN  parser' = [parser EXCEPT !.written = @ + 1,
                      !.conns[c] = [@ EXCEPT !.socket = Append(@, sent), !.stage = stage]]
  /\ UNCHANGED <<kind, frames, events, clock>>

\* "A sensor connects, sends a `Registration` and reports nothing until it has a
\* `RegistrationAck`": it declares its units, and may list several sub-types.
SensorRegister(c, flaw) ==
  /\ Conn(c).stage = "new"
  /\ Write(c, [what |-> "registration", flaw |-> flaw, conn |-> 0, node |-> 0, no |-> 0,
               units |-> Conn(c).units], "waiting")
SensorReport(c, message) ==
  /\ Conn(c).stage = "registered"
  /\ Write(c, message, "registered")
SensorClose(c) == Conn(c).open /\ SetConn(c, [Conn(c) EXCEPT !.open = FALSE])
\* The connection breaks: what the socket holds is gone.
SensorReset(c) ==
  /\ Conn(c).open
  /\ SetConn(c, [Conn(c) EXCEPT !.open = FALSE, !.socket = <<>>, !.cut = TRUE])
-----------------------------------------------------------------------------
(* connection_loop *)

\* The task returns and drops the stream; `cut` if bytes may be left unread.
Ends(conn, cut) == [conn EXCEPT !.reading = FALSE, !.socket = <<>>, !.cut = @ \/ cut]
Waiting(c) == Conn(c).reading /\ Conn(c).held = NoMessage

\* unframe: a frame that declares more than MAX_MESSAGE_LEN is an error for good.
TooLong(m) == m.what = "oversized"

\* read_frame, and the acknowledgement if it is a registration; writing that to a
\* sensor that has left may fail, and then the task returns.
ReadFrame(c) ==
  /\ Waiting(c) /\ Conn(c).socket # <<>>
  /\ LET m == Head(Conn(c).socket)
         taken == [Conn(c) EXCEPT !.held = m, !.socket = Tail(@)]
     IN  CASE m.what = "registration" ->
                \/ SetConn(c, [taken EXCEPT !.stage = "registered"])
                \/ ~Conn(c).open /\ SetConn(c, Ends(Conn(c), TRUE))
           [] TooLong(m) -> SetConn(c, Ends(Conn(c), TRUE))
           [] OTHER -> SetConn(c, taken)
ReadClosedEarly(c) == Waiting(c) /\ ~Conn(c).open /\ SetConn(c, Ends(Conn(c), FALSE))
ReadClosed(c) ==
  /\ Waiting(c) /\ Conn(c).socket = <<>> /\ ~Conn(c).open
  /\ SetConn(c, Ends(Conn(c), FALSE))

\* tx.send(payload).await: "A full channel slows the sensors".
Forward(c) ==
  /\ Conn(c).held # NoMessage /\ Len(parser.channel) < ChannelFrames
  /\ parser' = [parser EXCEPT !.conns[c].held = NoMessage,
                              !.channel = Append(@, Conn(c).held)]
  /\ UNCHANGED <<kind, frames, events, clock>>
-----------------------------------------------------------------------------
(* SapientParser *)

NodeState(n) == IF n \in DOMAIN parser.nodes THEN parser.nodes[n] ELSE Unknown

\* update_node: a node that is not known evicts an arbitrary one at the cap.
UpdateNode(n, node) ==
  LET with(known) == [k \in known \cup {n} |-> IF k = n THEN node ELSE parser.nodes[k]]
      known == DOMAIN parser.nodes
  IN  IF n \in known \/ Cardinality(known) < parser.site.max_nodes THEN {with(known)}
      ELSE {with(known \ {victim}) : victim \in known}

SapientEvent(m, node, placed, scaled) ==
  [what |-> m.what, entity |-> m.node, at |-> Now, flaw |-> m.flaw, name |-> node.name,
   placed |-> placed, scaled |-> scaled]

Took(m, nodes, built) ==
  Parsed(m, [parser EXCEPT !.channel = Tail(@), !.nodes = nodes], built)

\* registration: the node's name and units are replaced, then the event is built.
ParseRegistration(m, node) ==
  /\ m.what = "registration"
  /\ LET registered == [node EXCEPT !.name = Now, !.units = m.units]
     IN  \E nodes \in UpdateNode(m.node, registered) :
           Took(m, nodes, Published(SapientEvent(m, registered, 0, "none")))

\* status: a WGS-84 position in the report is the node's from now on.
ParseStatus(m, node) ==
  /\ m.what = "status"
  /\ LET there == [node EXCEPT !.location = Now]
     IN  IF m.located
         THEN \E nodes \in UpdateNode(m.node, there) :
                Took(m, nodes, Published(SapientEvent(m, there, Now, "none")))
         ELSE Took(m, parser.nodes, Published(SapientEvent(m, node, 0, "none")))

\* place_relative: range and bearing are taken from the node's last position.
PlaceRelative(node) == node.location

ParseDetection(m, node) ==
  /\ m.what = "detection"
  /\ Took(m, parser.nodes, Published(SapientEvent(m, node, PlaceRelative(node), node.units)))

\* alert: it does not carry the node's name.
ParseAlert(m, node) ==
  /\ m.what = "alert"
  /\ Took(m, parser.nodes,
          Published(SapientEvent(m, [node EXCEPT !.name = 0], PlaceRelative(node), "none")))

\* Tasks and acknowledgements publish nothing.
ParseUnmapped(m) ==
  /\ m.what = "task"
  /\ Took(m, parser.nodes, <<>>)

\* recv and parse_message.
ParseMessage ==
  /\ IsSapient /\ parser.channel # <<>>
  /\ LET m == Head(parser.channel)
         node == NodeState(m.node)
     IN  \/ ParseRegistration(m, node) \/ ParseStatus(m, node) \/ ParseDetection(m, node)
         \/ ParseAlert(m, node) \/ ParseUnmapped(m)
-----------------------------------------------------------------------------
\* Frame i is of node n and of one of the kinds.
Said(n, what, upto) ==
  Latest({i \in 1 .. upto : frames[i].node = n /\ frames[i].what \in what
                            /\ (frames[i].what = "status" => frames[i].located)})
\* Another node came in after frame `since`, and enough were heard for it to have
\* evicted n.
MayBeEvicted(n, since, upto) ==
  /\ \E i \in since .. upto : frames[i].node # n
  /\ Cardinality({frames[i].node : i \in 1 .. upto} \ {n}) >= parser.site.max_nodes

NodeIsLatest(v) ==
  LET reg == Said(v.entity, {"registration"}, v.at)
      loc == Said(v.entity, {"status"}, v.at)
      forgot(i) == MayBeEvicted(v.entity, i, v.at)
  IN  /\ v.what \in {"detection", "status"} =>
           v.name = reg \/ (v.name = 0 /\ forgot(reg))
      /\ v.what \in {"detection", "alert"} =>
           v.placed = loc \/ (v.placed = 0 /\ forgot(loc))

\* The registration of the connection a detection came over was parsed before it,
\* and its units are applied, unless the node registered anew in between, over
\* another connection, or was evicted.
DeclaredUnits(v) ==
  v.what = "detection" =>
    LET m == frames[v.at]
        own == Latest({i \in 1 .. v.at : frames[i].what = "registration"
                                         /\ frames[i].conn = m.conn})
        latest == Said(v.entity, {"registration"}, v.at)
    IN  /\ own # 0
        /\ \/ v.scaled = frames[own].units
           \/ latest # own /\ v.scaled = frames[latest].units
           \/ MayBeEvicted(v.entity, own, v.at) /\ v.scaled = "mps"

\* Message no waits on connection c; it was parsed; c's task or peer gave up on c.
Unread(c, no) ==
  IsSapient /\ c \in Conns /\ \E k \in DOMAIN Conn(c).socket : Conn(c).socket[k].no = no
WasParsed(no) == IsSapient /\ \E i \in DOMAIN frames : frames[i].no = no
GivenUp(c) == IsSapient /\ c \in Conns /\ Conn(c).cut
-----------------------------------------------------------------------------
SapientInit ==
  /\ kind = "sapient"
  /\ \E site \in Sites :
       parser = [nodes |-> <<>>, site |-> site, conns |-> <<>>, channel |-> <<>>,
                 written |-> 0]

SapientNext ==
  /\ IsSapient
  /\ \/ \E n \in parser.site.nodes, units \in parser.site.units : SensorConnect(n, units)
     \/ \E c \in Conns : \/ \E flaw \in parser.site.flaws : SensorRegister(c, flaw)
                         \/ \E m \in parser.site.messages : SensorReport(c, m)
                         \/ SensorClose(c) \/ SensorReset(c)
                         \/ ReadFrame(c) \/ ReadClosed(c) \/ Forward(c)
     \/ ParseMessage

\* Every task and the runtime's loop keep running, a socket that has bytes is
\* readable, and mpsc hands freed slots to the waiting senders in order.
SapientFairness ==
  /\ WF_parserVars(ParseMessage)
  /\ \A c \in 1 .. MaxConns : /\ WF_parserVars(IsSapient /\ c \in Conns /\ ReadFrame(c))
                             /\ SF_parserVars(IsSapient /\ c \in Conns /\ Forward(c))
=============================================================================
