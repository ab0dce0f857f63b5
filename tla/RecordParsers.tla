--------------------------- MODULE RecordParsers ---------------------------
(***************************************************************************)
(* The parsers without memory whose frame holds several records: gmti       *)
(* (segments of target reports), stanag4586 (messages) and stanag4676 (an   *)
(* XML document of tracks, segments and points).  A frame is a sequence of  *)
(* parts; a value is the number of the part that stated it, 0 for none.     *)
(***************************************************************************)
EXTENDS Parser, Marking

CONSTANTS
  RecordFrames,    \* the frames offered to each of the parsers
  MarkingConfigs   \* the [marking] blocks a connector may be started with

RecordKinds == {"gmti", "stanag4586", "stanag4676"}

\* The event of item `item` of part `part`; the part is its payload.
RecordEvent(part, item, flaw, tags) ==
  [at |-> Now, part |-> part, item |-> item, flaw |-> flaw, tags |-> tags]

\* `?` on the first error and on the first event that does not build: the frame is
\* rejected, whatever was read before.
AllOrNone(read) ==
  IF read.err \/ \E k \in DOMAIN read.out : ~Builds(read.out[k]) THEN <<>> ELSE read.out

\* run's loop over the events of a frame: each is marked before it is sealed.
Marked(built) ==
  [k \in DOMAIN built |-> [built[k] EXCEPT !.tags = Apply(parser.marking, @)]]
ParsedRecords(frame, read) == Parsed(frame, parser, Marked(AllOrNone(read)))
-----------------------------------------------------------------------------
(* gmti: GmtiParser::parse_packet, parse_dwell *)

\* The existence mask says for a whole dwell which position its reports give: hi-res,
\* or a delta that needs both scale factors.
Located(seg) == seg.gives = "hires" \/ (seg.gives = "delta" /\ seg.scaled)

DwellEvents(part, seg) ==
  IF Located(seg)
  THEN [j \in DOMAIN seg.reports |-> RecordEvent(part, j, seg.reports[j], <<>>)]
  ELSE <<>>

\* A segment that does not fit the packet, or a dwell shorter than its reports.
BadSegment(seg) == ~seg.fits \/ (seg.type = "dwell" /\ ~seg.full)

ReadSegment(read, seg, part) ==
  IF read.err \/ BadSegment(seg) THEN [read EXCEPT !.err = TRUE]
  ELSE IF seg.type = "dwell" THEN [read EXCEPT !.out = @ \o DwellEvents(part, seg)]
  ELSE read

\* A packet of another edition, or shorter than it says, is not walked at all.
GmtiPacket(frame) ==
  /\ kind = "gmti"
  /\ LET step(read, k) == ReadSegment(read, frame.parts[k], k)
         read == FoldLeft(step, [err |-> ~frame.valid, out |-> <<>>],
                          [k \in DOMAIN frame.parts |-> k])
     IN  ParsedRecords(frame, read)
-----------------------------------------------------------------------------
(* stanag4586: S4586Parser::to_events, decode_inertial *)

\* A declared length past the end stops the walk; a wrong checksum, or inertial
\* states shorter than their layout, reject the datagram.
ReadMessage(read, msg, part) ==
  IF read.err \/ read.done THEN read
  ELSE IF ~msg.fits THEN [read EXCEPT !.done = TRUE]
  ELSE IF ~msg.checksum \/ (msg.type = "inertial" /\ ~msg.full)
       THEN [read EXCEPT !.err = TRUE]
  ELSE IF msg.type = "inertial"
       THEN [read EXCEPT !.out = Append(@, RecordEvent(part, 1, msg.flaw, <<>>))]
  ELSE read

VsmDatagram(frame) ==
  /\ kind = "stanag4586"
  /\ LET step(read, k) == ReadMessage(read, frame.parts[k], k)
         read == FoldLeft(step, [err |-> FALSE, done |-> FALSE, out |-> <<>>],
                          [k \in DOMAIN frame.parts |-> k])
     IN  ParsedRecords(frame, read)
-----------------------------------------------------------------------------
(* stanag4676: S4676Parser::to_events over the elements of a document.  "pos" and *)
(* "vel" carry the cs attribute of the <dynamics> around them; "object" stands    *)
(* for what a track says of its object; an element that is not read is "other".   *)

NoPoint == [status |-> 0, pos |-> 0, vel |-> 0, end |-> 0]
NoTrack == [start |-> 0, object |-> 0, points |-> <<>>]
NoWalk == [label |-> 0, policy |-> 0, track |-> NoTrack, status |-> 0, tp |-> NoPoint,
           err |-> FALSE, out |-> <<>>]

\* The coordinate system of a value; tp.cs is the one of tp.pos.
Cs(doc, no) == IF no = 0 THEN "none" ELSE doc[no].cs

\* "Stores `v` if the slot is empty, or if `v` is WGS-84 and the point's coordinate
\* system is not."  parse_floats drops a garbled vector.
PreferWgs(doc, slot, have_cs, no) ==
  IF /\ doc[no].numbers
     /\ slot = 0 \/ (Cs(doc, no) = "WGS_84" /\ have_cs # "WGS_84")
  THEN no ELSE slot

\* The policy tags of a label element and of a policy element, 0 for none.
WireTags(doc, label, policy) ==
  IF label = 0 THEN <<>>
  ELSE WireClassification(doc[label], IF policy = 0 THEN NoToken ELSE doc[policy].value)

\* flush_track, apply_kinematics: an event per point, with the whole track as its
\* payload; only a WGS-84 point is placed and shows a velocity.
PointEvent(walk, point, doc) ==
  LET placed == Cs(doc, point.pos) = "WGS_84"
  IN  RecordEvent(walk.track.start, point.end,
                  IF placed THEN doc[point.pos].flaw ELSE "none",
                  WireTags(doc, walk.label, walk.policy))
      @@ [label |-> walk.label, policy |-> walk.policy, object |-> walk.track.object,
          status |-> point.status, pos |-> point.pos,
          vel |-> IF placed THEN point.vel ELSE 0]
FlushTrack(walk, doc) ==
  [k \in DOMAIN walk.track.points |-> PointEvent(walk, walk.track.points[k], doc)]

\* to_events and Walk::route_text on one element.
ReadElement(walk, doc, no) ==
  LET el == doc[no].el
      have_cs == Cs(doc, walk.tp.pos)
  IN  CASE walk.err \/ el = "malformed" -> [walk EXCEPT !.err = TRUE]
        [] el = "label" -> [walk EXCEPT !.label = no]
        [] el = "policy" -> [walk EXCEPT !.policy = no]
        [] el = "track" -> [walk EXCEPT !.track = [NoTrack EXCEPT !.start = no]]
        [] el = "object" -> [walk EXCEPT !.track.object = no]
        [] el = "status" -> [walk EXCEPT !.status = no]
        [] el = "pos" -> [walk EXCEPT !.tp.pos = PreferWgs(doc, @, have_cs, no)]
        [] el = "vel" -> [walk EXCEPT !.tp.vel = PreferWgs(doc, @, have_cs, no)]
        [] el = "/tp" ->
             [walk EXCEPT !.track.points =
                            Append(@, [walk.tp EXCEPT !.status = walk.status, !.end = no]),
                          !.tp = NoPoint]
        [] el = "/segment" -> [walk EXCEPT !.status = 0]
        [] el = "/track" -> [walk EXCEPT !.out = @ \o FlushTrack(walk, doc), !.track = NoTrack]
        [] OTHER -> walk

TrackMessage(frame) ==
  /\ kind = "stanag4676"
  /\ LET step(walk, k) == ReadElement(walk, frame.parts, k)
         walk == FoldLeft(step, NoWalk, [k \in DOMAIN frame.parts |-> k])
     IN  ParsedRecords(frame, walk)
-----------------------------------------------------------------------------
(* What the events must show *)

\* The parts of a stanag4586 datagram before the first that does not fit.
Fitting(parts) == {k \in DOMAIN parts : \A j \in 1 .. k : parts[j].fits}

\* In a document: the last element `el` before `no` and after the last of `since`.
LastBefore(parts, el, since, no) ==
  LET from == Latest({k \in 1 .. no - 1 : parts[k].el \in since})
  IN  Latest({k \in from .. no - 1 : k > 0 /\ parts[k].el = el})
\* The track around `no`, and its end, 0 if there is none.
TrackOf(parts, no) == LastBefore(parts, "track", {"/track"}, no)
TrackEnd(parts, no) ==
  LET ends == {k \in DOMAIN parts : k > no /\ parts[k].el = "/track"}
  IN  IF ends = {} THEN 0 ELSE Min(ends)
\* The position of the point that ends at `no`: its first in WGS-84, else its first.
PointPos(parts, no) ==
  LET since == Latest({k \in 1 .. no - 1 : parts[k].el = "/tp"})
      all == {k \in since + 1 .. no : parts[k].el = "pos" /\ parts[k].numbers}
      wgs == {k \in all : parts[k].cs = "WGS_84"}
  IN  IF wgs # {} THEN Min(wgs) ELSE IF all # {} THEN Min(all) ELSE 0
FirstVel(parts, no) ==
  LET since == Latest({k \in 1 .. no - 1 : parts[k].el = "/tp"})
      all == {k \in since + 1 .. no : parts[k].el = "vel" /\ parts[k].numbers}
  IN  IF all = {} THEN 0 ELSE Min(all)
PointFlaw(parts, no) ==
  LET pos == PointPos(parts, no)
  IN  IF Cs(parts, pos) = "WGS_84" THEN parts[pos].flaw ELSE "none"

\* What of frame n is to become an event: <<part, item, flaw>>.
Items(n) ==
  LET parts == frames[n].parts
  IN  CASE kind = "gmti" ->
             UNION {{<<k, j, parts[k].reports[j]>> : j \in DOMAIN parts[k].reports} :
                      k \in {i \in DOMAIN parts : parts[i].type = "dwell"
                            /\ <<parts[i].gives, parts[i].scaled>> \in
                                 {<<"hires", TRUE>>, <<"hires", FALSE>>, <<"delta", TRUE>>}}}
        [] kind = "stanag4586" ->
             {<<k, 1, parts[k].flaw>> : k \in {i \in Fitting(parts) : parts[i].type = "inertial"}}
        [] kind = "stanag4676" ->
             {<<TrackOf(parts, k), k, PointFlaw(parts, k)>> :
                k \in {i \in DOMAIN parts : parts[i].el = "/tp" /\ TrackEnd(parts, i) # 0}}

\* What makes parse refuse frame n.
Refused(n) ==
  LET parts == frames[n].parts
  IN  \/ \E item \in Items(n) : item[3] # "none"
      \/ kind = "gmti" /\ (~frames[n].valid \/ \E k \in DOMAIN parts : BadSegment(parts[k]))
      \/ kind = "stanag4586" /\ \E k \in Fitting(parts) :
           ~parts[k].checksum \/ (parts[k].type = "inertial" /\ ~parts[k].full)
      \/ kind = "stanag4676" /\ \E k \in DOMAIN parts : parts[k].el = "malformed"

\* A frame gives every record of its own as one event, in order, with the part it
\* stands in as payload; or none at all.
RecordsComplete(n) ==
  LET mine == SelectSeq(events, LAMBDA v : v.at = n)
      precedes(p, q) == p[1] < q[1] \/ (p[1] = q[1] /\ p[2] < q[2])
  IN  [k \in DOMAIN mine |-> <<mine[k].part, mine[k].item, mine[k].flaw>>]
        = IF Refused(n) THEN <<>> ELSE SetToSortSeq(Items(n), precedes)

\* A point carries the label before its track's end, the object its own track last
\* described, the status its own segment gave before it, and its best position.
\* Its velocity is WGS-84 too, unless the point's first velocity was not: prefer_wgs
\* compares with the coordinate system of the position, which the WGS-84 block that
\* holds the other velocity has just replaced.
PointIsLatest(v) ==
  LET parts == frames[v.at].parts
      end == TrackEnd(parts, v.item)
      first == FirstVel(parts, v.item)
  IN  /\ v.label = LastBefore(parts, "label", {}, end)
      /\ v.policy = LastBefore(parts, "policy", {}, end)
      /\ v.vel # 0 => Cs(parts, v.vel) = "WGS_84" \/ Cs(parts, first) # "WGS_84"
      /\ v.object = LastBefore(parts, "object", {"track"}, end)
      /\ v.status = LastBefore(parts, "status", {"/segment"}, v.item)
      /\ v.pos = PointPos(parts, v.item)

\* The label an event's class tag must not fall below: an unreadable one counts as
\* the highest.
LabelLevel(v) ==
  IF kind # "stanag4676" \/ v.label = 0 THEN {}
  ELSE LET label == frames[v.at].parts[v.label]
       IN  IF label.blank THEN {} ELSE {IF label.level \in Levels THEN label.level ELSE TopSecret}
MarkedRight(v) ==
  LET m == parser.marking
      wire == IF kind # "stanag4676" THEN <<>>
              ELSE WireTags(frames[v.at].parts, v.label, v.policy)
      classes == {t.level : t \in {u \in ToSet(v.tags) : Ranked(u)}}
  IN  /\ Stamped(m, wire, v.tags)
      /\ \A l \in LabelLevel(v) : \E c \in classes : c >= l
      /\ Apply(m, v.tags) = v.tags
-----------------------------------------------------------------------------
\* The marking is read once at the start, which a block that is refused prevents.
RecordInit ==
  /\ kind \in RecordKinds \cap Kinds
  /\ \/ parser = [marking |-> <<>>]
     \/ \E cfg \in MarkingConfigs :
          ConfigAccepted(cfg) /\ parser = [marking |-> ConfigTags(cfg)]

RecordNext ==
  kind \in RecordKinds /\ \E frame \in RecordFrames[kind] :
     GmtiPacket(frame) \/ VsmDatagram(frame) \/ TrackMessage(frame)
=============================================================================
