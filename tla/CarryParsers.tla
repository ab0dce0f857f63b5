---------------------------- MODULE CarryParsers ----------------------------
(***************************************************************************)
(* The parsers that gather one entity's messages: ais-nmea (per MMSI), adsb *)
(* (per ICAO address) and mavlink (per system id).  A message that reports  *)
(* no position is kept as evidence and its fields are remembered; the next  *)
(* position report of the entity becomes an event that carries both.        *)
(* The caches are bounded; AIS also puts multi-fragment messages together.  *)
(***************************************************************************)
EXTENDS Parser

CONSTANTS
  CarryFrames,   \* the frames offered to each of the three parsers
  MaxEntities,   \* MAX_VESSELS, MAX_AIRCRAFT
  MaxPending,    \* MAX_PENDING_FRAMES (and _BYTES, by frames of equal length)
  ReasmTtl       \* REASM_TTL, in ticks

CarryKinds == {"ais", "adsb", "mavlink"}
IsCarry == kind \in CarryKinds

\* A frame: the entity it names, whether it is a position report, the fields it
\* fills in, those it resets, and what is wrong with the coordinates it holds; AIS
\* adds the reassembly key and the fragment number (0 for a message in one
\* sentence) and whether the message type holds identity fields.
Fields == {"first", "last"}
NoFields == [f \in Fields |-> 0]
-----------------------------------------------------------------------------
(* The bounded caches: MmsiCache, StateCache *)

Blank == [pending |-> <<>>, cut |-> FALSE, known |-> NoFields]
NoCache == [order |-> <<>>, map |-> <<>>]
\* mavlink keeps a plain map: system ids are one octet.
CacheCap == IF kind = "mavlink" THEN 256 ELSE MaxEntities

\* MmsiCache::entry: the newcomer evicts the oldest at the cap.
Entry(cache, e) ==
  IF e \in DOMAIN cache.map THEN cache
  ELSE LET kept == IF Len(cache.order) >= CacheCap THEN Tail(cache.order) ELSE cache.order
       IN  [order |-> Append(kept, e),
            map |-> [x \in ToSet(kept) \cup {e} |-> IF x = e THEN Blank ELSE cache.map[x]]]

PushRawSilent(entry, raws) ==
  LET all == entry.pending \o raws
      over == IF Len(all) > MaxPending THEN Len(all) - MaxPending ELSE 0
  IN  [entry EXCEPT !.pending = SubSeq(all, over + 1, Len(all))]
\* push_raw of each sentence: the oldest pending go over the cap.
PushRaw(entry, raws) ==
  LET all == entry.pending \o raws
      over == IF Len(all) > MaxPending THEN Len(all) - MaxPending ELSE 0
  IN  [entry EXCEPT !.pending = SubSeq(all, over + 1, Len(all)),
                    !.cut = @ \/ over > 0]
\* drain_with, drain_payload: what is left in the entry.
Drained(entry) == [entry EXCEPT !.pending = <<>>, !.cut = FALSE]

\* merge_identity and the state updates: a field the frame fills in is replaced,
\* one it leaves empty stays.  `from` names the sentence that holds each field.
Merge(known, fills, resets, from) ==
  [f \in Fields |-> IF f \in fills THEN from[f] ELSE IF f \in resets THEN 0 ELSE known[f]]

\* base_builder: the event of a position report.
CarryEvent(e, entry, raw, known, flaw) ==
  [entity |-> e, at |-> Now, raw |-> raw, truncated |-> entry.cut, known |-> known,
   flaw |-> flaw]
-----------------------------------------------------------------------------
(* ais-nmea *)

AisInit == [pending |-> <<>>, identities |-> NoCache, carry |-> NoCache]

\* parse, base_builder: the event; AIS positions off the planet are None already.
AisEvent(e, entry, parts, known) ==
  CarryEvent(e, entry, entry.pending \o parts, known, "none")

\* AisParser::decode of a message put together from `parts`: type and MMSI are in
\* the first fragment, which also holds the field "first".  A payload that does
\* not decode is an error, and its sentences are gone.
AisDecode(frame, parts, reasm) ==
  LET sent == Append(frames, frame)
      lead == sent[Head(parts)]
      tail == sent[Last(parts)]
      fills == {f \in Fields : f \in (IF f = "first" THEN lead.fills ELSE tail.fills)}
      from == [f \in Fields |-> IF f = "first" THEN Head(parts) ELSE Last(parts)]
      e == lead.entity
      decodes == \A i \in ToSet(parts) : sent[i].decodes
      names == IF lead.names THEN Entry(parser.identities, e) ELSE parser.identities
      merged == IF lead.names
                THEN [names EXCEPT !.map[e].known = Merge(@, fills, {}, from)]
                ELSE names
      carry == Entry(parser.carry, e)
      entry == carry.map[e]
      known == IF e \in DOMAIN merged.map THEN merged.map[e].known ELSE NoFields
  IN  IF ~decodes THEN Parsed(frame, [parser EXCEPT !.pending = reasm], <<>>)
      ELSE IF lead.position
      THEN Parsed(frame,
             [pending |-> reasm, identities |-> merged,
              carry |-> [carry EXCEPT !.map[e] = Drained(entry)]],
             Published(AisEvent(e, entry, parts, known)))
      ELSE Parsed(frame,
             [pending |-> reasm, identities |-> merged,
              carry |-> [carry EXCEPT !.map[e] = PushRaw(entry, parts)]], <<>>)

\* The partial messages younger than REASM_TTL.
Fresh(pending) ==
  [k \in {j \in DOMAIN pending : clock - pending[j].first_seen < ReasmTtl} |-> pending[k]]
Without(pending, key) == [k \in DOMAIN pending \ {key} |-> pending[k]]

\* A message in one sentence.
AisWhole(frame) ==
  /\ kind = "ais" /\ frame.num = 0
  /\ AisDecode(frame, <<Now>>, parser.pending)

\* The first fragment of two starts its key over.
AisFirst(frame) ==
  /\ kind = "ais" /\ frame.num = 1
  /\ Parsed(frame,
       [parser EXCEPT !.pending =
          [k \in DOMAIN Fresh(@) \cup {frame.key} |->
             IF k = frame.key THEN [first_seen |-> clock, raw |-> Now] ELSE @[k]]],
       <<>>)

\* The second completes what waits under its key, or is dropped.
AisSecond(frame) ==
  /\ kind = "ais" /\ frame.num = 2
  /\ LET waiting == Fresh(parser.pending)
         left == Without(waiting, frame.key)
     IN  IF frame.key \in DOMAIN waiting
         THEN AisDecode(frame, <<waiting[frame.key].raw, Now>>, left)
         ELSE Parsed(frame, [parser EXCEPT !.pending = left], <<>>)
-----------------------------------------------------------------------------
(* adsb: AdsbParser::parse_line; one cache holds state and evidence *)

\* The event is placed at the remembered altitude, the field "last"; one that is
\* not finite fails the build.
AltitudeFlaw(known, frame) ==
  IF known["last"] = 0 THEN "none" ELSE Append(frames, frame)[known["last"]].flaw

AdsbEvent(frame, entry) ==
  CarryEvent(frame.entity, entry, entry.pending, entry.known,
             AltitudeFlaw(entry.known, frame))

AdsbLine(frame) ==
  /\ kind = "adsb"
  /\ LET e == frame.entity
         cache == Entry(parser.aircraft, e)
         pushed == PushRaw(cache.map[e], <<Now>>)
         entry == [pushed EXCEPT !.known =
                     Merge(@, frame.fills, {}, [f \in Fields |-> Now])]
     IN  IF frame.position
         THEN Parsed(frame, [aircraft |-> [cache EXCEPT !.map[e] = Drained(entry)]],
                Published(AdsbEvent(frame, entry)))
         ELSE Parsed(frame, [aircraft |-> [cache EXCEPT !.map[e] = entry]], <<>>)
-----------------------------------------------------------------------------
(* mavlink: MavParser::parse_frame; a frame with a bad CRC changes nothing *)

\* The state updates of messages.rs: heartbeat and GPS fields are overwritten even
\* by None, the others only by a value.
MavState(known, frame) ==
  Merge(known, frame.fills, frame.resets, [f \in Fields |-> Now])

\* global_position and gps_raw: the evidence is drained before the event is built,
\* so a report that does not build loses it.
MavPosition(frame, cache, entry) ==
  Parsed(frame,
    [vehicles |-> [cache EXCEPT !.map[frame.entity] = Drained(entry)]],
    Published(CarryEvent(frame.entity, entry, entry.pending, entry.known, frame.flaw)))

MavFrame(frame) ==
  /\ kind = "mavlink"
  /\ IF ~frame.decodes THEN Parsed(frame, parser, <<>>)
     ELSE LET e == frame.entity
              cache == Entry(parser.vehicles, e)
              pushed == PushRaw(cache.map[e], <<Now>>)
              entry == [pushed EXCEPT !.known = MavState(@, frame)]
          IN  IF frame.position THEN MavPosition(frame, cache, entry)
              ELSE Parsed(frame, [vehicles |-> [cache EXCEPT !.map[e] = entry]], <<>>)
-----------------------------------------------------------------------------
(* What the events must show *)

\* The sentences of the message that frame c completes, and who sent it.
Starts(i, c) ==
  /\ frames[i].num = 1 /\ frames[i].key = frames[c].key
  /\ frames[c].seen - frames[i].seen < ReasmTtl
  /\ \A j \in i + 1 .. c - 1 : frames[j].num = 0 \/ frames[j].key # frames[c].key
Message(c) ==
  CASE frames[c].num = 0 -> <<c>>
    [] frames[c].num = 1 -> <<>>
    [] OTHER -> SetToSeq({i \in 1 .. c - 1 : Starts(i, c)}) \o <<c>>
Whole(c) ==
  /\ Len(Message(c)) = IF frames[c].num = 0 THEN 1 ELSE 2
  /\ \A i \in ToSet(Message(c)) : frames[i].decodes
Lead(c) == frames[Head(Message(c))]
MessagesOf(e, n) == {c \in 1 .. n : Whole(c) /\ Lead(c).entity = e}

\* Enough other entities came in after e for the cache to have dropped it.
Crowded(e, n) ==
  LET since == Min(MessagesOf(e, n))
  IN  Cardinality({Lead(c).entity : c \in {d \in since .. n : Whole(d)}} \ {e}) >= CacheCap

\* All the evidence on event v's entity since its position report before v.
Evidence(v) ==
  LET mine == MessagesOf(v.entity, v.at)
      previous == Latest({c \in mine : c < v.at /\ Lead(c).position})
  IN  FlattenSeq([k \in 1 .. Cardinality({c \in mine : c > previous}) |->
        Message(SetToSortSeq({c \in mine : c > previous}, <)[k])])

\* The sentence that holds the last value of field f on v's entity.
LastSaid(v, f) ==
  LET says == {c \in MessagesOf(v.entity, v.at) :
                 /\ kind = "ais" => Lead(c).names
                 /\ \/ f \in frames[IF f = "first" THEN Head(Message(c)) ELSE c].fills
                    \/ f \in Lead(c).resets}
      c == Latest(says)
  IN  IF c = 0 \/ (f \in Lead(c).resets /\ f \notin Lead(c).fills) THEN 0
      ELSE IF f = "first" THEN Head(Message(c)) ELSE c

EvidenceComplete(v) ==
  \/ v.raw = Evidence(v)
  \/ /\ v.truncated \/ Crowded(v.entity, v.at)
     /\ IsSuffix(v.raw, Evidence(v))
\* A sentence of another sender is there only if the two shared a reassembly key.
EvidenceOwn(v) ==
  \A i \in ToSet(v.raw) :
     \/ frames[i].entity = v.entity
     \/ \E j \in 1 .. i - 1 : Starts(j, i) /\ frames[j].entity = v.entity
KnownIsLatest(v) ==
  \A f \in Fields : \/ v.known[f] = LastSaid(v, f)
                    \/ Crowded(v.entity, v.at) /\ v.known[f] = 0
-----------------------------------------------------------------------------
CarryInit ==
  /\ kind \in CarryKinds \cap Kinds
  /\ parser = CASE kind = "ais" -> AisInit
                [] kind = "adsb" -> [aircraft |-> NoCache]
                [] kind = "mavlink" -> [vehicles |-> NoCache]

CarryNext ==
  /\ IsCarry
  /\ \/ \E frame \in CarryFrames[kind] :
          LET stamped == [frame EXCEPT !.seen = clock]
          IN  \/ AisWhole(stamped) \/ AisFirst(stamped) \/ AisSecond(stamped)
              \/ AdsbLine(stamped)
              \/ MavFrame(stamped)
     \/ kind = "ais" /\ Tick
=============================================================================
