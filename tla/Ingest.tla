------------------------------- MODULE Ingest -------------------------------
(***************************************************************************)
(* The parsers side by side: a behaviour runs one of them, chosen in the    *)
(* initial state, on any sequence of its frames.                            *)
(***************************************************************************)
EXTENDS CarryParsers, RadarParsers, SapientIngress, RecordParsers, SingleParsers, Sdks

IngestInit ==
  /\ frames = <<>> /\ events = <<>> /\ clock = 0
  /\ \/ CarryInit \/ RadarInit \/ (SapientInit /\ kind \in Kinds)
     \/ RecordInit \/ SingleInit \/ SdkInit
IngestNext ==
  CarryNext \/ RadarNext \/ SapientNext \/ RecordNext \/ SingleNext \/ SdkNext
IngestSpec == IngestInit /\ [][IngestNext]_parserVars /\ SapientFairness

EventsOf(kinds) == IF kind \in kinds THEN ToSet(events) ELSE {}

\* The payload of a track event is the evidence: every message of the vessel,
\* aircraft or vehicle since its position report before, whole, in order and once
\* (Carry::drain_with, drain_payload), unless the event says it is truncated or
\* other entities crowded this one out of the cache; and no other sender's
\* sentence gets in but through a shared reassembly key (AisParser::parse_sentence).
\* A frame of several records gives one event for each that is located, in order,
\* with its whole dwell, message or track as evidence, or it is refused and gives
\* none (parse_packet, S4586Parser::to_events, flush_track).
CarriedForward ==
  /\ \A v \in EventsOf(CarryKinds) : EvidenceComplete(v) /\ EvidenceOwn(v)
  /\ kind \in RecordKinds => \A n \in DOMAIN frames : RecordsComplete(n)

\* What an event states from memory is the latest its own entity said, through
\* fragments, resets, rejected frames and evictions: vessel identity, aircraft and
\* vehicle state (merge_identity, parse_line, mutate), a radar's merged health
\* (RadarStatus::merge), the observer of a TTM target (TtmState::observer) and a
\* SAPIENT node's name and position (update_node).  A SAPIENT velocity is scaled by the
\* units its own connection's registration declared, which always gets to the parser
\* first through the bounded channel (connection_loop, SapientParser::detection).
\* Within one frame, too: a point has the status of its own segment and the object of
\* its own track, and a repeated KLV tag or CoT element replaces the one before
\* (Walk, parse_set, to_event).
LatestKnown ==
  /\ \A v \in EventsOf(CarryKinds) : KnownIsLatest(v)
  /\ \A v \in EventsOf({"asterix"}) : StatusIsLatest(v)
  /\ \A v \in EventsOf({"ttm"}) : PlacedFromLatest(v)
  /\ \A v \in EventsOf({"sapient"}) : NodeIsLatest(v) /\ DeclaredUnits(v)
  /\ \A v \in EventsOf({"stanag4676"}) : PointIsLatest(v)
  /\ \A v \in EventsOf({"klv"}) : SetIsLatest(v)
  /\ \A v \in EventsOf({"cot"}) : CotIsLatest(v)

\* "The configured level is a floor: a wire marking can raise it, never lower it":
\* an event leaves with one classification, the highest of the operator's and the
\* label's, an unreadable label counting as top-secret; no other wire tag is lost,
\* none is doubled, and "applying twice is harmless" (Marking::apply,
\* wire_classification, the event loop of run).
MarkingIsFloor == \A v \in EventsOf(RecordKinds) : MarkedRight(v)

\* Once the mapping has passed at boot, no attribute it names is one that Core does
\* not govern, and what slips through is counted for each event (ontology::enforce,
\* governs, report_ungoverned).
MappingGoverned ==
  /\ \A v \in EventsOf({"generic"}) : GovernedByMapping(v)
  /\ kind = "generic" =>
       parser.ungoverned = Len(SelectSeq(events, LAMBDA v : Ungoverned(v) # {}))

\* "Five independent protobuf encoders ... agreeing on every hash" start from the same
\* canonical event: whatever the language, build sorts keys, drops nothing, refuses
\* duplicates and keeps the limits, and the four refuse the same drafts but for the
\* differences BuildersAgree names (EventBuilder::build, Build, build).  A consumer is
\* handed each verified event once, "a consumer never sees one that did not", and with
\* a guard a platform does not assess its own output (process, VerifyingHandler,
\* consume, verifying_handler, publish_assessment).
SdksAlike ==
  /\ \A v \in EventsOf({"sdk"}) : BuiltCanonical(v)
  /\ kind = "sdk" =>
       /\ \A n \in DOMAIN frames : BuildersAgree(frames[n])
       /\ \A n \in DOMAIN frames :
            (\E v \in ToSet(events) : v.at = n) <=> ~Refuses(parser.language, Builder(frames[n]))
  /\ kind = "consumer" => ConsumedRight

\* A message a sensor wrote is parsed in the end, unless its connection broke, its
\* acknowledgement failed or an oversized frame closed it: a full channel delays
\* messages and loses none (connection_loop, DmmSource::recv).
ReportsReachParser ==
  \A c \in 1 .. MaxConns, no \in 1 .. MaxWrites :
     Unread(c, no) ~> (WasParsed(no) \/ GivenUp(c))
=============================================================================
