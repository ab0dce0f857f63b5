--------------------------- MODULE SingleParsers ---------------------------
(***************************************************************************)
(* The parsers that read one event from a frame: klv (the tags of a set),   *)
(* tak-cot (the elements of a CoT event) and generic (a JSON object or CSV  *)
(* row, by the configured mapping).  A value is the number of the part of   *)
(* the frame that stated it, 0 for None.                                    *)
(***************************************************************************)
EXTENDS Parser, Ontology

CONSTANTS
  SingleFrames,   \* the frames offered to each of the parsers
  GenericConfigs  \* the configurations the generic connector is started with

SingleKinds == {"klv", "cot", "generic"}
Nothing(fields) == [f \in fields |-> 0]
-----------------------------------------------------------------------------
(* klv: KlvParser::parse_set, base_builder *)

\* "tail" and "designation" name the platform; the other optional tags are alike.
KlvTags == {"lat", "lon", "tail", "designation"}

\* A tag of the set: the last one counts, and one that holds the error indicator, a
\* wrong width or blanks is None again.
ReadTag(m, item, no) ==
  IF item.tag \in KlvTags THEN [m EXCEPT ![item.tag] = IF item.good THEN no ELSE 0] ELSE m

KlvSet(frame) ==
  /\ kind = "klv"
  /\ LET step(m, k) == ReadTag(m, frame.parts[k], k)
         m == FoldLeft(step, Nothing(KlvTags), [k \in DOMAIN frame.parts |-> k])
         err == ~frame.valid \/ \E k \in DOMAIN frame.parts : ~frame.parts[k].fits
         uid == IF m["tail"] # 0 THEN m["tail"] ELSE m["designation"]
     IN  Parsed(frame, parser,
           IF err \/ m["lat"] = 0 \/ m["lon"] = 0 THEN <<>>
           ELSE <<[at |-> Now, known |-> m, uid |-> uid, flaw |-> "none"]>>)
-----------------------------------------------------------------------------
(* tak-cot: CotParser::to_event over the elements of a document *)

\* "course" stands for course and speed, "callsign" for the optional text.
CotFields == {"uid", "type", "time", "lat", "lon", "callsign", "course", "confidence"}
CotStart == [known |-> Nothing(CotFields), in_confidence |-> FALSE, saw_event |-> FALSE,
             err |-> FALSE]

\* The attributes `says` of an element; of these `bad` are not numbers.  Such a
\* coordinate is an error, any other such value is None.
ReadAttributes(w, part, no) ==
  [w EXCEPT !.known = [f \in CotFields |-> IF f \notin part.says THEN @[f]
                                           ELSE IF f \in part.bad THEN 0 ELSE no],
            !.saw_event = @ \/ part.el = "event",
            !.in_confidence = @ \/ part.el = "confidence",
            !.err = @ \/ part.bad \cap {"lat", "lon"} # {}]

\* Text ends the wait for a confidence, whichever element it stands in.
ReadText(w, part, no) ==
  IF ~w.in_confidence THEN w
  ELSE [w EXCEPT !.in_confidence = FALSE,
                 !.known["confidence"] =
                    IF @ = 0 /\ "confidence" \notin part.bad THEN no ELSE @]

ReadCot(w, part, no) ==
  CASE w.err \/ part.el = "malformed" -> [w EXCEPT !.err = TRUE]
    [] part.el = "text" /\ ~w.err -> ReadText(w, part, no)
    [] OTHER -> ReadAttributes(w, part, no)

\* The flaw build finds: in the time, in a placed point, in the confidence.
CotFlaw(known, parts) ==
  LET placed == known["lat"] # 0 /\ known["lon"] # 0
      used == {known["time"], known["confidence"]}
              \cup IF placed THEN {known["lat"], known["lon"]} ELSE {}
  IN  IF \E k \in used \ {0} : parts[k].flaw # "none" THEN "refused" ELSE "none"

CotEvent(frame) ==
  /\ kind = "cot"
  /\ LET step(w, k) == ReadCot(w, frame.parts[k], k)
         w == FoldLeft(step, CotStart, [k \in DOMAIN frame.parts |-> k])
         missing == \E f \in {"uid", "type", "time"} : w.known[f] = 0
     IN  Parsed(frame, parser,
           IF w.err \/ ~w.saw_event \/ missing THEN <<>>
           ELSE Published([at |-> Now, known |-> w.known,
                           flaw |-> CotFlaw(w.known, frame.parts)]))
-----------------------------------------------------------------------------
(* generic: GenericParser::to_event.  A record has the fields `fields`; those in *)
(* `bad` do not convert to what they are mapped to.                              *)

\* main: what the mapping declares, the default hostility as a fixed value.
Declared(cfg) ==
  [entity |-> cfg.entity, attributes |-> {cfg.attributes[f] : f \in DOMAIN cfg.attributes},
   fixed_values |-> {<<"hostility", h>> : h \in cfg.hostility}]

\* A mapped timestamp must be there; the coordinates count only together; what is
\* there must convert.
Converts(cfg, rec) ==
  LET located == {"lat", "lon"} \subseteq rec.fields
      needed == IF cfg.timestamp THEN {"time"} ELSE {}
      read == needed \cup (IF located THEN {"lat", "lon", "alt"} ELSE {}) \cup {"confidence"}
  IN  needed \subseteq rec.fields /\ rec.bad \cap rec.fields \cap read = {}

\* The attributes set, and the fields each comes from ("" is the configuration).
Sets(cfg, rec) ==
  {<<"hostility", "">> : h \in cfg.hostility}
  \cup {<<cfg.attributes[f], f>> : f \in DOMAIN cfg.attributes \cap rec.fields}

GenericEvent(cfg, rec) ==
  LET sets == Sets(cfg, rec)
      repeated == \E p, q \in sets : p[1] = q[1] /\ p # q
      named == cfg.entity.ns \in {"mim", "x"}
  IN  [at |-> Now, entity |-> cfg.entity, keys |-> {p[1] : p \in sets},
       flaw |-> IF repeated THEN "duplicate key" ELSE IF ~named THEN "unnamespaced"
                ELSE rec.flaw]

\* run's report_ungoverned: counted per event, logged once per type and attribute.
Report(state, event) ==
  LET lost == IF KnowsType(event.entity) THEN Ungoverned(event) ELSE {""}
  IN  [state EXCEPT !.ungoverned = @ + (IF lost = {} THEN 0 ELSE 1),
                    !.reported = @ \cup {<<event.entity, a>> : a \in lost}]

GenericRecord(frame) ==
  /\ kind = "generic"
  /\ LET cfg == parser.config
         event == GenericEvent(cfg, frame)
         ok == frame.decodes /\ Converts(cfg, frame) /\ Builds(event)
     IN  Parsed(frame, IF ok THEN Report(parser, event) ELSE parser,
                IF ok THEN <<event>> ELSE <<>>)
-----------------------------------------------------------------------------
(* What the events must show *)

\* A set's values are those of the last tags that stated them.
SetIsLatest(v) ==
  LET parts == frames[v.at].parts
      last(tag) == Latest({k \in DOMAIN parts : parts[k].tag = tag})
      value(tag) == IF last(tag) # 0 /\ parts[last(tag)].good THEN last(tag) ELSE 0
  IN  /\ \A tag \in KlvTags : v.known[tag] = value(tag)
      /\ v.uid \in {value("tail"), value("designation")}
      /\ v.uid = 0 => value("tail") = 0 /\ value("designation") = 0

\* A CoT value is that of the last element that states it.  A confidence is stated by
\* its element or by the text in it, "the attribute wins if both are present"; an
\* element without text lets the next text of any element in.
CotIsLatest(v) ==
  LET parts == frames[v.at].parts
      last(f) == Latest({k \in DOMAIN parts : parts[k].el # "text" /\ f \in parts[k].says})
      value(f) == IF last(f) = 0 \/ f \in parts[last(f)].bad THEN 0 ELSE last(f)
      c == v.known["confidence"]
  IN  /\ \A f \in CotFields \ {"confidence"} : v.known[f] = value(f)
      /\ c # 0 =>
           \/ parts[c].el = "confidence"
           \/ /\ parts[c].el = "text"
              /\ \A k \in 1 .. c - 1 : "confidence" \in parts[k].says => "confidence" \in parts[k].bad
              /\ \E k \in 1 .. c - 1 : /\ parts[k].el = "confidence"
                                       /\ \A j \in k + 1 .. c - 1 : parts[j].el # "text"

\* What the mapping accepted at boot lets out is governed, but for a default hostility
\* on a type that has no such attribute: enforce looks at its value only.
GovernedByMapping(v) ==
  \A a \in Ungoverned(v) : a = "hostility" /\ parser.config.hostility # {}
-----------------------------------------------------------------------------
\* The generic connector starts only with a mapping that passes.
SingleInit ==
  \/ kind \in {"klv", "cot"} \cap Kinds /\ parser = <<>>
  \/ /\ kind \in {"generic"} \cap Kinds
     /\ \E cfg \in GenericConfigs :
          /\ Enforce(Declared(cfg))
          /\ parser = [config |-> cfg, ungoverned |-> 0, reported |-> {}]

SingleNext ==
  kind \in SingleKinds /\ \E frame \in SingleFrames[kind] :
     KlvSet(frame) \/ CotEvent(frame) \/ GenericRecord(frame)
=============================================================================
