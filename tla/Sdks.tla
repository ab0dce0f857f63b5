-------------------------------- MODULE Sdks --------------------------------
(***************************************************************************)
(* What a connector or a platform calls in the Rust, Go, Python and C++     *)
(* SDKs: EventBuilder, the C++ validate, the verifying consumers and the    *)
(* Python publish_assessment.  A behaviour runs one language: kind "sdk"    *)
(* builds events, kind "consumer" reads governed egress.                    *)
(***************************************************************************)
EXTENDS Parser, Ontology

CONSTANTS
  Languages,    \* the SDKs in the instance
  Drafts,       \* the builders' arguments and the setters called on them
  Deliveries,   \* messages on the egress subject
  GuardConfigs, \* Guards, ConsumerGuards: skip_source_ids and skip_derived
  KeyNames,     \* attribute and metadata keys, in byte order
  MaxTags,      \* MAX_POLICY_TAGS
  MaxEntries    \* MAX_ATTRIBUTES and MAX_METADATA

SdkKinds == {"sdk", "consumer"}
-----------------------------------------------------------------------------
(* EventBuilder.  An option is a sequence of at most one value; an entity type *)
(* is its parts between colons; a key is its place in KeyNames.                *)

NewBuilder(source, entity) ==
  [source |-> source, entity |-> entity, id |-> <<>>, timestamp |-> <<>>, location |-> "none",
   confidence |-> "in range", strict |-> TRUE, tag |-> <<>>, attribute |-> <<>>,
   metadata |-> <<>>]

\* A setter: the last id, timestamp, location or confidence counts, while tags,
\* attributes and metadata add up.
Set(b, call) ==
  IF call.set \in {"tag", "attribute", "metadata"}
  THEN [b EXCEPT ![call.set] = Append(@, call.to)]
  ELSE [b EXCEPT ![call.set] = call.to]

Builder(draft) == FoldLeft(Set, NewBuilder(draft.source, draft.entity), draft.calls)

\* is_namespaced: mim:<type> or x:<vendor>:<type>.
Namespaced(entity) ==
  /\ Len(entity) = IF entity[1] = "mim" THEN 2 ELSE 3
  /\ entity[1] \in {"mim", "x"} /\ \A k \in 2 .. Len(entity) : entity[k] # ""

\* is_rfc3339.  `digits` is the number after the point, a zone is Z (<<>>) or hh:mm;
\* `shaped` says that the rest is where it should be.
Rfc3339(t) ==
  /\ t.shaped /\ t.month \in 1 .. 12 /\ t.day \in 1 .. 31
  /\ t.hour <= 23 /\ t.minute <= 59 /\ t.second <= 60
  /\ t.point => t.digits > 0
  /\ t.zone # <<>> => t.zone[1] <= 23 /\ t.zone[2] <= 59

Sorted(entries) == SortSeq(entries, LAMBDA p, q : p.key < q.key)
Repeats(entries) == \E i \in 2 .. Len(entries) : Sorted(entries)[i].key = Sorted(entries)[i - 1].key
EmptyName(entity) == entity = <<"">>

\* Rust's build: a field never set is missing, and what the boundary would refuse fails.
RustRefuses(b) ==
  \/ b.id = <<>> \/ b.timestamp = <<>>
  \/ ~Rfc3339(b.timestamp[1])
  \/ b.location = "off-planet"
  \/ b.source = "" \/ EmptyName(b.entity) \/ (b.strict /\ ~Namespaced(b.entity))
  \/ b.confidence # "in range"
  \/ Len(b.tag) > MaxTags \/ Len(b.attribute) > MaxEntries \/ Len(b.metadata) > MaxEntries
  \/ Repeats(b.attribute) \/ Repeats(b.metadata)

\* Go and C++ hold empty strings until a setter is called, and compare the confidence
\* with both ends: not a number is neither below nor above.
Unsaid(text) == text = <<>> \/ text[1] = ""
NoTimestamp(b) == b.timestamp = <<>> \/ b.timestamp[1].empty
GoRefusesRepeats(b) ==
  \/ Unsaid(b.id) \/ NoTimestamp(b) \/ b.source = "" \/ EmptyName(b.entity)
  \/ b.strict /\ ~Namespaced(b.entity)
  \/ b.confidence \in {"below", "above"}
  \/ Len(b.tag) > MaxTags \/ Len(b.attribute) > MaxEntries \/ Len(b.metadata) > MaxEntries
  \/ \E i \in 2 .. Len(b.attribute) : b.attribute[i].key = b.attribute[i - 1].key
  \/ Repeats(b.metadata)
GoRefuses(b) ==
  \/ Unsaid(b.id) \/ NoTimestamp(b) \/ b.source = "" \/ EmptyName(b.entity)
  \/ b.strict /\ ~Namespaced(b.entity)
  \/ b.confidence \in {"below", "above"}
  \/ Len(b.tag) > MaxTags \/ Len(b.attribute) > MaxEntries \/ Len(b.metadata) > MaxEntries
  \/ Repeats(b.attribute) \/ Repeats(b.metadata)
CppRefuses(b) ==
  \/ Unsaid(b.id) \/ NoTimestamp(b) \/ b.source = "" \/ EmptyName(b.entity)
  \/ b.strict /\ ~Namespaced(b.entity)
  \/ b.confidence \in {"below", "above"}
  \/ Len(b.tag) > MaxTags \/ Len(b.attribute) > MaxEntries \/ Len(b.metadata) > MaxEntries
  \/ Repeats(b.attribute) \/ Repeats(b.metadata)

\* Python takes None and "" for missing, and wants the confidence between the ends.
PythonRefuses(b) ==
  \/ Unsaid(b.id) \/ NoTimestamp(b) \/ b.source = "" \/ EmptyName(b.entity)
  \/ b.strict /\ ~Namespaced(b.entity)
  \/ b.confidence # "in range"
  \/ Len(b.tag) > MaxTags \/ Len(b.attribute) > MaxEntries \/ Len(b.metadata) > MaxEntries
  \/ Repeats(b.attribute) \/ Repeats(b.metadata)

Refuses(language, b) ==
  CASE language = "rust" -> RustRefuses(b) [] language = "go" -> GoRefuses(b)
    [] language = "python" -> PythonRefuses(b) [] language = "cpp" -> CppRefuses(b)
-----------------------------------------------------------------------------
(* The C++ validate, on a built event *)

TypeOf(entity) == [ns |-> entity[1], name |-> IF Len(entity) = 2 THEN entity[2] ELSE ""]
MappingOf(event) ==
  [entity |-> TypeOf(event.entity),
   attributes |-> {KeyNames[e.key] : e \in ToSet(event.attribute)},
   fixed_values |-> {<<KeyNames[e.key], e.value>> : e \in ToSet(event.attribute)}]

CppValidate(mapping) ==
  LET governed == MimTypes[mapping.entity]
      unknown == {<<"UnknownAttribute", a>> : a \in mapping.attributes \ governed}
      outside == {f \in mapping.fixed_values :
                    /\ f[1] \in governed /\ f[1] \in DOMAIN Vocabulary
                    /\ f[2] \notin Vocabulary[f[1]]}
  IN  IF mapping.entity.ns = "x" THEN {}
      ELSE IF mapping.entity \notin DOMAIN MimTypes
           THEN {<<"UnknownEntityType", mapping.entity>>}
           ELSE unknown \cup {<<"NotInVocabulary", f>> : f \in outside}

SdkBuild(draft) ==
  /\ kind = "sdk"
  /\ LET b == Builder(draft)
         event == [b EXCEPT !.attribute = Sorted(@), !.metadata = Sorted(@)]
     IN  Parsed(draft, parser,
           IF Refuses(parser.language, b) THEN <<>>
           ELSE <<[at |-> Now, event |-> event, faults |-> CppValidate(MappingOf(event))]>>)
-----------------------------------------------------------------------------
(* The consumers.  The platform publishes an assessment of what it is handed; *)
(* Core lets it out of egress again, as the platform's own ("self").          *)

\* verify: long enough for a signature, and that signature checks.
Verified(message) == message.seal = "good"
Skips(guards, message) ==
  message.source \in guards.sources \/ (guards.derived /\ message.derived)

RustProcess(guards, message) ==
  IF ~Verified(message) \/ ~message.decodes THEN "rejected"
  ELSE IF Skips(guards, message) THEN "skipped" ELSE "accepted"
GoHandler(guards, message) ==
  IF ~Verified(message) \/ ~message.decodes THEN "rejected"
  ELSE IF message.source \in guards.sources THEN "skipped"
  ELSE IF guards.derived /\ message.derived THEN "skipped" ELSE "accepted"
CppHandler(guards, message) ==
  IF ~Verified(message) \/ ~message.decodes THEN "rejected"
  ELSE IF message.source \in guards.sources THEN "skipped"
  ELSE IF guards.derived /\ message.derived THEN "skipped" ELSE "accepted"
\* ParseFromString raises, which leaves the iterator.
PythonConsume(guards, message) ==
  IF ~Verified(message) THEN "rejected"
  ELSE IF ~message.decodes THEN "raised"
  ELSE IF Skips(guards, message) THEN "skipped" ELSE "accepted"

Outcome(language, guards, message) ==
  CASE language = "rust" -> RustProcess(guards, message)
    [] language = "go" -> GoHandler(guards, message)
    [] language = "python" -> PythonConsume(guards, message)
    [] language = "cpp" -> CppHandler(guards, message)

\* publish_assessment: an event without an id is no lineage.
PublishesAssessment(message) == message.named

Consume(message) ==
  /\ kind = "consumer" /\ ~parser.ended
  /\ message.source = "self" => parser.assessments > 0
  /\ LET outcome == Outcome(parser.language, parser.guards, message)
         own == IF message.source = "self" THEN 1 ELSE 0
         new == IF outcome = "accepted" /\ PublishesAssessment(message) THEN 1 ELSE 0
     IN  Parsed(message,
           [parser EXCEPT !.ended = outcome = "raised",
                          !.assessments = @ - own + new,
                          !.stats = [c \in DOMAIN @ |-> IF c = outcome THEN @[c] + 1 ELSE @[c]]],
           IF outcome = "accepted" THEN <<[at |-> Now]>> ELSE <<>>)
-----------------------------------------------------------------------------
(* What the SDKs must show *)

Ascending(entries) == \A i \in 2 .. Len(entries) : entries[i - 1].key < entries[i].key
Added(draft, what) ==
  {draft.calls[k].to : k \in {j \in DOMAIN draft.calls : draft.calls[j].set = what}}

\* A built event is canonical: keys ascending, none lost, limits kept; and the C++
\* check finds in it what the Rust one would.
BuiltCanonical(v) ==
  LET e == v.event IN
  /\ Ascending(e.attribute) /\ ToSet(e.attribute) = Added(frames[v.at], "attribute")
  /\ Ascending(e.metadata) /\ ToSet(e.metadata) = Added(frames[v.at], "metadata")
  /\ Len(e.tag) <= MaxTags /\ Len(e.attribute) <= MaxEntries /\ Len(e.metadata) <= MaxEntries
  /\ e.source # "" /\ (Unsaid(e.id) => parser.language = "rust" /\ e.id # <<>>)
  /\ e.confidence \notin {"below", "above"}
  /\ e.strict => e.entity[1] \in {"mim", "x"}
  /\ v.faults = Check(MappingOf(e))

\* The languages take the same drafts, but that Rust alone wants an RFC 3339 time and
\* a place on the planet and takes an empty id, and that Go and C++ take a confidence
\* that is not a number.
BuildersAgree(draft) ==
  LET b == Builder(draft)
      nan == b.confidence = "nan"
      rustOnly == \/ b.id = <<"">> \/ b.location = "off-planet"
                  \/ (b.timestamp # <<>> /\ ~Rfc3339(b.timestamp[1]))
  IN  /\ CppRefuses(b) = GoRefuses(b)
      /\ ~nan => PythonRefuses(b) = GoRefuses(b)
      /\ ~rustOnly => RustRefuses(b) = PythonRefuses(b)

\* A handler gets the messages that verify, decode and pass the guards, each counted
\* once; with a guard for them it never gets the platform's own assessments back.
ConsumedRight ==
  LET passes(m) == m.seal = "good" /\ m.decodes
      fits(m) == m.source \notin parser.guards.sources /\ (parser.guards.derived => ~m.derived)
      handed == {n \in DOMAIN frames : passes(frames[n]) /\ fits(frames[n])}
      s == parser.stats
  IN  /\ events = SetToSortSeq({[at |-> n] : n \in handed}, LAMBDA x, y : x.at < y.at)
      /\ s["accepted"] = Cardinality(handed)
      /\ s["rejected"] = Cardinality({n \in DOMAIN frames : ~passes(frames[n])})
                         - (IF parser.ended THEN 1 ELSE 0)
      /\ s["accepted"] + s["rejected"] + s["skipped"] + (IF parser.ended THEN 1 ELSE 0)
           = Len(frames)
      /\ "self" \in parser.guards.sources \/ parser.guards.derived =>
           \A v \in ToSet(events) : frames[v.at].source # "self"
-----------------------------------------------------------------------------
SdkInit ==
  /\ kind \in SdkKinds \cap Kinds
  /\ \E language \in Languages, guards \in GuardConfigs :
       parser = IF kind = "sdk" THEN [language |-> language]
                ELSE [language |-> language, guards |-> guards, ended |-> FALSE, assessments |-> 0,
                      stats |-> [c \in {"accepted", "rejected", "skipped"} |-> 0]]

SdkNext ==
  /\ MoreFrames
  /\ \/ kind = "sdk" /\ \E draft \in Drafts : SdkBuild(draft)
     \/ kind = "consumer" /\ \E message \in Deliveries : Consume(message)
=============================================================================
