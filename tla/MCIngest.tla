------------------------------ MODULE MCIngest ------------------------------
(* Small feeds for the parsers: three entities where two fit, pending buffers *)
(* of two, fragments of two vessels under one key, partial radar statuses and *)
(* two sensors over at most two connections.                                  *)
EXTENDS Ingest

CONSTANTS e1, e2, e3, k1, r1, r2, n1, n2

MCKinds == CarryKinds \cup RadarKinds \cup {"sapient"} \cup RecordKinds \cup SingleKinds
           \cup SdkKinds
MCMaxFrames ==
  [k \in MCKinds |-> IF k \in {"adsb", "mavlink"} THEN 5
                     ELSE IF k \in RecordKinds \cup SingleKinds THEN 2
                     ELSE IF k = "sdk" THEN 1 ELSE 4]

MCMessage(e) ==
  [entity |-> e, position |-> FALSE, fills |-> {}, resets |-> {}, flaw |-> "none",
   num |-> 0, key |-> k1, names |-> FALSE, decodes |-> TRUE, seen |-> 0]
MCPosition(e) == [MCMessage(e) EXCEPT !.position = TRUE]
MCStatic(e) == [MCMessage(e) EXCEPT !.names = TRUE, !.fills = {"first"}]
MCFragment(e, n) == [MCMessage(e) EXCEPT !.names = TRUE, !.num = n, !.fills = Fields]

MCAis ==
  {MCPosition(e1), MCPosition(e2), MCStatic(e1), MCStatic(e3),
   MCFragment(e1, 1), MCFragment(e1, 2), MCFragment(e2, 1), MCFragment(e2, 2),
   [MCFragment(e1, 1) EXCEPT !.position = TRUE],
   [MCFragment(e1, 2) EXCEPT !.decodes = FALSE, !.fills = {}]}
MCAdsb ==
  {MCPosition(e1), MCPosition(e2), MCMessage(e3), MCStatic(e1),
   [MCPosition(e1) EXCEPT !.fills = {"last"}],
   [MCMessage(e1) EXCEPT !.fills = {"last"}, !.flaw = "off-planet"]}
MCMavlink ==
  {MCPosition(e1), MCPosition(e2), MCStatic(e1), MCMessage(e3),
   [MCMessage(e1) EXCEPT !.resets = {"first"}, !.fills = {"last"}],
   [MCPosition(e1) EXCEPT !.flaw = "off-planet"],
   [MCStatic(e1) EXCEPT !.decodes = FALSE]}
MCCarryFrames == [ais |-> MCAis, adsb |-> MCAdsb, mavlink |-> MCMavlink]

MCService(r, type, states, bad) ==
  [cat |-> "034", radar |-> r, type |-> type, states |-> states, bad |-> bad, flaw |-> "none"]
MCTarget(test, flaw) ==
  [cat |-> "048", radar |-> r1, positioned |-> TRUE, test |-> test, flaw |-> flaw]
MCDatagrams ==
  LET north == MCService(r1, "north", {"nogo"}, {"nogo"})
      well == MCService(r1, "north", {"nogo"}, {})
      sector == MCService(r1, "sector", {"psr"}, {"psr"})
      strobe == MCService(r1, "strobe", {}, {})
      other == MCService(r2, "north", Flags, {})
  IN  {<<north>>, <<sector, well>>, <<other, strobe>>,
       <<sector, [cat |-> "cut"], strobe>>,
       <<north, MCTarget(FALSE, "none"), MCTarget(TRUE, "none"), [cat |-> "other"]>>,
       <<well, MCTarget(TRUE, "none"), MCTarget(FALSE, "off-planet")>>,
       <<[MCTarget(FALSE, "none") EXCEPT !.positioned = FALSE], strobe>>}

MCSentences ==
  {[what |-> "fix", valid |-> v, seen |-> 0] : v \in BOOLEAN}
  \cup {[what |-> "ttm", tracked |-> t, true_bearing |-> tb, flaw |-> "none", seen |-> 0] :
          t \in BOOLEAN, tb \in BOOLEAN}
  \cup {[what |-> "ttm", tracked |-> TRUE, true_bearing |-> TRUE, flaw |-> "off-planet",
         seen |-> 0]}

MCReport(what) ==
  [what |-> what, flaw |-> "none", conn |-> 0, node |-> 0, no |-> 0, located |-> TRUE]
MCSite(nodes, cap, messages, writes) ==
  [nodes |-> nodes, units |-> {"mps", "kph"}, messages |-> messages, flaws |-> {"none"},
   max_nodes |-> cap, conns |-> 2, writes |-> writes]
MCSites ==
  {\* One sensor that reconnects, perhaps with other units.
   MCSite({n1}, 1, {MCReport("detection")}, 3),
   \* Two sensors where one fits, and where both do.
   [MCSite({n1, n2}, 1, {MCReport("detection"), MCReport("status")}, 4)
      EXCEPT !.units = {"kph"}],
   [MCSite({n1, n2}, 2, {MCReport("detection")}, 3) EXCEPT !.units = {"kph"}],
   \* The other messages.
   [MCSite({n1}, 1, {MCReport("alert"), MCReport("task"), MCReport("oversized"),
                     [MCReport("status") EXCEPT !.located = FALSE]}, 4)
      EXCEPT !.conns = 1, !.units = {"mps"}, !.flaws = {"none", "duplicate key"}]}

MCDwell(gives, scaled, reports) ==
  [type |-> "dwell", fits |-> TRUE, full |-> TRUE, gives |-> gives, scaled |-> scaled,
   reports |-> reports]
MCGmti ==
  LET hires == MCDwell("hires", FALSE, <<"none", "none">>)
      delta == MCDwell("delta", TRUE, <<"none">>)
      other == [hires EXCEPT !.type = "job"]
      packet(parts) == [valid |-> TRUE, parts |-> parts]
  IN  {packet(<<>>), packet(<<hires, other, delta>>),
       packet(<<hires, [other EXCEPT !.fits = FALSE]>>),
       packet(<<delta, [hires EXCEPT !.full = FALSE]>>),
       packet(<<MCDwell("delta", FALSE, <<"none">>), hires>>),
       packet(<<hires, MCDwell("hires", TRUE, <<"none", "off-planet">>)>>),
       [packet(<<hires>>) EXCEPT !.valid = FALSE]}

MCVsm ==
  LET states == [type |-> "inertial", fits |-> TRUE, checksum |-> TRUE, full |-> TRUE,
                 flaw |-> "none"]
      other == [states EXCEPT !.type = "other"]
  IN  {[parts |-> parts] : parts \in
        {<<>>, <<states, other, states>>, <<states, [other EXCEPT !.fits = FALSE], states>>,
         <<states, [other EXCEPT !.checksum = FALSE]>>,
         <<other, [states EXCEPT !.full = FALSE]>>,
         <<states, [states EXCEPT !.flaw = "off-planet"], other>>}}

MCElement(el) == [el |-> el]
MCValue(el, cs) == [el |-> el, cs |-> cs, numbers |-> TRUE, flaw |-> "none"]
MCLabel(level, nato) == [el |-> "label", blank |-> FALSE, level |-> level, nato |-> nato]
MCPolicy(value) == [el |-> "policy", value |-> value]
MCPoint == <<MCElement("status"), MCValue("pos", "WGS_84"), MCElement("/tp"), MCElement("/segment")>>
MCTrack(points) == <<MCElement("track"), MCElement("object")>> \o points \o <<MCElement("/track")>>
MCTracks ==
  LET ecef == MCValue("pos", "ECEF")
      wgs == MCValue("pos", "WGS_84")
      bare == <<wgs, MCElement("/tp"), MCElement("/segment")>>
      mixed == <<ecef, MCValue("vel", "ECEF"), wgs, MCValue("vel", "WGS_84"), wgs,
                 MCElement("/tp"), MCElement("status"), [ecef EXCEPT !.numbers = FALSE],
                 ecef, MCValue("vel", "ECEF"), MCElement("/tp"), MCElement("/segment")>>
      moving == <<wgs, MCValue("vel", "WGS_84"), ecef, MCValue("vel", "ECEF"),
                  MCElement("/tp"), MCElement("/segment")>>
      lost == <<[wgs EXCEPT !.flaw = "off-planet"], MCElement("/tp"), MCElement("/segment")>>
  IN  {[parts |-> parts] : parts \in
        {MCTrack(MCPoint \o bare),
         <<MCElement("other"), MCLabel(3, TRUE)>> \o MCTrack(MCPoint) \o MCTrack(bare),
         <<MCLabel(UnknownLevel, FALSE), MCPolicy("UK")>> \o MCTrack(mixed),
         <<MCPolicy("bad token"), MCLabel(1, TRUE)>> \o MCTrack(moving)
            \o <<MCLabel(2, FALSE), MCPolicy("NATO")>> \o MCTrack(MCPoint),
         <<[MCLabel(0, FALSE) EXCEPT !.blank = TRUE]>> \o MCTrack(MCPoint),
         <<MCLabel(4, TRUE)>> \o MCTrack(MCPoint) \o MCTrack(lost),
         MCTrack(MCPoint) \o <<MCElement("malformed")>>,
         <<MCElement("track")>> \o bare}}
MCRecordFrames == [gmti |-> MCGmti, stanag4586 |-> MCVsm, stanag4676 |-> MCTracks]

MCMarking(class, policy, parties, caveats) ==
  [classification |-> class, policy |-> policy, releasable_to |-> parties, caveats |-> caveats]
MCMarkings ==
  {MCMarking(<<l>>, <<"NATO">>, <<"GBR", "GBR">>, <<>>) : l \in {0, 2, 4}}
  \cup {MCMarking(<<>>, <<>>, <<"GBR">>, <<"X">>), MCMarking(<<>>, <<>>, <<>>, <<>>),
        MCMarking(<<UnknownLevel>>, <<>>, <<>>, <<>>), MCMarking(<<>>, <<"bad token">>, <<>>, <<>>),
        MCMarking(<<3>>, <<"UK">>, <<"GBR", "DEU">>, <<"X">>)}

MCKlv ==
  LET item(tag) == [tag |-> tag, good |-> TRUE, fits |-> TRUE]
      bad(tag) == [item(tag) EXCEPT !.good = FALSE]
      place == <<item("lat"), item("lon")>>
  IN  {[valid |-> TRUE, parts |-> parts] : parts \in
        {place, <<item("designation"), item("other")>> \o place \o <<item("tail"), item("lat")>>,
         place \o <<bad("lon")>>, <<bad("lat"), item("designation"), bad("tail")>> \o place,
         place \o <<[item("tail") EXCEPT !.fits = FALSE]>>}}
      \cup {[valid |-> FALSE, parts |-> place]}

MCCot ==
  LET part(el, says, wrong) == [el |-> el, says |-> says, bad |-> wrong, flaw |-> "none"]
      event == part("event", {"uid", "type", "time"}, {})
      point == part("point", {"lat", "lon"}, {})
      detail == <<part("contact", {"callsign"}, {}), part("track", {"course"}, {})>>
      sure == part("confidence", {"confidence"}, {})
      empty == part("confidence", {}, {})
      text == part("text", {}, {})
      blank == part("text", {}, {"confidence"})
  IN  {[parts |-> parts] : parts \in
        {<<event, point>> \o detail, <<event, blank, point, empty, text, sure, blank>>,
         <<event, point, sure, text, point>>, <<event, empty, blank, text>>,
         <<event, empty, point, text>> \o detail \o <<part("track", {"course"}, {"course"})>>,
         <<event, part("point", {"lat", "lon"}, {"lon"})>>, <<point>>,
         <<part("event", {"uid", "time"}, {}), point>>,
         <<event, [point EXCEPT !.flaw = "off-planet"]>>,
         <<event, part("point", {"lat"}, {}), [sure EXCEPT !.flaw = "range"]>>,
         <<event, point, part("malformed", {}, {})>>}}

MCAircraft == [ns |-> "mim", name |-> "aircraft"]
MCConcept == [ns |-> "mim", name |-> "concept"]
MCVendor == [ns |-> "x", name |-> "radar-hit"]
MCMimTypes == (MCAircraft :> {"hostility", "speed", "callsign"}) @@ (MCConcept :> {})
MCVocabulary == [hostility |-> {"Friend", "Hostile"}]
MCMapping(entity, attributes, hostility) ==
  [entity |-> entity, attributes |-> attributes, hostility |-> hostility, timestamp |-> TRUE]
MCGenericConfigs ==
  LET plain == [f1 |-> "speed", f2 |-> "callsign"]
  IN  {MCMapping(MCAircraft, plain, {}), MCMapping(MCAircraft, plain, {"Friend"}),
       MCMapping(MCAircraft, plain, {"friend"}), MCMapping(MCConcept, plain, {}),
       MCMapping(MCAircraft, [f1 |-> "hostility", f2 |-> "speed"], {"Friend"}),
       MCMapping(MCAircraft, [f1 |-> "speed", f2 |-> "frequency"], {}),
       [MCMapping(MCConcept, <<>>, {"Friend"}) EXCEPT !.timestamp = FALSE],
       MCMapping(MCVendor, [f1 |-> "anything"], {}),
       MCMapping([ns |-> "sapient", name |-> "detection"], plain, {}),
       MCMapping([ns |-> "mim", name |-> "Aircraft"], plain, {})}
MCGeneric ==
  LET rec(fields) == [decodes |-> TRUE, fields |-> fields, bad |-> {}, flaw |-> "none"]
      full == rec({"time", "lat", "lon", "alt", "confidence", "f1", "f2"})
  IN  {full, rec({"time", "f2"}), rec({"f1"}), [full EXCEPT !.decodes = FALSE],
       [full EXCEPT !.bad = {"lat"}], [rec({"time", "lat"}) EXCEPT !.bad = {"lat"}],
       [full EXCEPT !.bad = {"time", "confidence"}], [full EXCEPT !.flaw = "off-planet"]}
MCSingleFrames == [klv |-> MCKlv, cot |-> MCCot, generic |-> MCGeneric]
MCTime == [empty |-> FALSE, shaped |-> TRUE, month |-> 12, day |-> 31, hour |-> 23, minute |-> 59,
           second |-> 60, point |-> FALSE, digits |-> 0, zone |-> <<>>]
MCTimes ==
  {MCTime, [MCTime EXCEPT !.empty = TRUE, !.shaped = FALSE], [MCTime EXCEPT !.shaped = FALSE],
   [MCTime EXCEPT !.month = 13], [MCTime EXCEPT !.hour = 24], [MCTime EXCEPT !.point = TRUE],
   [MCTime EXCEPT !.point = TRUE, !.digits = 3, !.zone = <<23, 59>>],
   [MCTime EXCEPT !.zone = <<24, 0>>]}
MCCall(set, to) == [set |-> set, to |-> to]
\* A complete draft, and what may be called on it or said instead.
MCEntities ==
  {<<"">>, <<"mim">>, <<"mim", "">>, <<"mim", "aircraft">>, <<"mim", "aircraft", "a">>,
   <<"x", "acme">>, <<"x", "acme", "hit">>, <<"x", "", "hit">>, <<"x", "acme", "a", "b">>,
   <<"track">>, <<"y", "acme", "hit">>, <<"mim", "concept">>}
MCEntries ==
  {MCCall(set, [key |-> k, value |-> v]) :
     set \in {"attribute", "metadata"}, k \in {1, 2, 3}, v \in {"Friend", "friend"}}
MCTriple == {c \in MCEntries : c.to.value = "Friend"}
MCCalls ==
  {MCCall("id", <<"">>), MCCall("location", "off-planet"), MCCall("location", "on the planet"),
   MCCall("strict", FALSE), MCCall("tag", "rel:DEU")}
  \cup {MCCall("timestamp", <<t>>) : t \in MCTimes}
  \cup {MCCall("confidence", c) : c \in {"below", "above", "nan", "in range"}}
  \cup MCEntries
MCDraft(entity, calls) == [source |-> "radar-1", entity |-> entity, calls |-> calls]
MCDrafts ==
  LET set == <<MCCall("id", <<"id-1">>), MCCall("timestamp", <<MCTime>>)>>
      plane == <<"mim", "aircraft">>
  IN  {MCDraft(plane, <<>>), MCDraft(plane, <<set[1]>>), MCDraft(plane, <<set[2]>>),
       [MCDraft(plane, set) EXCEPT !.source = ""],
       MCDraft(plane, set \o <<MCCall("tag", "rel:DEU"), MCCall("tag", "rel:DEU"),
                               MCCall("tag", "rel:DEU")>>)}
      \cup {MCDraft(plane, set \o [k \in 1 .. 4 |-> MCCall(what, [key |-> 5 - k, value |-> "Friend"])]) :
              what \in {"attribute", "metadata"}}
      \cup {MCDraft(e, set \o <<c>>) : e \in MCEntities, c \in MCCalls}
      \cup {MCDraft(plane, set \o <<c, d>>) : c \in MCCalls, d \in MCCalls}
      \cup {MCDraft(plane, set \o <<c, d, e>>) : c \in MCTriple, d \in MCTriple, e \in MCTriple}
MCKeyNames == <<"callsign", "frequency", "hostility", "speed">>

MCDelivery(source) ==
  [seal |-> "good", decodes |-> TRUE, source |-> source, derived |-> source # "sensor",
   named |-> TRUE]
MCDeliveries ==
  {MCDelivery("sensor"), MCDelivery("self"), MCDelivery("other"),
   [MCDelivery("sensor") EXCEPT !.seal = "short"], [MCDelivery("self") EXCEPT !.seal = "altered"],
   [MCDelivery("other") EXCEPT !.decodes = FALSE], [MCDelivery("sensor") EXCEPT !.named = FALSE]}
MCGuards == [sources : {{}, {"self"}}, derived : BOOLEAN]
=============================================================================
