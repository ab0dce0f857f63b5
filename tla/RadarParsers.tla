---------------------------- MODULE RadarParsers ----------------------------
(***************************************************************************)
(* The radar parsers: asterix, whose datagrams hold several records and     *)
(* whose service messages (CAT034) report a radar's health piece by piece,  *)
(* and the TTM targets of ais-nmea, placed from the latest own-ship fix.    *)
(***************************************************************************)
EXTENDS Parser

CONSTANTS
  Datagrams,    \* the ASTERIX datagrams offered, as sequences of records
  Radars,       \* their SAC/SIC
  Sentences,    \* the GGA/RMC and TTM sentences offered
  FixMaxAge,    \* FIX_MAX_AGE, in ticks
  HasSite       \* a fallback site is configured, or not

RadarKinds == {"asterix", "ttm"}

\* RadarStatus: "nogo" stands for the COM subfield's flags, "psr" for those of a
\* sensor; each is reported by some records and not by others.
Flags == {"nogo", "psr"}
NoStatus == [f \in Flags |-> 0]
\* The k-th record of frame n.
RecordNo(n, k) == n * 10 + k

MergeAll(status, record, no) ==
  [f \in Flags |-> IF f \in record.states THEN no ELSE 0]
\* RadarStatus::merge: "Overwrites each field `other` reports."
MergeStatus(status, record, no) ==
  [f \in Flags |-> IF f \in record.states THEN no ELSE status[f]]

\* RadarStatus::degraded, of the records that stated each flag.
Degraded(status, sent) ==
  \E f \in Flags : /\ status[f] # 0
                   /\ f \in sent[status[f] \div 10].records[status[f] % 10].bad

ServiceEvent(record, status, no) ==
  [what |-> "service", entity |-> record.radar, at |-> no, known |-> status,
   flaw |-> record.flaw]
TargetEvent(record, no) ==
  [what |-> "target", entity |-> record.radar, at |-> no, known |-> NoStatus,
   flaw |-> record.flaw]

\* parse_datagram over the records up to the first that cannot be walked.  A
\* service record is merged into its radar's status and counted as it is read; a
\* target is kept if it is a positioned report; other categories are skipped.
ReadRecord(acc, record, no, sent) ==
  CASE record.cat = "034" ->
         LET merged == MergeStatus(acc.status[record.radar], record, no)
             north == record.type = "north"
         IN  [acc EXCEPT !.status[record.radar] = merged,
                         !.counts[record.type] = @ + 1,
                         !.counts["degraded"] =
                            @ + (IF north /\ Degraded(merged, sent) THEN 1 ELSE 0),
                         !.reports = IF record.type = "sector" THEN @
                                     ELSE Append(@, ServiceEvent(record, merged, no))]
    [] record.cat = "048" ->
         [acc EXCEPT !.targets =
            IF record.positioned THEN Append(@, <<record.test, TargetEvent(record, no)>>) ELSE @]
    [] record.cat = "other" -> [acc EXCEPT !.counts["ignored"] = @ + 1]

\* block_header and walk_record: how many records are walked before one is cut
\* short, has an item of unknown length or a block header that does not fit.
Walked(records) ==
  Latest({k \in DOMAIN records : \A j \in 1 .. k : records[j].cat # "cut"})

ReadDatagram(frame) ==
  LET sent == Append(frames, frame)
      stop == Walked(frame.records)
      step(acc, k) == ReadRecord(acc, frame.records[k], RecordNo(Now, k), sent)
  IN  [FoldLeft(step, [status |-> parser.status, counts |-> parser.counts,
                       reports |-> <<>>, targets |-> <<>>, err |-> FALSE],
                [k \in 1 .. stop |-> k])
         EXCEPT !.err = stop < Len(frame.records)]

\* AsterixParser::parse: reports, then targets, test targets counted and left out;
\* the first event that does not build rejects the whole datagram.
Datagram(frame) ==
  /\ kind = "asterix"
  /\ LET read == ReadDatagram(frame)
         real == SelectSeq(read.targets, LAMBDA t : ~t[1])
         built == read.reports \o [k \in DOMAIN real |-> real[k][2]]
         fails == read.err \/ \E k \in DOMAIN built : ~Builds(built[k])
         \* Targets seen before the first failing one; none if a report failed.
         reached == IF read.err \/ \E k \in DOMAIN read.reports : ~Builds(read.reports[k])
                    THEN 0
                    ELSE Cardinality({k \in DOMAIN read.targets :
                           \A j \in 1 .. k : read.targets[j][1] \/ Builds(read.targets[j][2])})
         tests == Cardinality({k \in 1 .. reached : read.targets[k][1]})
     IN  Parsed(frame, [status |-> read.status,
                        counts |-> [read.counts EXCEPT !["tests"] = @ + tests]],
                IF fails THEN <<>> ELSE built)
-----------------------------------------------------------------------------
(* ttm.rs *)

Site == -1
\* TtmState::observer: "A fresh own-ship fix, else the configured site."
Observer ==
  IF parser.fix # 0 /\ clock - frames[parser.fix].seen <= FixMaxAge THEN parser.fix
  ELSE IF HasSite THEN Site ELSE 0

\* handle of a GGA or RMC: a valid one is the fix from now on.
OwnShip(frame) ==
  /\ kind = "ttm" /\ frame.what = "fix"
  /\ Parsed(frame, IF frame.valid THEN [parser EXCEPT !.fix = Now] ELSE parser, <<>>)

\* decode_ttm and to_event: a target that is tracked becomes an event, with a
\* position if its bearing is true and there is an observer.
Ttm(frame) ==
  /\ kind = "ttm" /\ frame.what = "ttm"
  /\ IF ~frame.tracked
     THEN Parsed(frame, [parser EXCEPT !.non_tracking = @ + 1], <<>>)
     ELSE LET from == IF frame.true_bearing THEN Observer ELSE 0
          IN  Parsed(frame, parser,
                Published([what |-> "radar-target", at |-> Now, known |-> from,
                           flaw |-> IF from = 0 THEN "none" ELSE frame.flaw]))
-----------------------------------------------------------------------------
\* The latest record read of v's radar that stated flag f, v's own included.
LastStated(v, f) ==
  LET read(n, k) == k <= Walked(frames[n].records)
  IN  Latest({RecordNo(n, k) : <<n, k>> \in
        {p \in (1 .. Len(frames)) \X (1 .. 9) :
           /\ read(p[1], p[2]) /\ RecordNo(p[1], p[2]) <= v.at
           /\ frames[p[1]].records[p[2]].cat = "034"
           /\ frames[p[1]].records[p[2]].radar = v.entity
           /\ f \in frames[p[1]].records[p[2]].states}})
StatusIsLatest(v) ==
  v.what = "service" => \A f \in Flags : v.known[f] = LastStated(v, f)

\* The observer a target at frame n is placed from.
ObserverAt(n) ==
  LET fix == Latest({i \in 1 .. n : frames[i].what = "fix" /\ frames[i].valid})
  IN  IF fix # 0 /\ frames[n].seen - frames[fix].seen <= FixMaxAge THEN fix
      ELSE IF HasSite THEN Site ELSE 0
PlacedFromLatest(v) ==
  v.known = IF frames[v.at].true_bearing THEN ObserverAt(v.at) ELSE 0
-----------------------------------------------------------------------------
Counters == {"north", "sector", "strobe", "degraded", "tests", "ignored"}
RadarInit ==
  /\ kind \in RadarKinds \cap Kinds
  /\ parser = CASE kind = "asterix" -> [status |-> [r \in Radars |-> NoStatus],
                                        counts |-> [c \in Counters |-> 0]]
                [] kind = "ttm" -> [fix |-> 0, non_tracking |-> 0]

RadarNext ==
  \/ kind = "asterix" /\ \E records \in Datagrams : Datagram([records |-> records])
  \/ kind = "ttm" /\ \E sentence \in Sentences :
       LET stamped == [sentence EXCEPT !.seen = clock]
       IN  OwnShip(stamped) \/ Ttm(stamped)
  \/ kind = "ttm" /\ Tick
=============================================================================
