--------------------------- MODULE MCOnboarding ---------------------------
(***************************************************************************)
(* Sites with up to two facets off a healthy one, and packets of two       *)
(* deployments, whole and damaged.                                         *)
(***************************************************************************)
EXTENDS Onboarding, TLC

Base ==
  [config |-> "good", mapping |-> "built in", feed |-> <<"udp-multicast", "fit">>,
   seed |-> "raw", private |-> TRUE, pub |-> "same", spool |-> "ready", sources |-> "same",
   tls |-> TlsVars, require_tls |-> FALSE, url |-> <<"tls">>, ca |-> "ca",
   identity |-> "named"]

\* Every site that differs from one of S in at most one facet.
OffByOne(S) ==
  UNION {
    {[s EXCEPT !.config = v] : v \in {"unreadable", "unknown field", "bad marking",
                                      "environment", "incomplete environment"}}
    \cup {[s EXCEPT !.mapping = v] : v \in {"good", "absent", "no columns", "ungoverned"}}
    \cup {[s EXCEPT !.feed = v] : v \in Feeds}
    \cup {[s EXCEPT !.seed = v] : v \in {"hex", "missing", "malformed"}}
    \cup {[s EXCEPT !.private = FALSE]}
    \cup {[s EXCEPT !.pub = v] : v \in {"absent", "other"}}
    \cup {[s EXCEPT !.spool = v] : v \in {"none", "queued", "read only", "unopenable"}}
    \cup {[s EXCEPT !.sources = v] : v \in {"none", "other", "missing"}}
    \cup {[s EXCEPT !.tls = v] : v \in {{}, {"CA"}, {"CERT", "KEY"}}}
    \cup {[s EXCEPT !.require_tls = TRUE]}
    \cup {[s EXCEPT !.url = v] : v \in Urls}
    \cup {[s EXCEPT !.ca = v] : v \in {"leaf", "unreadable"}}
    \cup {[s EXCEPT !.identity = v] : v \in {"other name", "no name", "expired",
                                             "not yet valid", "mispaired", "unreadable"}}
    : s \in S}

MCDoctorSites == OffByOne(OffByOne({Base}))
MCUpSites ==
  {Base, [Base EXCEPT !.tls = {}], [Base EXCEPT !.tls = {}, !.url = <<"nats">>],
   [Base EXCEPT !.spool = "unopenable"]}

----------------------------------------------------------------------------
Manifest(id, role) ==
  [id |-> id, major |-> 1, role |-> role, protocol |-> "asterix", transport |-> "loads",
   keys |-> {"seed"} \cup CertFiles,
   egress |-> TRUE, formats |-> {"cot", "json"}]

Entry(name, of) == [name |-> name, of |-> of, mode |-> 644]

\* The tar as `ajar onboard` makes it, with the files in F, all of them pinned.
Packet(unpinned, F) ==
  LET m == unpinned @@ [pins |-> [f \in F \cup {"egress.pub"} |-> unpinned.id]] IN
  [entries |->
     <<Entry("manifest.json", m), Entry("manifest.sig", [by |-> m.id, over |-> m]),
       Entry("egress.pub", m.id)>>
     \o SelectSeq(<<Entry("ca", m.id), Entry("cert", m.id), Entry("key", m.id),
                    Entry("seed", m.id)>>, LAMBDA e : e.name \in F)]

Minted == Packet(Manifest("A", "producer"), {"seed"} \cup CertFiles)
VendorHeld == Packet([Manifest("B", "producer") EXCEPT !.protocol = "generic"], CertFiles)
Consumer == Packet(Manifest("C", "consumer"), CertFiles)
KeyLost == Packet(Manifest("B", "none"), {"ca", "cert"})
ConsumerKeyLost == Packet(Manifest("C", "consumer"), {"ca", "cert"})

\* What transit or an operator's tooling can do to a packet.
Altered == [Minted EXCEPT !.entries[1].of.transport = "misspelt"]
Corrupt == [Minted EXCEPT !.entries[4].of = "noise"]
Nested == [Minted EXCEPT !.entries[4].name = "certs/ca"]
Unsigned == [entries |-> SelectSeq(Minted.entries, LAMBDA e : e.name # "manifest.sig")]
Newer == Packet([Manifest("A", "producer") EXCEPT !.major = 2], CertFiles)
OtherRole == Packet([Manifest("A", "auditor") EXCEPT !.formats = {}], CertFiles)
Misspelt ==
  Packet([Manifest("A", "producer") EXCEPT !.transport = "misspelt"], {"seed"} \cup CertFiles)
NoProtocol == Packet([Manifest("A", "producer") EXCEPT !.protocol = "none"], {"seed"})
NoFormat == Packet([Manifest("C", "consumer") EXCEPT !.formats = {}], CertFiles)
NoKey == Packet([Manifest("C", "consumer") EXCEPT !.egress = FALSE], CertFiles)

Plain == [signing_key |-> FALSE, no_exec |-> FALSE, check |-> FALSE, to |-> "tap"]
Run(packets, options) == [packet : packets, options : options]

MCInvocations ==
  Run({Minted, VendorHeld, KeyLost},
      {Plain, [Plain EXCEPT !.signing_key = TRUE], [Plain EXCEPT !.no_exec = TRUE]})
  \cup Run({Consumer, ConsumerKeyLost, NoFormat},
           {Plain, [Plain EXCEPT !.check = TRUE], [Plain EXCEPT !.to = "tak"],
            [Plain EXCEPT !.to = "http"]})
  \cup Run({Altered, Corrupt, Nested, Unsigned, Newer, OtherRole, Misspelt, NoProtocol, NoKey},
           {Plain})
=============================================================================
