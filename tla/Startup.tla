------------------------------ MODULE Startup ------------------------------
(***************************************************************************)
(* How a connector starts: the config file, the generic connector's        *)
(* mapping, the transport, the signing key, the connection to NATS under   *)
(* the AJAR_TLS_* policy, and the spool, in the order main and run take    *)
(* them.  What the box holds is `site`, one facet per thing the start      *)
(* depends on.  The doctor (module Doctor) looks at the same site.         *)
(***************************************************************************)
EXTENDS Integers, Sequences

TlsVars == {"CA", "CERT", "KEY"}

\* Transports whose open only stores its settings: the source dials, spawns or
\* opens its device when it is first read.
OpensLazily == {"tcp-client", "exec", "stdin", "serial", "rest-poll"}
\* Transports whose open binds, joins, reads or parses something.
OpensAtOnce ==
  {"udp-multicast", "udp", "tcp-server", "http-server", "dir", "file", "mqtt", "ws-client"}
\* What a DDS domain shows of the configured topic, once it was joined.
DdsStates == {"fit", "idle", "mistyped", "unpaired", "unheard"}

\* A transport and the state of what it reads: "unfit" is an address that does
\* not parse or bind, a group that cannot be joined, a device or a capture that
\* cannot be read, a domain that cannot be joined.  A capture may also hold no
\* datagram for the port, and a replay speed may be zero or less.
Feeds ==
  ((OpensLazily \cup OpensAtOnce) \X {"fit", "unfit"})
    \cup ({"pcap-replay"} \X {"fit", "unfit", "empty", "no speed"})
    \cup ({"dds"} \X (DdsStates \cup {"unfit"}))

\* The entries of nats_url, by scheme and by whether the port is a number.
Urls ==
  {<<"nats">>, <<"tls">>, <<"nats", "nats">>, <<"nats", "tls">>, <<"nats bad port">>,
   <<"tls bad port">>}

SiteType ==
  [config : {"good", "unreadable", "unknown field", "bad marking",
             "environment", "incomplete environment"},
   mapping : {"built in", "good", "absent", "no columns", "ungoverned"},
   feed : Feeds,
   seed : {"raw", "hex", "missing", "malformed"},
   private : BOOLEAN,
   pub : {"absent", "same", "other"},
   spool : {"none", "ready", "queued", "read only", "unopenable"},
   sources : {"none", "same", "other", "missing"},
   tls : SUBSET TlsVars,
   require_tls : BOOLEAN,
   url : Urls,
   ca : {"ca", "leaf", "unreadable"},
   identity : {"named", "other name", "no name", "expired", "not yet valid",
               "mispaired", "unreadable"}]

----------------------------------------------------------------------------
(* The checks of a start.                                                  *)

\* Config::load: readable, no unknown field or variant, and a valid marking.
ConfigLoads(s) == s.config = "good"

\* Mapping::load and ontology::enforce, which only the generic connector calls.
MappingLoads(s) == s.mapping \in {"built in", "good"}

\* udp::open: the addresses are IPv4, the port binds, and the group is joined.
UdpOpens(state) == state = "fit"

\* dds::open joins the domain; whether a publisher pairs shows only later.
DdsOpens(state) == state # "unfit"

\* replay::open: a positive speed, a capture that parses, a datagram for the port.
ReplayOpens(state) == state \notin {"no speed", "unfit", "empty"}

\* open_source
Opens(s) ==
  LET name == s.feed[1]
      state == s.feed[2]
  IN  \/ name \in OpensLazily
      \/ name \in {"udp", "udp-multicast"} /\ UdpOpens(state)
      \/ name = "dds" /\ DdsOpens(state)
      \/ name = "pcap-replay" /\ ReplayOpens(state)
      \/ name \in OpensAtOnce \ {"udp", "udp-multicast"} /\ state = "fit"

\* key::load: 32 raw bytes or 64 hex characters.
KeyLoads(s) == s.seed \in {"raw", "hex"}

\* tls_required: AJAR_REQUIRE_TLS, or an entry that begins with tls://.
TlsRequired(s) ==
  s.require_tls \/ \E i \in DOMAIN s.url : s.url[i] \in {"tls", "tls bad port"}

\* nats::connect refuses a partial triple, and cleartext where TLS is required.
TlsAccepted(s) ==
  \/ s.tls = TlsVars
  \/ s.tls = {} /\ ~TlsRequired(s)

\* The failover list parses.  The connection itself is retried for ever in the
\* background, so neither an unreachable server nor a bad certificate stops a
\* start (async_nats, retry_on_initial_connect).
UrlParses(s) == \A i \in DOMAIN s.url : s.url[i] \in {"nats", "tls"}

\* Spool::open creates the directory and opens the newest segment to append.
SpoolOpens(s) == s.spool # "unopenable"

\* The order in which main and run come to them.
StartSteps ==
  <<"config", "mapping", "transport", "signing key", "tls policy", "endpoint", "spool">>

Passes(s, step) ==
  CASE step = "config" -> ConfigLoads(s)
    [] step = "mapping" -> MappingLoads(s)
    [] step = "transport" -> Opens(s)
    [] step = "signing key" -> KeyLoads(s)
    [] step = "tls policy" -> TlsAccepted(s)
    [] step = "endpoint" -> UrlParses(s)
    [] step = "spool" -> SpoolOpens(s)

----------------------------------------------------------------------------
VARIABLES
  site,       \* what the box holds
  connector   \* the connector process: its state and the step it is at

ConnectorOff == [state |-> "off", at |-> 1]

\* The process is started: by the operator, or by ajar-up's exec.
Launch ==
  /\ connector.state = "off"
  /\ connector' = [state |-> "starting", at |-> 1]

\* One step of main and run: it goes on, or the error ends the process.
StartStep ==
  /\ connector.state = "starting"
  /\ LET step == StartSteps[connector.at] IN
     connector' =
       IF ~Passes(site, step) THEN [connector EXCEPT !.state = "refused"]
       ELSE IF connector.at = Len(StartSteps) THEN [connector EXCEPT !.state = "running"]
       ELSE [connector EXCEPT !.at = @ + 1]
  /\ UNCHANGED site
=============================================================================
