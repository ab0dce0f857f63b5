------------------------------- MODULE Doctor -------------------------------
(***************************************************************************)
(* ajar-doctor (rust/connectors/doctor): the preflight that walks the      *)
(* onboarding steps in order and reports a finding for each.  Every answer *)
(* of the network is the server's own step, and every wait for one has a   *)
(* deadline that ends it.  The server may be another one, or gone, when    *)
(* the doctor dials again for the TLS probe.                               *)
(***************************************************************************)
EXTENDS Startup

VARIABLE
  doctor  \* where the doctor is, its findings, and what it carries between checks

Checks ==
  {"config", "signing key", "spool", "marking", "transport", "registration", "failover",
   "endpoint", "tls policy", "certificate files", "tls handshake", "clock"}
\* What the INFO greeting says of TLS, or "none" where there was no greeting.
Greetings == {"none", "without tls", "tls available", "tls required"}
\* The server's certificate, as the handshake recorded it against the local clock.
ShownCerts == {"none", "in force", "later", "over"}
\* Where the doctor waits for the network.
Dialling == {"dial standby", "dial", "dial again"}
Waiting == Dialling \cup {"greeting", "greeting again", "handshake", "ping"}
DoctorPcs ==
  Checks \cup Waiting \cup {"off", "done"}

DoctorOff ==
  [pc |-> "off", findings |-> {}, answered |-> FALSE, greeting |-> "none",
   identity |-> FALSE, shown |-> "none"]

\* report::render: a report without a FAIL is healthy, and the exit code is 0.
Healthy == \A f \in doctor.findings : f[2] # "fail"
Done == doctor.pc = "done"

\* out.push(finding), and on to the next check.
Push(check, status, next) ==
  doctor' = [doctor EXCEPT !.pc = next, !.findings = @ \cup {<<check, status>>}]
Skipped(checks) == checks \X {"skip"}

----------------------------------------------------------------------------
(* The checks that need no network.                                        *)

\* A run begins, on a config file or on the environment of an SDK embedder.
Examine ==
  /\ doctor.pc = "off"
  /\ doctor' = [DoctorOff EXCEPT !.pc = "config"]

\* Without a config every later check is skipped; the transport has no line.
CheckConfig ==
  /\ doctor.pc = "config"
  /\ \/ /\ ConfigLoads(site) \/ site.config = "environment"
        /\ Push("config", "ok", "signing key")
     \/ /\ ~(ConfigLoads(site) \/ site.config = "environment")
        /\ doctor' = [doctor EXCEPT !.pc = "done",
                      !.findings = {<<"config", "fail">>}
                        \cup Skipped(Checks \ {"config", "transport", "failover"})]

\* A loose mode is reported before, and instead of, the comparison with the .pub.
CheckSigningKey ==
  /\ doctor.pc = "signing key"
  /\ LET status == IF ~KeyLoads(site) THEN "fail"
                   ELSE IF ~site.private THEN "warn"
                   ELSE IF site.pub = "other" THEN "fail" ELSE "ok"
     IN Push("signing key", status, "spool")

HasSpool == site.spool # "none" /\ site.config = "good"

\* Opening is not appending: the doctor also writes and removes a probe file.
CheckSpool ==
  /\ doctor.pc = "spool"
  /\ LET status == IF ~HasSpool THEN "skip"
                   ELSE IF ~SpoolOpens(site) \/ site.spool = "read only" THEN "fail"
                   ELSE IF site.spool = "queued" THEN "warn" ELSE "ok"
     IN Push("spool", status, "marking")

\* A config with a bad marking does not load, so there is nothing to refuse here.
CheckMarking ==
  /\ doctor.pc = "marking"
  /\ \E status \in {"ok", "skip"} :
       /\ status = "ok" => site.config = "good"
       /\ Push("marking", status, "transport")

\* dds::probe: what a bounded wait can see of the topic.  Discovery and the first
\* sample may come after the wait; the stack matches on the topic's name alone.
Probe(matched, sample, heard) == [matched |-> matched, sample |-> sample, heard |-> heard]
Probes(state) ==
  CASE state = "fit" -> {Probe(TRUE, TRUE, {"exact"}), Probe(TRUE, FALSE, {"exact"}),
                         Probe(FALSE, FALSE, {})}
    [] state = "idle" -> {Probe(TRUE, FALSE, {"exact"}), Probe(FALSE, FALSE, {})}
    [] state = "mistyped" -> {Probe(TRUE, FALSE, {"other type"}), Probe(FALSE, FALSE, {"other type"})}
    [] state = "unpaired" -> {Probe(FALSE, FALSE, {"exact"})}
    [] state = "unheard" -> {Probe(FALSE, FALSE, {}), Probe(FALSE, FALSE, {"other topic"})}

\* dds_verdict: a pair that sent something, and a silent publisher of the type.
DdsVerdict(probe) ==
  CASE probe.matched /\ probe.sample -> "ok"
    [] probe.matched /\ ~probe.sample /\ ("exact" \in probe.heard \/ "other type" \notin probe.heard)
         -> "warn"
    [] OTHER -> "fail"

\* transport::check looks at four kinds of transport and passes over the others.
CheckTransport ==
  /\ doctor.pc = "transport"
  /\ LET kind == site.feed[1]
         state == site.feed[2]
     IN CASE site.config # "good" -> doctor' = [doctor EXCEPT !.pc = "registration"]
          [] site.config = "good" /\ kind = "udp-multicast" ->
               Push("transport", IF UdpOpens(state) THEN "ok" ELSE "fail", "registration")
          [] site.config = "good" /\ kind \in {"serial", "pcap-replay"} ->
               Push("transport", IF state = "unfit" THEN "fail" ELSE "ok", "registration")
          [] site.config = "good" /\ kind = "dds" ->
               IF DdsOpens(state)
               THEN \E p \in Probes(state) : Push("transport", DdsVerdict(p), "registration")
               ELSE Push("transport", "fail", "registration")
          [] OTHER -> doctor' = [doctor EXCEPT !.pc = "registration"]

CheckRegistration ==
  /\ doctor.pc = "registration"
  /\ LET status == IF ~KeyLoads(site) \/ site.sources = "none" THEN "skip"
                   ELSE IF site.sources = "same" THEN "ok" ELSE "fail"
     IN Push("registration", status, "endpoint")

----------------------------------------------------------------------------
(* The endpoint.                                                           *)

\* parse_urls: every entry of the failover list; then the standbys are dialled.
CheckEndpoint ==
  /\ doctor.pc = "endpoint"
  /\ IF UrlParses(site)
     THEN doctor' = [doctor EXCEPT !.pc = IF Len(site.url) > 1 THEN "dial standby" ELSE "dial"]
     ELSE Push("endpoint", "fail", "tls policy")

\* dial: the server accepts.
Connected ==
  /\ \/ doctor.pc = "dial standby" /\ Push("failover", "ok", "dial")
     \/ doctor.pc = "dial" /\ doctor' = [doctor EXCEPT !.pc = "greeting"]
     \/ doctor.pc = "dial again" /\ doctor' = [doctor EXCEPT !.pc = "greeting again"]

\* dial: NoDns or NoAnswer.  On the second dial probe returns the error as it is.
Undialled ==
  \/ doctor.pc = "dial standby" /\ Push("failover", "warn", "dial")
  \/ doctor.pc = "dial" /\ Push("endpoint", "fail", "tls policy")
  \/ doctor.pc = "dial again" /\ Push("tls handshake", "fail", "clock")

\* A refusal is the network's answer; silence ends with the timeout of dial.
DialRefused == Undialled
DialTimesOut == Undialled

\* read_info on the connection just opened.
Greeted ==
  /\ doctor.pc = "greeting"
  /\ \/ \E g \in Greetings \ {"none"} :
          doctor' = [doctor EXCEPT !.pc = "tls policy", !.answered = TRUE, !.greeting = g,
                     !.findings = @ \cup {<<"endpoint", "ok">>}]
     \/ Push("endpoint", "fail", "tls policy")     \* closed, or it is not NATS

\* Silence is what a TLS-first server looks like.
GreetingTimesOut ==
  /\ doctor.pc = "greeting"
  /\ doctor' = [doctor EXCEPT !.pc = "tls policy", !.answered = TRUE,
                !.findings = @ \cup {<<"endpoint", "ok">>}]

----------------------------------------------------------------------------
(* TLS.                                                                    *)

\* The doctor's own reading of the failover list: false where it does not parse.
UrlDemandsTls == UrlParses(site) /\ \E i \in DOMAIN site.url : site.url[i] = "tls"

\* tls::policy, the doctor's copy of the runtime's table.
PolicyIgnoresPartial ==
  IF site.tls # {} THEN "mtls"
  ELSE IF UrlDemandsTls \/ site.require_tls THEN "required" ELSE "cleartext"
Policy ==
  IF site.tls = TlsVars THEN "mtls"
  ELSE IF site.tls # {} THEN "partial"
  ELSE IF UrlDemandsTls \/ site.require_tls THEN "required" ELSE "cleartext"

PolicyFinding ==
  CASE Policy = "mtls" -> "ok"
    [] Policy \in {"partial", "required"} -> "fail"
    [] Policy = "cleartext" -> IF doctor.greeting = "tls required" THEN "fail" ELSE "warn"

\* check_policy, and the three skips of run where there is nothing to probe.
CheckPolicy ==
  /\ doctor.pc = "tls policy"
  /\ IF Policy = "mtls" /\ doctor.answered
     THEN Push("tls policy", PolicyFinding, "certificate files")
     ELSE doctor' = [doctor EXCEPT !.pc = "done",
                     !.findings = @ \cup {<<"tls policy", PolicyFinding>>}
                       \cup Skipped({"certificate files", "tls handshake", "clock"})]

CertificateFinding ==
  CASE site.identity \in {"expired", "not yet valid"} -> "fail"
    [] site.identity \in {"other name", "no name"} -> "warn"
    [] OTHER -> "ok"

\* The CA file, then the client's pair: a first certificate that is not a CA is
\* a warning beside the identity's own finding.  A pair that does not belong
\* together is read without complaint here and refused by probe.
CheckCertificateFiles ==
  /\ doctor.pc = "certificate files"
  /\ LET unreadable == site.ca = "unreadable" \/ site.identity = "unreadable"
         ca == IF site.ca = "leaf" THEN {<<"certificate files", "warn">>} ELSE {}
     IN doctor' = [doctor EXCEPT !.pc = "tls handshake", !.identity = ~unreadable,
                   !.findings = @ \cup ca \cup
                     {<<"certificate files", IF unreadable THEN "fail" ELSE CertificateFinding>>}]

\* probe, up to its dial: the trust roots and the client's pair.
CheckHandshake ==
  /\ doctor.pc = "tls handshake"
  /\ IF site.ca = "unreadable" \/ (doctor.identity /\ site.identity = "mispaired")
     THEN Push("tls handshake", "fail", "clock")
     ELSE doctor' = [doctor EXCEPT !.pc = "dial again"]

\* An INFO that offers no TLS ends the probe, and so does a host that cannot be a
\* TLS server name; anything else, an error or silence included, leads to the
\* handshake.
GreetedAgain ==
  /\ doctor.pc = "greeting again"
  /\ \/ Push("tls handshake", "fail", "clock")
     \/ doctor' = [doctor EXCEPT !.pc = "handshake"]
GreetingAgainTimesOut == GreetedAgain

\* The handshake fails, for whatever cause classify_rustls_error or the I/O error
\* names.  RecordingVerifier kept the server's leaf if one was presented.
HandshakeFails ==
  /\ doctor.pc = "handshake"
  /\ \E c \in ShownCerts :
       doctor' = [doctor EXCEPT !.pc = "clock", !.shown = c,
                  !.findings = @ \cup {<<"tls handshake", "fail">>}]

\* webpki refuses a leaf outside its validity, so a handshake that succeeds was
\* shown one in force.
HandshakeDone ==
  /\ doctor.pc = "handshake"
  /\ doctor' = [doctor EXCEPT !.pc = "ping", !.shown = "in force"]

HandshakeHangs ==
  /\ doctor.pc = "handshake"
  /\ UNCHANGED doctor
HandshakeTimesOut ==
  /\ doctor.pc = "handshake"
  /\ \E c \in ShownCerts :
       doctor' = [doctor EXCEPT !.pc = "clock", !.shown = c,
                  !.findings = @ \cup {<<"tls handshake", "fail">>}]

\* The PING surfaces a rejection that TLS 1.3 defers: closed, -ERR or an alert.
PingAnswered ==
  /\ doctor.pc = "ping"
  /\ \E status \in {"ok", "fail"} : Push("tls handshake", status, "clock")
PingTimesOut ==
  /\ doctor.pc = "ping"
  /\ Push("tls handshake", "ok", "clock")

CheckClock ==
  /\ doctor.pc = "clock"
  /\ LET status == CASE doctor.shown = "none" -> "skip"
                     [] doctor.shown = "in force" -> "ok"
                     [] doctor.shown = "later" -> "fail"
                     [] doctor.shown = "over" -> "warn"
     IN Push("clock", status, "done")

----------------------------------------------------------------------------
\* What the doctor does by itself: its checks, and the end of every wait.
DoctorStep ==
  /\ \/ CheckConfig \/ CheckSigningKey \/ CheckSpool \/ CheckMarking \/ CheckTransport
     \/ CheckRegistration \/ CheckEndpoint \/ DialTimesOut \/ GreetingTimesOut
     \/ CheckPolicy \/ CheckCertificateFiles \/ CheckHandshake \/ GreetingAgainTimesOut
     \/ HandshakeTimesOut \/ PingTimesOut \/ CheckClock
  /\ UNCHANGED <<site, connector>>

\* What it learns from the network.
ServerStep ==
  /\ \/ Connected \/ DialRefused \/ Greeted \/ GreetedAgain \/ HandshakeFails
     \/ HandshakeDone \/ PingAnswered
  /\ UNCHANGED <<site, connector>>
=============================================================================
