-------------------------- MODULE OnboardingProofs --------------------------
(***************************************************************************)
(* Proofs about bringing a connector up, for every set of sites, packets   *)
(* and options: the preflight foretells the start, and what ajar-up hands  *)
(* over to was verified.                                                   *)
(***************************************************************************)
EXTENDS Onboarding, TLAPS

----------------------------------------------------------------------------
(* The inductive invariant of the doctor.                                  *)

\* Where the doctor is once a check lies behind it.
AfterConfig == DoctorPcs \ {"off", "config"}
AfterKey == AfterConfig \ {"signing key"}
AfterSpool == AfterKey \ {"spool"}
AfterTransport == AfterSpool \ {"marking", "transport"}
AfterEndpoint ==
  {"tls policy", "certificate files", "tls handshake", "dial again", "greeting again",
   "handshake", "ping", "clock", "done"}
AfterPolicy == AfterEndpoint \ {"tls policy"}
\* Where it has an endpoint to call.
Calling == {"dial standby", "dial", "greeting"}

Usable == ConfigLoads(site) \/ site.config = "environment"

\* What will refuse the start has its FAIL once its check is over.
Reported ==
  /\ doctor.pc \in AfterConfig /\ ~Usable => <<"config", "fail">> \in doctor.findings
  /\ doctor.pc \in AfterKey /\ Usable /\ ~KeyLoads(site)
       => <<"signing key", "fail">> \in doctor.findings
  /\ doctor.pc \in AfterSpool /\ ConfigLoads(site) /\ ~SpoolOpens(site)
       => <<"spool", "fail">> \in doctor.findings
  /\ doctor.pc \in AfterTransport /\ ConfigLoads(site) /\ ~Opens(site) /\ ~Unforeseen("transport")
       => <<"transport", "fail">> \in doctor.findings
  /\ doctor.pc \in AfterEndpoint /\ Usable /\ ~UrlParses(site)
       => <<"endpoint", "fail">> \in doctor.findings
  /\ doctor.pc \in AfterPolicy /\ Usable /\ UrlParses(site) /\ ~TlsAccepted(site)
       => <<"tls policy", "fail">> \in doctor.findings
  /\ doctor.pc \in Calling => UrlParses(site)

\* A FAIL of these checks was not given without cause.
Caused ==
  /\ <<"config", "fail">> \in doctor.findings => ~ConfigLoads(site)
  /\ <<"transport", "fail">> \in doctor.findings
       => ~Opens(site) \/ site.feed[1] \in {"serial", "dds"}
  /\ <<"tls policy", "fail">> \in doctor.findings
       => /\ doctor.pc \in AfterPolicy
          /\ ~TlsAccepted(site) \/ doctor.greeting = "tls required"

DoctorShape ==
  doctor = [pc |-> doctor.pc, findings |-> doctor.findings, answered |-> doctor.answered,
            greeting |-> doctor.greeting, identity |-> doctor.identity, shown |-> doctor.shown]

\* The facets of the site that the argument reads or ajar-up writes.
Typed ==
  /\ {"config", "feed"} \subseteq DOMAIN site /\ site.feed \in Feeds
  /\ connector \in [state : {"off", "starting", "running", "refused"}, at : DOMAIN StartSteps]

Examined == Typed /\ DoctorShape /\ Reported /\ Caused

\* Only the preflight, or a run by hand, examines; a connector is started on a
\* finished report about a config file, and has passed the steps before its own.
Launched ==
  /\ up \notin {"unused", "preflight", "ready", "started", "refused"} => doctor = DoctorOff
  /\ up = "preflight" => site.config \in {"good", "unknown field"}
  /\ connector.state # "off" =>
       /\ up \in {"unused", "ready", "started"}
       /\ Done
       /\ site.config \notin {"environment", "incomplete environment"}
       /\ \A i \in 1 .. connector.at - 1 : Passes(site, StartSteps[i])
  /\ connector.state = "refused" => ~Passes(site, StartSteps[connector.at])
  /\ connector.state = "running" => \A i \in DOMAIN StartSteps : Passes(site, StartSteps[i])

ForetellInv == Examined /\ Launched

----------------------------------------------------------------------------

\* A FAIL that Caused answers for.
Weighty == {<<"config", "fail">>, <<"transport", "fail">>, <<"tls policy", "fail">>}

\* One step of the doctor: it goes on, and its findings only grow.
GoesOn(next, found) ==
  /\ UNCHANGED <<site, connector>>
  /\ doctor'.pc = next
  /\ doctor'.findings = doctor.findings \cup found
  /\ DoctorShape'

\* A record update of the doctor, field by field.
LEMMA DoctorFields ==
  ASSUME DoctorShape, NEW next, NEW found,
         UNCHANGED <<site, connector>>,
         doctor' = [doctor EXCEPT !.pc = next, !.findings = @ \cup found]
  PROVE  GoesOn(next, found) /\ doctor'.greeting = doctor.greeting
  BY Zenon DEF DoctorShape, GoesOn

\* The parts of Examined that a step of the doctor cannot disturb.
LEMMA GoesOnTyped ==
  ASSUME Examined, NEW next, NEW found, GoesOn(next, found)
  PROVE  Typed' /\ DoctorShape'
  BY DEF Examined, GoesOn, Typed

\* What was reported stays reported; only what a step newly leaves behind counts.
LEMMA ReportedGrows ==
  ASSUME Examined, NEW next, NEW found, GoesOn(next, found),
         next \in AfterConfig /\ ~Usable
           => doctor.pc \in AfterConfig \/ <<"config", "fail">> \in found,
         next \in AfterKey /\ Usable /\ ~KeyLoads(site)
           => doctor.pc \in AfterKey \/ <<"signing key", "fail">> \in found,
         next \in AfterSpool /\ ConfigLoads(site) /\ ~SpoolOpens(site)
           => doctor.pc \in AfterSpool \/ <<"spool", "fail">> \in found,
         next \in AfterTransport /\ ConfigLoads(site) /\ ~Opens(site) /\ ~Unforeseen("transport")
           => doctor.pc \in AfterTransport \/ <<"transport", "fail">> \in found,
         next \in AfterEndpoint /\ Usable /\ ~UrlParses(site)
           => doctor.pc \in AfterEndpoint \/ <<"endpoint", "fail">> \in found,
         next \in AfterPolicy /\ Usable /\ UrlParses(site) /\ ~TlsAccepted(site)
           => doctor.pc \in AfterPolicy \/ <<"tls policy", "fail">> \in found,
         next \in Calling => UrlParses(site)
  PROVE  Reported'
  <1>1. /\ site' = site /\ doctor'.pc = next
        /\ doctor'.findings = doctor.findings \cup found
    BY Zenon DEF GoesOn
  <1>2. (Usable' <=> Usable) /\ (Unforeseen("transport")' <=> Unforeseen("transport"))
    BY <1>1, Zenon DEF Usable, Unforeseen
  <1>3. (doctor.pc \in AfterConfig /\ ~Usable => <<"config", "fail">> \in doctor.findings)'
    BY <1>1, <1>2, Zenon DEF Examined, Reported
  <1>4. (doctor.pc \in AfterKey /\ Usable /\ ~KeyLoads(site)
           => <<"signing key", "fail">> \in doctor.findings)'
    BY <1>1, <1>2, Zenon DEF Examined, Reported
  <1>5. (doctor.pc \in AfterSpool /\ ConfigLoads(site) /\ ~SpoolOpens(site)
           => <<"spool", "fail">> \in doctor.findings)'
    BY <1>1, <1>2, Zenon DEF Examined, Reported
  <1>6. (doctor.pc \in AfterTransport /\ ConfigLoads(site) /\ ~Opens(site)
           /\ ~Unforeseen("transport") => <<"transport", "fail">> \in doctor.findings)'
    BY <1>1, <1>2, Zenon DEF Examined, Reported
  <1>7. (doctor.pc \in AfterEndpoint /\ Usable /\ ~UrlParses(site)
           => <<"endpoint", "fail">> \in doctor.findings)'
    BY <1>1, <1>2, Zenon DEF Examined, Reported
  <1>8. (doctor.pc \in AfterPolicy /\ Usable /\ UrlParses(site) /\ ~TlsAccepted(site)
           => <<"tls policy", "fail">> \in doctor.findings)'
    BY <1>1, <1>2, Zenon DEF Examined, Reported
  <1>q. QED
    BY <1>1, <1>3, <1>4, <1>5, <1>6, <1>7, <1>8, Zenon DEF Reported

\* Nothing weighty found, nothing more to answer for.
LEMMA CausedKept ==
  ASSUME Examined, NEW next, NEW found, GoesOn(next, found),
         found \cap Weighty = {},
         doctor.pc \in AfterPolicy => next \in AfterPolicy /\ doctor'.greeting = doctor.greeting
  PROVE  Caused'
  BY Zenon DEF Examined, Caused, GoesOn, Weighty

\* The order of the checks.
LEMMA AfterOrder ==
  /\ AfterPolicy \subseteq AfterEndpoint /\ AfterEndpoint \subseteq AfterTransport
  /\ AfterTransport \subseteq AfterSpool /\ AfterSpool \subseteq AfterKey
  /\ AfterKey \subseteq AfterConfig /\ AfterConfig \subseteq DoctorPcs
  BY Zenon DEF AfterPolicy, AfterEndpoint, AfterTransport, AfterSpool, AfterKey, AfterConfig,
     DoctorPcs, Checks, Waiting, Dialling

\* A step past every check of Reported, with nothing weighty found.
LEMMA PastPolicy ==
  ASSUME Examined, NEW next \in AfterPolicy, NEW found, GoesOn(next, found),
         doctor.pc \in AfterPolicy, found \cap Weighty = {}, doctor'.greeting = doctor.greeting
  PROVE  Examined'
  <1>1. next \notin Calling
    BY Zenon DEF Calling, AfterPolicy, AfterEndpoint
  <1>2. Reported'
    BY <1>1, AfterOrder, ReportedGrows, Zenon
  <1>3. Caused'
    BY CausedKept
  <1>q. QED
    BY <1>2, <1>3, GoesOnTyped DEF Examined

\* A step between the box and the policy, the URL being one that parses.
LEMMA BeforePolicy ==
  ASSUME Examined, NEW next, NEW found, GoesOn(next, found),
         doctor.pc \in Calling, next \in Calling \cup {"tls policy"}, found \cap Weighty = {}
  PROVE  Examined'
  <1>1. UrlParses(site)
    BY Zenon DEF Examined, Reported
  <1>2. doctor.pc \in AfterTransport /\ doctor.pc \notin AfterPolicy /\ next \notin AfterPolicy
    BY Zenon DEF Calling, AfterPolicy, AfterEndpoint, AfterTransport, AfterSpool, AfterKey, AfterConfig,
       DoctorPcs, Waiting, Dialling
  <1>3. Reported'
    BY <1>1, <1>2, AfterOrder, ReportedGrows, Zenon
  <1>4. Caused'
    BY <1>2, CausedKept, Zenon
  <1>q. QED
    BY <1>3, <1>4, GoesOnTyped, Zenon DEF Examined

\* Config::load, read by the doctor or found in the environment.
LEMMA CheckConfigKeeps ==
  ASSUME Examined, CheckConfig, UNCHANGED <<site, connector>> PROVE Examined'
  <1>0. DoctorShape /\ doctor.pc = "config"
    BY Zenon DEF Examined, CheckConfig
  <1>1. CASE Usable
    <2>1. doctor' = [doctor EXCEPT !.pc = "signing key", !.findings = @ \cup {<<"config", "ok">>}]
      BY <1>1 DEF CheckConfig, Usable, Push
    <2>2. GoesOn("signing key", {<<"config", "ok">>}) /\ doctor'.greeting = doctor.greeting
      BY <1>0, <2>1, DoctorFields, Zenon
    <2>3. {<<"config", "ok">>} \cap Weighty = {}
      BY DEF Weighty
    <2>4. /\ doctor.pc \notin AfterPolicy
          /\ "signing key" \notin AfterPolicy \cup AfterEndpoint \cup AfterTransport \cup AfterSpool
                                    \cup AfterKey \cup Calling
      BY <1>0 DEF Calling, AfterPolicy, AfterEndpoint, AfterTransport, AfterSpool, AfterKey
    <2>5. Reported'
      BY <1>1, <2>2, <2>4, ReportedGrows, Zenon
    <2>6. Caused'
      BY <2>2, <2>3, <2>4, CausedKept, Zenon
    <2>q. QED
      BY <2>2, <2>5, <2>6, GoesOnTyped, Zenon DEF Examined
  <1>2. CASE ~Usable
    <2>d. DEFINE found == {<<"config", "fail">>} \cup Skipped(Checks \ {"config", "transport", "failover"})
    <2>1. doctor' = [doctor EXCEPT !.pc = "done", !.findings = found]
      BY <1>2, Zenon DEF CheckConfig, Usable
    <2>3. doctor'.pc = "done" /\ doctor'.findings = found /\ DoctorShape' /\ UNCHANGED site
      BY <1>0, <2>1, Zenon DEF DoctorShape
    <2>4. ~Usable' /\ ~ConfigLoads(site')
      BY <1>2, <2>3 DEF Usable
    <2>5. <<"config", "fail">> \in doctor'.findings
      BY <2>3
    <2>6. <<"transport", "fail">> \notin found /\ <<"tls policy", "fail">> \notin found
      BY Zenon DEF Skipped
    <2>7. Reported'
      BY <2>3, <2>4, <2>5, Zenon DEF Reported, Usable, Calling
    <2>8. Caused'
      BY <2>3, <2>4, <2>6, Zenon DEF Caused
    <2>q. QED
      BY <2>3, <2>7, <2>8 DEF Examined, Typed
  <1>q. QED
    BY <1>1, <1>2

\* A finding pushed, and a step without one.
LEMMA PushGoesOn ==
  ASSUME Examined, NEW check, NEW status, NEW next, Push(check, status, next),
         UNCHANGED <<site, connector>>
  PROVE  GoesOn(next, {<<check, status>>}) /\ doctor'.greeting = doctor.greeting
  <1>1. DoctorShape
    BY DEF Examined
  <1>2. doctor' = [doctor EXCEPT !.pc = next, !.findings = @ \cup {<<check, status>>}]
    BY DEF Push
  <1>q. QED
    BY <1>1, <1>2, DoctorFields, Zenon

\* Going on to the next check without a finding.
LEMMA MoveGoesOn ==
  ASSUME Examined, NEW next, doctor' = [doctor EXCEPT !.pc = next], UNCHANGED <<site, connector>>
  PROVE  GoesOn(next, {}) /\ doctor'.greeting = doctor.greeting
  BY DEF Examined, DoctorShape, GoesOn

\* A finding that is no FAIL of a check that Caused answers for.
LEMMA LightFinding ==
  ASSUME NEW check, NEW status, check \notin {"config", "transport", "tls policy"}
  PROVE  {<<check, status>>} \cap Weighty = {}
  <1>1. ASSUME NEW w \in Weighty PROVE w[1] \in {"config", "transport", "tls policy"}
    <2>1. CASE w = <<"config", "fail">>
      BY <2>1, Zenon
    <2>2. CASE w = <<"transport", "fail">>
      BY <2>2, Zenon
    <2>3. CASE w = <<"tls policy", "fail">>
      BY <2>3, Zenon
    <2>q. QED
      BY <2>1, <2>2, <2>3, Zenon DEF Weighty
  <1>2. <<check, status>>[1] = check
    BY Zenon
  <1>q. QED
    BY <1>1, <1>2, Zenon

\* The checks of the box, and what each leaves behind.
LEMMA CheckSigningKeyKeeps ==
  ASSUME Examined, CheckSigningKey, UNCHANGED <<site, connector>> PROVE Examined'
  <1>1. PICK status : /\ Push("signing key", status, "spool")
                      /\ ~KeyLoads(site) => status = "fail"
    BY Zenon DEF CheckSigningKey
  <1>2. GoesOn("spool", {<<"signing key", status>>}) /\ doctor'.greeting = doctor.greeting
    BY <1>1, PushGoesOn, Zenon
  <1>3. /\ doctor.pc = "signing key" /\ doctor.pc \in AfterConfig
        /\ doctor.pc \notin AfterPolicy
        /\ "spool" \notin Calling \cup AfterPolicy \cup AfterEndpoint \cup AfterTransport \cup AfterSpool
    BY Zenon DEF CheckSigningKey, Calling, AfterPolicy, AfterEndpoint, AfterTransport, AfterSpool, AfterKey,
       AfterConfig, DoctorPcs, Checks
  <1>4. Reported'
    BY <1>1, <1>2, <1>3, ReportedGrows, Zenon
  <1>5. Caused'
    BY <1>2, <1>3, CausedKept, LightFinding, Zenon
  <1>q. QED
    BY <1>2, <1>4, <1>5, GoesOnTyped, Zenon DEF Examined

\* check_spool: the doctor opens the spool as run does.
LEMMA CheckSpoolKeeps ==
  ASSUME Examined, CheckSpool, UNCHANGED <<site, connector>> PROVE Examined'
  <1>1. PICK status : /\ Push("spool", status, "marking")
                      /\ ConfigLoads(site) /\ ~SpoolOpens(site) => status = "fail"
    BY Zenon DEF CheckSpool, HasSpool, ConfigLoads, SpoolOpens
  <1>2. GoesOn("marking", {<<"spool", status>>}) /\ doctor'.greeting = doctor.greeting
    BY <1>1, PushGoesOn
  <1>3. /\ doctor.pc = "spool" /\ doctor.pc \in AfterConfig /\ doctor.pc \in AfterKey
        /\ doctor.pc \notin AfterPolicy
        /\ "marking" \notin Calling \cup AfterPolicy \cup AfterEndpoint \cup AfterTransport
    BY Zenon DEF CheckSpool, Calling, AfterPolicy, AfterEndpoint, AfterTransport, AfterSpool, AfterKey,
       AfterConfig, DoctorPcs, Checks
  <1>4. Reported'
    BY <1>1, <1>2, <1>3, ReportedGrows, Zenon
  <1>5. Caused'
    BY <1>2, <1>3, CausedKept, LightFinding, Zenon
  <1>q. QED
    BY <1>2, <1>4, <1>5, GoesOnTyped DEF Examined

\* The transports that the doctor opens are the ones whose refusal it foresees.
LEMMA CheckTransportKeeps ==
  ASSUME Examined, CheckTransport, UNCHANGED <<site, connector>> PROVE Examined'
  <1>1. /\ doctor.pc = "transport" /\ doctor.pc \in AfterConfig /\ doctor.pc \in AfterKey
        /\ doctor.pc \in AfterSpool /\ doctor.pc \notin AfterPolicy
        /\ "registration" \notin Calling \cup AfterPolicy \cup AfterEndpoint
    BY DEF CheckTransport, Calling, AfterPolicy, AfterEndpoint, AfterTransport, AfterSpool, AfterKey,
       AfterConfig, DoctorPcs, Checks
  <1>2. site.feed \in Feeds
    BY DEF Examined, Typed
  <1>3. PICK found :
          /\ GoesOn("registration", found) /\ doctor'.greeting = doctor.greeting
          /\ found \cap Weighty # {} =>
               /\ found = {<<"transport", "fail">>}
               /\ ~Opens(site) \/ site.feed[1] \in {"serial", "dds"}
          /\ ConfigLoads(site) /\ ~Opens(site) /\ ~Unforeseen("transport")
               => <<"transport", "fail">> \in found
    <2>1. CASE site.config # "good"
      <3>1. doctor' = [doctor EXCEPT !.pc = "registration"]
        BY <2>1 DEF CheckTransport
      <3>2. GoesOn("registration", {}) /\ doctor'.greeting = doctor.greeting
        BY <3>1, MoveGoesOn
      <3>q. QED
        BY <2>1, <3>2 DEF ConfigLoads
    <2>2. CASE site.config = "good" /\ site.feed[1] \notin {"udp-multicast", "serial", "pcap-replay", "dds"}
      <3>1. doctor' = [doctor EXCEPT !.pc = "registration"]
        BY <2>2 DEF CheckTransport
      <3>2. GoesOn("registration", {}) /\ doctor'.greeting = doctor.greeting
        BY <3>1, MoveGoesOn
      <3>3. ~Opens(site) => Unforeseen("transport")
        BY <1>2, <2>2, Zenon DEF Feeds, Opens, OpensAtOnce, OpensLazily, Unforeseen
      <3>q. QED
        BY <3>2, <3>3
    <2>3. CASE site.config = "good" /\ site.feed[1] \in {"udp-multicast", "serial", "pcap-replay", "dds"}
      <3>1. PICK status :
              /\ Push("transport", status, "registration")
              /\ status = "fail" => ~Opens(site) \/ site.feed[1] \in {"serial", "dds"}
              /\ ~Opens(site) /\ ~Unforeseen("transport") => status = "fail"
        <4>1. CASE site.feed[1] = "udp-multicast"
          BY <2>3, <4>1 DEF CheckTransport, Opens, UdpOpens, OpensLazily, OpensAtOnce
        <4>2. CASE site.feed[1] = "serial"
          BY <2>3, <4>2 DEF CheckTransport, Opens, OpensLazily
        <4>3. CASE site.feed[1] = "pcap-replay"
          BY <2>3, <4>3, Zenon DEF CheckTransport, Opens, ReplayOpens, OpensLazily, OpensAtOnce, Unforeseen
        <4>4. CASE site.feed[1] = "dds"
          BY <2>3, <4>4 DEF CheckTransport, Opens, DdsOpens, OpensLazily, OpensAtOnce
        <4>q. QED
          BY <2>3, <4>1, <4>2, <4>3, <4>4
      <3>2. GoesOn("registration", {<<"transport", status>>}) /\ doctor'.greeting = doctor.greeting
        BY <3>1, PushGoesOn
      <3>3. {<<"transport", status>>} \cap Weighty # {} => status = "fail"
        BY DEF Weighty
      <3>q. QED
        BY <3>1, <3>2, <3>3
    <2>q. QED
      BY <2>1, <2>2, <2>3
  <1>4. Reported'
    BY <1>1, <1>3, ReportedGrows, Zenon
  <1>5. Caused'
    <2>1. CASE found \cap Weighty = {}
      BY <1>1, <1>3, <2>1, CausedKept
    <2>2. CASE found \cap Weighty # {}
      BY <1>1, <1>3, <2>2, Zenon DEF Examined, Caused, GoesOn
    <2>q. QED
      BY <2>1, <2>2
  <1>q. QED
    BY <1>3, <1>4, <1>5, GoesOnTyped DEF Examined

\* The endpoint: an URL that does not parse has its FAIL; nothing else here is
\* weighty.
LEMMA CheckEndpointKeeps ==
  ASSUME Examined, CheckEndpoint, UNCHANGED <<site, connector>> PROVE Examined'
  <1>1. /\ doctor.pc \in AfterConfig /\ doctor.pc \in AfterKey /\ doctor.pc \in AfterSpool
        /\ doctor.pc \in AfterTransport /\ doctor.pc \notin AfterPolicy
        /\ {"tls policy", "dial", "dial standby"} \cap AfterPolicy = {}
        /\ {"dial", "dial standby"} \cap AfterEndpoint = {}
        /\ "tls policy" \notin Calling
    BY Zenon DEF CheckEndpoint, Calling, AfterPolicy, AfterEndpoint, AfterTransport, AfterSpool, AfterKey,
       AfterConfig, DoctorPcs, Checks
  <1>2. CASE UrlParses(site)
    <2>1. PICK next \in {"dial", "dial standby"} : doctor' = [doctor EXCEPT !.pc = next]
      BY <1>2, Zenon DEF CheckEndpoint
    <2>2. GoesOn(next, {}) /\ doctor'.greeting = doctor.greeting
      BY <2>1, MoveGoesOn, Zenon
    <2>3. next \notin AfterPolicy /\ next \notin AfterEndpoint /\ {} \cap Weighty = {}
      BY <1>1, Zenon
    <2>4. Reported'
      BY <1>1, <1>2, <2>2, <2>3, ReportedGrows, Zenon
    <2>5. Caused'
      BY <1>1, <2>2, <2>3, CausedKept, Zenon
    <2>q. QED
      BY <2>2, <2>4, <2>5, GoesOnTyped, Zenon DEF Examined
  <1>3. CASE ~UrlParses(site)
    <2>1. Push("endpoint", "fail", "tls policy")
      BY <1>3, Zenon DEF CheckEndpoint
    <2>2. GoesOn("tls policy", {<<"endpoint", "fail">>}) /\ doctor'.greeting = doctor.greeting
      BY <2>1, PushGoesOn, Zenon
    <2>3. {<<"endpoint", "fail">>} \cap Weighty = {}
      BY LightFinding, Zenon
    <2>4. Reported'
      BY <1>1, <1>3, <2>2, ReportedGrows, Zenon
    <2>5. Caused'
      BY <1>1, <2>2, <2>3, CausedKept, Zenon
    <2>q. QED
      BY <2>2, <2>4, <2>5, GoesOnTyped, Zenon DEF Examined
  <1>q. QED
    BY <1>2, <1>3

\* The marking, already validated by the load.
LEMMA CheckMarkingKeeps ==
  ASSUME Examined, CheckMarking, UNCHANGED <<site, connector>> PROVE Examined'
  <1>1. PICK status : Push("marking", status, "transport")
    BY DEF CheckMarking
  <1>2. GoesOn("transport", {<<"marking", status>>}) /\ doctor'.greeting = doctor.greeting
    BY <1>1, PushGoesOn
  <1>3. /\ doctor.pc \in AfterSpool /\ doctor.pc \notin AfterPolicy
        /\ "transport" \notin Calling \cup AfterPolicy \cup AfterEndpoint \cup AfterTransport
    BY DEF CheckMarking, Calling, AfterPolicy, AfterEndpoint, AfterTransport, AfterSpool, AfterKey,
       AfterConfig, DoctorPcs, Checks
  <1>4. Reported'
    BY <1>2, <1>3, AfterOrder, ReportedGrows, Zenon
  <1>5. Caused'
    BY <1>2, <1>3, CausedKept, LightFinding, Zenon
  <1>q. QED
    BY <1>2, <1>4, <1>5, GoesOnTyped DEF Examined

\* The source registry, which a start does not read.
LEMMA CheckRegistrationKeeps ==
  ASSUME Examined, CheckRegistration, UNCHANGED <<site, connector>> PROVE Examined'
  <1>1. PICK status : Push("registration", status, "endpoint")
    BY DEF CheckRegistration
  <1>2. GoesOn("endpoint", {<<"registration", status>>}) /\ doctor'.greeting = doctor.greeting
    BY <1>1, PushGoesOn
  <1>3. /\ doctor.pc \in AfterTransport /\ doctor.pc \notin AfterPolicy
        /\ "endpoint" \notin Calling \cup AfterPolicy \cup AfterEndpoint
    BY DEF CheckRegistration, Calling, AfterPolicy, AfterEndpoint, AfterTransport, AfterSpool,
       AfterKey, AfterConfig, DoctorPcs, Checks
  <1>4. Reported'
    BY <1>2, <1>3, AfterOrder, ReportedGrows, Zenon
  <1>5. Caused'
    BY <1>2, <1>3, CausedKept, LightFinding, Zenon
  <1>q. QED
    BY <1>2, <1>4, <1>5, GoesOnTyped DEF Examined

\* The same two, for a finding pushed.
LEMMA PushBeforePolicy ==
  ASSUME Examined, NEW check, NEW status, NEW next, Push(check, status, next),
         UNCHANGED <<site, connector>>, check \notin {"config", "transport", "tls policy"},
         doctor.pc \in Calling, next \in Calling \cup {"tls policy"}
  PROVE  Examined'
  BY PushGoesOn, LightFinding, BeforePolicy, Zenon

\* A finding once the TLS policy was judged.
LEMMA PushPastPolicy ==
  ASSUME Examined, NEW check, NEW status, NEW next, Push(check, status, next),
         UNCHANGED <<site, connector>>, check \notin {"config", "transport", "tls policy"},
         doctor.pc \in AfterPolicy, next \in AfterPolicy
  PROVE  Examined'
  BY PushGoesOn, LightFinding, PastPolicy, Zenon

\* The dial succeeded.
LEMMA ConnectedKeeps ==
  ASSUME Examined, Connected, UNCHANGED <<site, connector>> PROVE Examined'
  <1>0. /\ "dial standby" \in Calling /\ "dial" \in Calling /\ "greeting" \in Calling
        /\ "dial again" \in AfterPolicy /\ "greeting again" \in AfterPolicy
    BY DEF Calling, AfterPolicy, AfterEndpoint
  <1>1. CASE doctor.pc = "dial standby" /\ Push("failover", "ok", "dial")
    BY <1>0, <1>1, PushBeforePolicy, Zenon
  <1>2. CASE doctor.pc = "dial" /\ doctor' = [doctor EXCEPT !.pc = "greeting"]
    BY <1>0, <1>2, MoveGoesOn, BeforePolicy, Zenon
  <1>3. CASE doctor.pc = "dial again" /\ doctor' = [doctor EXCEPT !.pc = "greeting again"]
    BY <1>0, <1>3, MoveGoesOn, PastPolicy, Zenon
  <1>q. QED
    BY <1>1, <1>2, <1>3, Zenon DEF Connected

\* The dial was refused or ran into its deadline.
LEMMA UndialledKeeps ==
  ASSUME Examined, Undialled, UNCHANGED <<site, connector>> PROVE Examined'
  <1>0. /\ "dial standby" \in Calling /\ "dial" \in Calling
        /\ "dial again" \in AfterPolicy /\ "clock" \in AfterPolicy
    BY DEF Calling, AfterPolicy, AfterEndpoint
  <1>1. CASE doctor.pc = "dial standby" /\ Push("failover", "warn", "dial")
    BY <1>0, <1>1, PushBeforePolicy, Zenon
  <1>2. CASE doctor.pc = "dial" /\ Push("endpoint", "fail", "tls policy")
    BY <1>0, <1>2, PushBeforePolicy, Zenon
  <1>3. CASE doctor.pc = "dial again" /\ Push("tls handshake", "fail", "clock")
    BY <1>0, <1>3, PushPastPolicy, Zenon
  <1>q. QED
    BY <1>1, <1>2, <1>3, Zenon DEF Undialled

\* The server's greeting, or its deadline.
LEMMA GreetedKeeps ==
  ASSUME Examined, Greeted \/ GreetingTimesOut, UNCHANGED <<site, connector>> PROVE Examined'
  <1>1. doctor.pc \in Calling
    BY Zenon DEF Greeted, GreetingTimesOut, Calling
  <1>2. CASE Push("endpoint", "fail", "tls policy")
    BY <1>1, <1>2, PushGoesOn, LightFinding, BeforePolicy, ZenonT(40)
  <1>3. ASSUME NEW g, doctor' = [doctor EXCEPT !.pc = "tls policy", !.answered = TRUE, !.greeting = g,
                                   !.findings = @ \cup {<<"endpoint", "ok">>}]
        PROVE  Examined'
    <2>1. GoesOn("tls policy", {<<"endpoint", "ok">>})
      BY <1>3, Zenon DEF Examined, DoctorShape, GoesOn
    <2>q. QED
      BY <1>1, <2>1, LightFinding, BeforePolicy, Zenon
  <1>4. CASE doctor' = [doctor EXCEPT !.pc = "tls policy", !.answered = TRUE,
                          !.findings = @ \cup {<<"endpoint", "ok">>}]
    <2>1. GoesOn("tls policy", {<<"endpoint", "ok">>})
      BY <1>4, Zenon DEF Examined, DoctorShape, GoesOn
    <2>q. QED
      BY <1>1, <2>1, LightFinding, BeforePolicy, Zenon
  <1>q. QED
    BY <1>2, <1>3, <1>4, Zenon DEF Greeted, GreetingTimesOut

\* The doctor's copy of the policy refuses what the runtime's refuses.
LEMMA PolicyAgrees ==
  /\ UrlParses(site) /\ ~TlsAccepted(site) => PolicyFinding = "fail"
  /\ PolicyFinding = "fail" => ~TlsAccepted(site) \/ doctor.greeting = "tls required"
  BY Zenon DEF PolicyFinding, Policy, UrlDemandsTls, TlsAccepted, TlsRequired, UrlParses, TlsVars

\* The TLS policy, by the URL and the environment as nats::connect has it.
LEMMA CheckPolicyKeeps ==
  ASSUME Examined, CheckPolicy, UNCHANGED <<site, connector>> PROVE Examined'
  <1>0. /\ doctor.pc = "tls policy" /\ doctor.pc \in AfterEndpoint /\ doctor.pc \notin AfterPolicy
        /\ "certificate files" \in AfterPolicy /\ "done" \in AfterPolicy
        /\ "certificate files" \notin Calling /\ "done" \notin Calling
    BY Zenon DEF CheckPolicy, Calling, AfterPolicy, AfterEndpoint
  <1>1. PICK next \in {"certificate files", "done"}, skips \in SUBSET ({"certificate files", "tls handshake", "clock"} \X {"skip"}) :
          doctor' = [doctor EXCEPT !.pc = next, !.findings = @ \cup ({<<"tls policy", PolicyFinding>>} \cup skips)]
    <2>1. CASE Policy = "mtls" /\ doctor.answered
      <3>1. doctor' = [doctor EXCEPT !.pc = "certificate files",
                         !.findings = @ \cup ({<<"tls policy", PolicyFinding>>} \cup {})]
        BY <2>1, Zenon DEF CheckPolicy, Push
      <3>q. QED
        BY <3>1, Zenon
    <2>2. CASE ~(Policy = "mtls" /\ doctor.answered)
      <3>1. doctor' = [doctor EXCEPT !.pc = "done",
                         !.findings = @ \cup ({<<"tls policy", PolicyFinding>>} \cup
                           Skipped({"certificate files", "tls handshake", "clock"}))]
        BY <2>2, Zenon DEF CheckPolicy
      <3>q. QED
        BY <3>1, Zenon DEF Skipped
    <2>q. QED
      BY <2>1, <2>2, Zenon
  <1>d. DEFINE found == {<<"tls policy", PolicyFinding>>} \cup skips
  <1>2. GoesOn(next, found) /\ doctor'.greeting = doctor.greeting
    BY <1>1, DoctorFields, Zenon DEF Examined
  <1>3. /\ <<"config", "fail">> \notin found /\ <<"transport", "fail">> \notin found
        /\ <<"tls policy", "fail">> \in found <=> PolicyFinding = "fail"
    BY Zenon
  <1>4. next \in AfterPolicy /\ next \notin Calling
    BY <1>0, Zenon
  <1> HIDE DEF found
  <1>5. Reported'
    BY <1>0, <1>2, <1>3, <1>4, AfterOrder, PolicyAgrees, ReportedGrows, Zenon
  <1>6. Caused'
    BY <1>0, <1>2, <1>3, <1>4, PolicyAgrees, Zenon DEF Examined, Caused, GoesOn
  <1>q. QED
    BY <1>2, <1>5, <1>6, GoesOnTyped, Zenon DEF Examined

\* Certificates, handshake and clock.
LEMMA CheckCertificateFilesKeeps ==
  ASSUME Examined, CheckCertificateFiles, UNCHANGED <<site, connector>> PROVE Examined'
  <1>0. doctor.pc \in AfterPolicy /\ "tls handshake" \in AfterPolicy
    BY Zenon DEF CheckCertificateFiles, AfterPolicy, AfterEndpoint
  <1>1. PICK a \in {"ok", "warn", "fail"}, ca \in SUBSET {<<"certificate files", "warn">>}, known \in BOOLEAN :
          doctor' = [doctor EXCEPT !.pc = "tls handshake", !.identity = known,
                     !.findings = @ \cup ca \cup {<<"certificate files", a>>}]
    BY Zenon DEF CheckCertificateFiles, CertificateFinding
  <1>d. DEFINE found == ca \cup {<<"certificate files", a>>}
  <1>2. GoesOn("tls handshake", found) /\ doctor'.greeting = doctor.greeting
    BY <1>1, Zenon DEF Examined, DoctorShape, GoesOn
  <1>3. found \cap Weighty = {}
    <2>1. {<<"certificate files", "warn">>} \cap Weighty = {}
      BY LightFinding, Zenon
    <2>2. {<<"certificate files", a>>} \cap Weighty = {}
      BY LightFinding, Zenon
    <2>q. QED
      BY <2>1, <2>2, Zenon
  <1>q. QED
    BY <1>0, <1>2, <1>3, PastPolicy, Zenon

\* Around the handshake: its connection and greeting, the ping and the clock.
LEMMA HandshakeKeeps ==
  ASSUME Examined, CheckHandshake \/ GreetedAgain \/ GreetingAgainTimesOut \/ PingAnswered
                     \/ PingTimesOut \/ CheckClock,
         UNCHANGED <<site, connector>>
  PROVE  Examined'
  <1>0. /\ doctor.pc \in AfterPolicy
        /\ {"clock", "dial again", "handshake", "done"} \subseteq AfterPolicy
    BY Zenon DEF CheckHandshake, GreetedAgain, GreetingAgainTimesOut, PingAnswered, PingTimesOut,
       CheckClock, AfterPolicy, AfterEndpoint
  <1>1. \/ \E status : Push("tls handshake", status, "clock")
        \/ \E next \in {"dial again", "handshake"} : doctor' = [doctor EXCEPT !.pc = next]
        \/ \E status : Push("clock", status, "done")
    BY Zenon DEF CheckHandshake, GreetedAgain, GreetingAgainTimesOut, PingAnswered, PingTimesOut,
       CheckClock
  <1>2. ASSUME NEW status, Push("tls handshake", status, "clock") PROVE Examined'
    BY <1>0, <1>2, PushPastPolicy, Zenon
  <1>3. ASSUME NEW status, Push("clock", status, "done") PROVE Examined'
    BY <1>0, <1>3, PushPastPolicy, Zenon
  <1>4. ASSUME NEW next \in {"dial again", "handshake"}, doctor' = [doctor EXCEPT !.pc = next]
        PROVE  Examined'
    BY <1>0, <1>4, MoveGoesOn, PastPolicy, Zenon
  <1>q. QED
    BY <1>1, <1>2, <1>3, <1>4, Zenon

\* The handshake is over, with a finding or without.
LEMMA HandshakeEndsKeeps ==
  ASSUME Examined, HandshakeFails \/ HandshakeTimesOut \/ HandshakeDone,
         UNCHANGED <<site, connector>>
  PROVE  Examined'
  <1>0. doctor.pc \in AfterPolicy /\ "clock" \in AfterPolicy /\ "ping" \in AfterPolicy
    BY Zenon DEF HandshakeFails, HandshakeTimesOut, HandshakeDone, AfterPolicy, AfterEndpoint
  <1>1. PICK next \in {"clock", "ping"}, found \in SUBSET {<<"tls handshake", "fail">>} :
          GoesOn(next, found) /\ doctor'.greeting = doctor.greeting
    <2>1. CASE HandshakeFails \/ HandshakeTimesOut
      <3>1. PICK c : doctor' = [doctor EXCEPT !.pc = "clock", !.shown = c,
                                  !.findings = @ \cup {<<"tls handshake", "fail">>}]
        BY <2>1, Zenon DEF HandshakeFails, HandshakeTimesOut
      <3>2. GoesOn("clock", {<<"tls handshake", "fail">>}) /\ doctor'.greeting = doctor.greeting
        BY <3>1, Zenon DEF Examined, DoctorShape, GoesOn
      <3>q. QED
        BY <3>2, Zenon
    <2>2. CASE HandshakeDone
      <3>1. GoesOn("ping", {}) /\ doctor'.greeting = doctor.greeting
        BY <2>2, Zenon DEF HandshakeDone, Examined, DoctorShape, GoesOn
      <3>q. QED
        BY <3>1, Zenon
    <2>q. QED
      BY <2>1, <2>2, Zenon
  <1>3. {<<"tls handshake", "fail">>} \cap Weighty = {}
    BY LightFinding, Zenon
  <1>4. found \cap Weighty = {}
    BY <1>3, Zenon
  <1>q. QED
    BY <1>0, <1>1, <1>4, PastPolicy, Zenon

\* Every step of the doctor and of the server it calls keeps the report true.
LEMMA DoctorKeeps ==
  ASSUME Examined, DoctorStep \/ ServerStep PROVE Examined' /\ UNCHANGED <<site, connector>>
  <1>1. UNCHANGED <<site, connector>>
    BY DEF DoctorStep, ServerStep
  <1>q. QED
    BY <1>1, CheckConfigKeeps, CheckSigningKeyKeeps, CheckSpoolKeeps, CheckMarkingKeeps,
       CheckTransportKeeps, CheckRegistrationKeeps, CheckEndpointKeeps, ConnectedKeeps,
       UndialledKeeps, GreetedKeeps, CheckPolicyKeeps, CheckCertificateFilesKeeps, HandshakeKeeps,
       HandshakeEndsKeeps
    DEF DoctorStep, ServerStep, DialRefused, DialTimesOut

----------------------------------------------------------------------------
(* The preflight, the start and ajar-up together.                          *)

\* A doctor that has just begun has nothing to answer for.
LEMMA FreshExamined ==
  ASSUME Typed', NEW pc \in {"off", "config"}, doctor' = [DoctorOff EXCEPT !.pc = pc]
  PROVE  Examined'
  <1>1. /\ doctor'.pc = pc /\ doctor'.findings = {} /\ DoctorShape'
    BY Zenon DEF DoctorOff, DoctorShape
  <1>2. pc \notin AfterConfig \cup AfterEndpoint \cup Calling
    BY Zenon DEF AfterConfig, AfterEndpoint, Calling
  <1>3. Reported' /\ Caused'
    BY <1>1, <1>2, AfterOrder, Zenon DEF Reported, Caused
  <1>q. QED
    BY <1>1, <1>3 DEF Examined

\* The initial states.
LEMMA ForetellInit ==
  ASSUME OnboardInit PROVE ForetellInv
  <1>0. {"config", "feed"} \subseteq DOMAIN site /\ site.feed \in Feeds
    BY OnboardingAssumption, Zenon DEF OnboardInit, SiteType
  <1>1. Typed
    BY <1>0 DEF OnboardInit, Typed, ConnectorOff, StartSteps
  <1>2. doctor = DoctorOff /\ doctor.pc = "off" /\ doctor.findings = {} /\ DoctorShape
    BY DEF OnboardInit, DoctorOff, DoctorShape
  <1>3. "off" \notin AfterConfig \cup AfterEndpoint \cup Calling
    BY DEF AfterConfig, AfterEndpoint, Calling
  <1>4. Reported /\ Caused
    BY <1>2, <1>3, AfterOrder DEF Reported, Caused
  <1>5. Launched
    BY <1>2, Zenon DEF OnboardInit, Launched, ConnectorOff
  <1>q. QED
    BY <1>1, <1>2, <1>4, <1>5 DEF ForetellInv, Examined

\* The doctor has a next step only while it is under way.
LEMMA DoctorUnderWay ==
  ASSUME DoctorStep \/ ServerStep PROVE doctor.pc \notin {"off", "done"}
  BY Zenon DEF DoctorStep, ServerStep, CheckConfig, CheckSigningKey, CheckSpool, CheckMarking,
     CheckTransport, CheckRegistration, CheckEndpoint, DialTimesOut, DialRefused, Undialled,
     Connected, Greeted, GreetingTimesOut, CheckPolicy, CheckCertificateFiles, CheckHandshake,
     GreetedAgain, GreetingAgainTimesOut, HandshakeFails, HandshakeTimesOut, HandshakeDone,
     PingAnswered, PingTimesOut, CheckClock

\* Before a preflight nothing was examined or started.
LEMMA NothingStarted ==
  ASSUME ForetellInv, up \notin {"unused", "preflight", "ready", "started", "refused"}
  PROVE  doctor = DoctorOff /\ connector.state = "off"
  BY Zenon DEF ForetellInv, Launched

\* A step of ajar-up that touches only its own state.
LEMMA UpAlone ==
  ASSUME ForetellInv, UNCHANGED <<site, connector, doctor>>,
         up \notin {"unused", "preflight", "ready", "started", "refused"}, up' # "preflight"
  PROVE  ForetellInv'
  <1>1. doctor = DoctorOff /\ connector.state = "off"
    BY NothingStarted
  <1>2. Launched'
    BY <1>1, Zenon DEF Launched
  <1>3. Typed' /\ doctor' = [DoctorOff EXCEPT !.pc = "off"]
    BY <1>1 DEF ForetellInv, Examined, Typed, DoctorOff
  <1>4. Examined'
    BY <1>3, FreshExamined
  <1>q. QED
    BY <1>2, <1>4 DEF ForetellInv

\* A report is begun by hand.
LEMMA RunDoctorKeeps ==
  ASSUME ForetellInv, RunDoctor PROVE ForetellInv'
  <1>1. /\ Typed' /\ doctor' = [DoctorOff EXCEPT !.pc = "config"]
        /\ connector.state = "off" /\ up' = "unused"
    BY DEF RunDoctor, Examine, ForetellInv, Examined, Typed, Launched, Done
  <1>2. Examined'
    <2>1. "config" \in {"off", "config"}
      OBVIOUS
    <2>q. QED
      BY <1>1, <2>1, FreshExamined
  <1>3. Launched'
    BY <1>1 DEF Launched, RunDoctor
  <1>q. QED
    BY <1>2, <1>3 DEF ForetellInv

\* The doctor works while no connector was started.
LEMMA DoctorRunsKeeps ==
  ASSUME ForetellInv, DoctorRuns \/ ServerAnswers PROVE ForetellInv'
  <1>1. DoctorStep \/ ServerStep
    BY DEF DoctorRuns, ServerAnswers
  <1>2. Examined' /\ UNCHANGED <<site, connector, up>>
    BY <1>1, DoctorKeeps DEF ForetellInv, DoctorRuns, ServerAnswers
  <1>3. doctor.pc \notin {"off", "done"}
    BY <1>1, DoctorUnderWay
  <1>4. doctor # DoctorOff /\ ~Done
    BY <1>3 DEF DoctorOff, Done
  <1>5. Launched'
    BY <1>2, <1>4, Zenon DEF ForetellInv, Launched
  <1>q. QED
    BY <1>2, <1>5 DEF ForetellInv

\* The report is about the site and the doctor alone.
LEMMA ExaminedStays ==
  ASSUME Examined, UNCHANGED <<site, doctor>>, Typed' PROVE Examined'
  <1>1. (Usable' <=> Usable) /\ (Unforeseen("transport")' <=> Unforeseen("transport"))
    BY DEF Usable, Unforeseen
  <1>2. Reported'
    BY <1>1, Zenon DEF Examined, Reported
  <1>3. Caused'
    BY Zenon DEF Examined, Caused
  <1>4. DoctorShape'
    BY DEF Examined, DoctorShape
  <1>q. QED
    BY <1>2, <1>3, <1>4 DEF Examined

\* A start has seven steps, and none lies before the first.
LEMMA StartStepCount ==
  /\ DOMAIN StartSteps = 1 .. 7 /\ Len(StartSteps) = 7
  /\ 1 \in 1 .. 7 /\ 1 .. 1 - 1 = {}
  BY DEF StartSteps

\* The operator starts the connector on a finished report.
LEMMA LaunchByHandKeeps ==
  ASSUME ForetellInv, LaunchByHand PROVE ForetellInv'
  <1>1. /\ connector' = [state |-> "starting", at |-> 1]
        /\ UNCHANGED <<site, doctor, up>> /\ up \in {"unused", "ready"} /\ Done
        /\ site.config \notin {"environment", "incomplete environment"}
    BY Zenon DEF LaunchByHand, Launch
  <1>2. Typed'
    BY <1>1, StartStepCount, Zenon DEF ForetellInv, Examined, Typed
  <1>3. Examined'
    BY <1>1, <1>2, ExaminedStays, Zenon DEF ForetellInv
  <1>c. connector'.state = "starting" /\ connector'.at = 1
    BY <1>1, Zenon
  <1>4. Launched'
    BY <1>1, <1>c, StartStepCount, Zenon DEF ForetellInv, Launched, Done
  <1>q. QED
    BY <1>3, <1>4 DEF ForetellInv

\* One step of main and run: the steps before it have passed.
LEMMA ConnectorStartsKeeps ==
  ASSUME ForetellInv, ConnectorStarts PROVE ForetellInv'
  <1>1. UNCHANGED <<site, doctor, up>> /\ connector.state = "starting"
    BY DEF ConnectorStarts, StartStep
  <1>2. connector \in [state : {"off", "starting", "running", "refused"}, at : 1 .. 7]
    BY StartStepCount DEF ForetellInv, Examined, Typed
  <1>d. DEFINE at == connector.at
  <1>3. CASE ~Passes(site, StartSteps[at])
    <2>1. connector' = [connector EXCEPT !.state = "refused"]
      BY <1>3 DEF ConnectorStarts, StartStep
    <2>2. connector'.state = "refused" /\ connector'.at = at /\ Typed'
      BY <1>1, <1>2, <2>1 DEF ForetellInv, Examined, Typed, StartSteps
    <2>3. Launched'
      BY <1>1, <1>3, <2>2, Zenon DEF ForetellInv, Launched, Done
    <2>q. QED
      BY <1>1, <2>2, <2>3, ExaminedStays DEF ForetellInv
  <1>4. CASE Passes(site, StartSteps[at]) /\ at = Len(StartSteps)
    <2>1. connector' = [connector EXCEPT !.state = "running"]
      BY <1>4 DEF ConnectorStarts, StartStep
    <2>2. connector'.state = "running" /\ connector'.at = at /\ Typed'
      BY <1>1, <1>2, <2>1 DEF ForetellInv, Examined, Typed, StartSteps
    <2>3. at = 7 /\ DOMAIN StartSteps = 1 .. 7
      BY <1>4, StartStepCount
    <2>4. \A i \in DOMAIN StartSteps : Passes(site, StartSteps[i])
      <3>1. \A i \in 1 .. at - 1 : Passes(site, StartSteps[i])
        BY <1>1, Zenon DEF ForetellInv, Launched
      <3>2. ASSUME NEW i \in 1 .. 7 PROVE i \in 1 .. at - 1 \/ i = at
        BY <2>3
      <3>q. QED
        BY <1>4, <2>3, <3>1, <3>2
    <2>5. Launched'
      BY <1>1, <2>2, <2>4, Zenon DEF ForetellInv, Launched, Done
    <2>q. QED
      BY <1>1, <2>2, <2>5, ExaminedStays DEF ForetellInv
  <1>5. CASE Passes(site, StartSteps[at]) /\ at # Len(StartSteps)
    <2>1. connector' = [connector EXCEPT !.at = @ + 1]
      BY <1>5 DEF ConnectorStarts, StartStep
    <2>2. at \in 1 .. 6
      BY <1>2, <1>5, StartStepCount
    <2>3. connector'.state = "starting" /\ connector'.at = at + 1 /\ Typed'
      BY <1>1, <1>2, <2>1, <2>2, StartStepCount DEF ForetellInv, Examined, Typed
    <2>4. \A i \in 1 .. (at + 1) - 1 : Passes(site, StartSteps[i])
      <3>1. \A i \in 1 .. at - 1 : Passes(site, StartSteps[i])
        BY <1>1, Zenon DEF ForetellInv, Launched
      <3>2. ASSUME NEW i \in 1 .. (at + 1) - 1 PROVE i \in 1 .. at - 1 \/ i = at
        BY <2>2
      <3>q. QED
        BY <1>5, <3>1, <3>2
    <2>5. Launched'
      BY <1>1, <2>3, <2>4, Zenon DEF ForetellInv, Launched, Done
    <2>q. QED
      BY <1>1, <2>3, <2>5, ExaminedStays DEF ForetellInv
  <1>q. QED
    BY <1>3, <1>4, <1>5

\* ajar-up writes the config, and the preflight begins on the prepared site.
LEMMA WriteConfigKeeps ==
  ASSUME ForetellInv, WriteConfig PROVE ForetellInv'
  <1>1. CASE Exists("seed")
    <2>1. /\ site' = PreparedSite /\ doctor' = [DoctorOff EXCEPT !.pc = "config"]
          /\ up' = "preflight" /\ UNCHANGED connector
      BY <1>1, Zenon DEF WriteConfig
    <2>2. {"config", "feed"} \subseteq DOMAIN site /\ site.feed \in Feeds
      BY DEF ForetellInv, Examined, Typed
    <2>3. DOMAIN PreparedSite = DOMAIN site /\ PreparedSite.feed = site.feed
      BY <2>2, ZenonT(40) DEF PreparedSite
    <2>4. PreparedSite.config \in {"good", "unknown field"}
      BY <2>2 DEF PreparedSite
    <2>5. Typed' /\ connector.state = "off"
      BY <2>1, <2>2, <2>3, NothingStarted, Zenon DEF ForetellInv, Examined, Typed, WriteConfig
    <2>6. Launched'
      BY <2>1, <2>4, <2>5, Zenon DEF Launched
    <2>q. QED
      BY <2>1, <2>5, <2>6, FreshExamined DEF ForetellInv
  <1>2. CASE ~Exists("seed")
    BY <1>2, UpAlone, Zenon DEF WriteConfig
  <1>q. QED
    BY <1>1, <1>2

\* ajar-up becomes the connector once the preflight is over.
LEMMA FinishProducerKeeps ==
  ASSUME ForetellInv, FinishProducer PROVE ForetellInv'
  <1>1. /\ UNCHANGED <<site, doctor>> /\ Done /\ up = "preflight" /\ connector.state = "off"
        /\ site.config \in {"good", "unknown field"} /\ up' # "preflight"
    BY Zenon DEF FinishProducer, ForetellInv, Launched
  <1>2. CASE UNCHANGED connector
    <2>1. Typed' /\ up' \in {"ready", "refused", "started"}
      BY <1>1, <1>2, Zenon DEF ForetellInv, Examined, Typed, FinishProducer
    <2>2. Launched'
      BY <1>1, <1>2, <2>1, Zenon DEF Launched
    <2>q. QED
      BY <1>1, <2>1, <2>2, ExaminedStays, Zenon DEF ForetellInv
  <1>3. CASE up' = "started" /\ Launch
    <2>1. connector' = [state |-> "starting", at |-> 1]
      BY <1>3 DEF Launch
    <2>2. Typed'
      BY <1>1, <2>1, StartStepCount, Zenon DEF ForetellInv, Examined, Typed
    <2>c. connector'.state = "starting" /\ connector'.at = 1
      BY <2>1
    <2>3. Launched'
      BY <1>1, <1>3, <2>c, StartStepCount, Zenon DEF Launched, Done
    <2>q. QED
      BY <1>1, <2>2, <2>3, ExaminedStays, Zenon DEF ForetellInv
  <1>q. QED
    BY <1>2, <1>3 DEF FinishProducer

\* The tap's connection changes the environment only.
LEMMA ConnectTapKeeps ==
  ASSUME ForetellInv, ConnectTap PROVE ForetellInv'
  <1>1. doctor = DoctorOff /\ connector.state = "off"
    BY NothingStarted DEF ConnectTap
  <1>2. DOMAIN site' = DOMAIN site /\ site'.feed = site.feed
    BY DEF ConnectTap, ForetellInv, Examined, Typed
  <1>3. Typed'
    BY <1>2 DEF ConnectTap, ForetellInv, Examined, Typed
  <1>4. doctor' = [DoctorOff EXCEPT !.pc = "off"]
    BY <1>1 DEF ConnectTap, DoctorOff
  <1>5. Examined'
    BY <1>3, <1>4, FreshExamined
  <1>6. Launched'
    BY <1>1 DEF ConnectTap, Launched
  <1>q. QED
    BY <1>5, <1>6 DEF ForetellInv

\* A run is left: its report goes with it.
LEMMA LeaveKeeps ==
  ASSUME ForetellInv, Leave PROVE ForetellInv'
  <1>1. connector.state = "off" /\ doctor' = [DoctorOff EXCEPT !.pc = "off"] /\ doctor' = DoctorOff
    BY DEF Leave, ConnectorOff, DoctorOff
  <1>2. Typed'
    BY DEF Leave, ForetellInv, Examined, Typed
  <1>3. Examined'
    BY <1>1, <1>2, FreshExamined
  <1>4. Launched'
    BY <1>1 DEF Leave, Launched
  <1>q. QED
    BY <1>3, <1>4 DEF ForetellInv

\* Every step keeps the invariant.
LEMMA ForetellNext ==
  ASSUME ForetellInv, OnboardNext PROVE ForetellInv'
  <1>1. CASE RunDoctor
    BY <1>1, RunDoctorKeeps
  <1>2. CASE DoctorRuns \/ ServerAnswers
    BY <1>2, DoctorRunsKeeps
  <1>3. CASE LaunchByHand
    BY <1>3, LaunchByHandKeeps
  <1>4. CASE ConnectorStarts
    BY <1>4, ConnectorStartsKeeps
  <1>5. CASE \E i \in Invocations : RunUp(i)
    BY <1>5, UpAlone DEF RunUp
  <1>6. CASE UpStep
    <2>1. CASE WriteConfig
      BY <2>1, WriteConfigKeeps
    <2>2. CASE FinishProducer
      BY <2>2, FinishProducerKeeps
    <2>3. CASE ConnectTap
      BY <2>3, ConnectTapKeeps
    <2>4. CASE UnpackEntry \/ VerifyManifest \/ VerifyChecksums \/ LockDown
      BY <2>4, UpAlone DEF UnpackEntry, VerifyManifest, VerifyChecksums, LockDown, Role
    <2>5. CASE PlaceSeed \/ LockSeed \/ Consume
      BY <2>5, UpAlone, Zenon DEF PlaceSeed, LockSeed, Consume
    <2>q. QED
      BY <1>6, <2>1, <2>2, <2>3, <2>4, <2>5 DEF UpStep
  <1>7. CASE Leave
    BY <1>7, LeaveKeeps
  <1>8. CASE \E m \in {"event", "not an event", "forged"} : TapMessage(m)
    BY <1>8, UpAlone, Zenon DEF TapMessage
  <1>q. QED
    BY <1>1, <1>2, <1>3, <1>4, <1>5, <1>6, <1>7, <1>8, Zenon DEF OnboardNext

\* A stuttering step keeps it.
LEMMA ForetellStutter ==
  ASSUME ForetellInv, UNCHANGED upVars PROVE ForetellInv'
  <1>1. Typed' /\ UNCHANGED <<site, doctor>>
    BY DEF upVars, ForetellInv, Examined, Typed
  <1>2. Launched'
    BY Zenon DEF upVars, ForetellInv, Launched, Done
  <1>q. QED
    BY <1>1, <1>2, ExaminedStays DEF ForetellInv

\* The steps by number, and the check each one makes.
LEMMA StepNames ==
  /\ StartSteps[1] = "config" /\ StartSteps[2] = "mapping" /\ StartSteps[3] = "transport"
  /\ StartSteps[4] = "signing key" /\ StartSteps[5] = "tls policy"
  /\ StartSteps[6] = "endpoint" /\ StartSteps[7] = "spool"
  BY DEF StartSteps

\* Each step passes as its check does.
LEMMA StepChecks ==
  /\ Passes(site, "config") <=> ConfigLoads(site)
  /\ Passes(site, "transport") <=> Opens(site)
  /\ Passes(site, "signing key") <=> KeyLoads(site)
  /\ Passes(site, "tls policy") <=> TlsAccepted(site)
  /\ Passes(site, "endpoint") <=> UrlParses(site)
  /\ Passes(site, "spool") <=> SpoolOpens(site)
  BY DEF Passes, ConfigLoads, Opens, KeyLoads, TlsAccepted, UrlParses, SpoolOpens

\* The invariant gives the property: a refusal comes at the first step that does
\* not pass, so the config was loaded if a later step refused.
LEMMA ForetellImplies ==
  ASSUME ForetellInv PROVE PreflightForetells
  <1>1. ASSUME Done, connector.state = "refused"
        PROVE  LET step == StartSteps[connector.at] IN
               \/ Unforeseen(step)
               \/ <<step, "fail">> \in doctor.findings
               \/ step = "tls policy" /\ ~UrlParses(site) /\ <<"endpoint", "fail">> \in doctor.findings
    <2>d. DEFINE step == StartSteps[connector.at]
    <2>1. /\ ~Passes(site, step) /\ connector.at \in 1 .. 7
          /\ \A i \in 1 .. connector.at - 1 : Passes(site, StartSteps[i])
          /\ site.config \notin {"environment", "incomplete environment"}
      BY <1>1, StartStepCount, Zenon DEF ForetellInv, Launched, Examined, Typed
    <2>2. /\ doctor.pc \in AfterConfig /\ doctor.pc \in AfterKey /\ doctor.pc \in AfterSpool
          /\ doctor.pc \in AfterTransport /\ doctor.pc \in AfterEndpoint /\ doctor.pc \in AfterPolicy
      BY <1>1, AfterOrder, Zenon DEF Done, AfterPolicy, AfterEndpoint
    <2>3. Reported
      BY DEF ForetellInv, Examined
    <2>4. CASE connector.at = 1
      BY <2>1, <2>2, <2>3, <2>4, StepNames, StepChecks, Zenon DEF Reported, Usable, ConfigLoads
    <2>5. CASE connector.at # 1
      <3>0. connector.at \in {2, 3, 4, 5, 6, 7}
        <4>1. connector.at \in 1 .. 7 /\ connector.at # 1
          BY <2>1, <2>5, Zenon
        <4>q. QED
          BY <4>1
      <3>1. ConfigLoads(site) /\ Usable
        <4>1. 1 \in 1 .. connector.at - 1
          BY <3>0
        <4>q. QED
          BY <2>1, <4>1, StepNames, StepChecks, Zenon DEF Usable
      <3>2. CASE connector.at = 2
        BY <3>2, StepNames, Zenon DEF Unforeseen
      <3>3. CASE connector.at = 3
        BY <2>1, <2>2, <2>3, <3>1, <3>3, StepNames, StepChecks, Zenon DEF Reported
      <3>4. CASE connector.at = 4
        BY <2>1, <2>2, <2>3, <3>1, <3>4, StepNames, StepChecks, Zenon DEF Reported
      <3>5. CASE connector.at = 5
        BY <2>1, <2>2, <2>3, <3>1, <3>5, StepNames, StepChecks, Zenon DEF Reported
      <3>6. CASE connector.at = 6
        BY <2>1, <2>2, <2>3, <3>1, <3>6, StepNames, StepChecks, Zenon DEF Reported
      <3>7. CASE connector.at = 7
        BY <2>1, <2>2, <2>3, <3>1, <3>7, StepNames, StepChecks, Zenon DEF Reported
      <3>q. QED
        BY <3>0, <3>2, <3>3, <3>4, <3>5, <3>6, <3>7, Zenon
    <2>q. QED
      BY <2>4, <2>5, Zenon
  <1>2. ASSUME Done, connector.state = "running"
        PROVE  /\ <<"config", "fail">> \notin doctor.findings
               /\ <<"transport", "fail">> \in doctor.findings => site.feed[1] \in {"serial", "dds"}
               /\ <<"tls policy", "fail">> \in doctor.findings => doctor.greeting = "tls required"
    <2>1. /\ Passes(site, StartSteps[1]) /\ Passes(site, StartSteps[3])
          /\ Passes(site, StartSteps[5])
      <3>1. \A i \in 1 .. 7 : Passes(site, StartSteps[i])
        BY <1>2, StartStepCount, Zenon DEF ForetellInv, Launched
      <3>2. 1 \in 1 .. 7 /\ 3 \in 1 .. 7 /\ 5 \in 1 .. 7
        OBVIOUS
      <3>q. QED
        BY <3>1, <3>2
    <2>2. ConfigLoads(site) /\ Opens(site) /\ TlsAccepted(site)
      BY <2>1, StepNames, StepChecks, Zenon
    <2>q. QED
      BY <2>2, Zenon DEF ForetellInv, Examined, Caused
  <1>q. QED
    BY <1>1, <1>2, Zenon DEF PreflightForetells

\* For every set of sites and packets, the preflight foretells the start: the
\* doctor's own copies of the checks agree with what Config::load, open_source,
\* key::load, nats::connect and Spool::open then do, in their order.
THEOREM PreflightForetellsHolds == OnboardSpec => []PreflightForetells
  <1>1. OnboardInit => ForetellInv
    BY ForetellInit
  <1>2. ForetellInv /\ [OnboardNext]_upVars => ForetellInv'
    BY ForetellNext, ForetellStutter
  <1>3. ForetellInv => PreflightForetells
    BY ForetellImplies
  <1>q. QED
    BY <1>1, <1>2, <1>3, PTL DEF OnboardSpec

----------------------------------------------------------------------------
(* The inductive invariant of ajar-up.                                     *)

\* Where a run is once the manifest's signature, then the pins are verified, then
\* the private keys locked down.
AfterSignature ==
  HandedOver \cup {"checksums", "lock", "producer", "lock seed", "write config", "preflight",
                   "consumer", "connect"}
AfterPins == AfterSignature \ {"checksums"}
AfterLock == AfterPins \ {"lock"}

UpShape ==
  /\ dir = [f \in FileNames |-> dir[f]]
  /\ run = [packet |-> run.packet, options |-> run.options, next |-> run.next,
            manifest |-> run.manifest]
  /\ tap = [printed |-> tap.printed, accepted |-> tap.accepted, rejected |-> tap.rejected]

Signed ==
  /\ run.manifest = dir["manifest.json"].of
  /\ dir["manifest.sig"].of.over = run.manifest
  /\ dir["manifest.sig"].of.by = dir["egress.pub"].of

Pinned ==
  \A f \in DOMAIN run.manifest.pins :
    \/ Exists(f) /\ dir[f].of = run.manifest.pins[f]
    \/ f = "seed" /\ run.options.signing_key /\ dir[f].of = "registered seed"

\* Between the copy of a seed and its chmod the seed alone is open.
Locked ==
  \A f \in PrivateFiles :
    Named(f) /\ Exists(f) => dir[f].mode = 600 \/ (f = "seed" /\ up = "lock seed")

VerifiedInv ==
  /\ UpShape
  /\ tap.printed \subseteq {"event"}
  /\ up \in AfterSignature => Signed
  /\ up \in AfterPins => Pinned
  /\ up \in AfterLock => Locked
  /\ up \in {"preflight", "ready", "started"} => Exists("seed")
  /\ up \in {"ready", "started"} => Done /\ Healthy
  /\ up = "wrote http" => run.manifest.egress

\* A step that leaves the directory, the run and the tap alone, and does not go
\* behind a check it has not made.
LEMMA VerifiedStays ==
  ASSUME VerifiedInv, UNCHANGED <<dir, run, tap>>,
         up' \in AfterSignature => up \in AfterSignature,
         up' \in AfterPins => up \in AfterPins,
         up' \in AfterLock => up \in AfterLock /\ (up = "lock seed" => up' = "lock seed"),
         up' \in {"preflight", "ready", "started"} => Exists("seed"),
         up' \in {"ready", "started"} => Done' /\ Healthy',
         up' = "wrote http" => run.manifest.egress
  PROVE  VerifiedInv'
  <1>1. UpShape' /\ tap'.printed \subseteq {"event"}
    BY Zenon DEF VerifiedInv, UpShape
  <1>2. up' \in AfterSignature => Signed'
    BY Zenon DEF VerifiedInv, Signed
  <1>3. up' \in AfterPins => Pinned'
    BY Zenon DEF VerifiedInv, Pinned, Exists
  <1>4. up' \in AfterLock => Locked'
    BY ZenonT(40) DEF VerifiedInv, Locked, Named, Exists
  <1>q. QED
    BY <1>1, <1>2, <1>3, <1>4, Zenon DEF VerifiedInv, Exists

\* The ways into each part of a run.
LEMMA PartsOfARun ==
  /\ {"unused", "idle", "unpack", "refused"} \cap AfterSignature = {}
  /\ AfterPins \subseteq AfterSignature /\ AfterLock \subseteq AfterPins
  /\ "checksums" \in AfterSignature \ AfterPins /\ "lock" \in AfterPins \ AfterLock
  /\ {"producer", "lock seed", "write config", "preflight", "consumer", "connect"} \subseteq AfterLock
  /\ HandedOver \subseteq AfterLock /\ {"unused", "idle", "refused"} \cap HandedOver = {}
  /\ "preflight" \notin HandedOver /\ "lock seed" \notin HandedOver
  BY Zenon DEF AfterSignature, AfterPins, AfterLock, HandedOver

\* A run that is refused or not yet verified claims nothing of the directory.
LEMMA UnverifiedYet ==
  ASSUME UpShape', tap'.printed \subseteq {"event"}, up' \in {"unused", "idle", "unpack", "refused"}
  PROVE  VerifiedInv'
  BY PartsOfARun, Zenon DEF VerifiedInv

\* RunUp, UnpackEntry and Leave: a new run, its unpacking, and its end.
LEMMA UnpackingKeeps ==
  ASSUME VerifiedInv, (\E i \in Invocations : RunUp(i)) \/ UnpackEntry \/ Leave
  PROVE  VerifiedInv'
  <1>1. CASE \E i \in Invocations : RunUp(i)
    <2>1. PICK i \in Invocations : RunUp(i)
      BY <1>1
    <2>2. run' = [packet |-> i.packet, options |-> i.options, next |-> 1, manifest |-> Nothing]
      BY <2>1, Zenon DEF RunUp, NoRun
    <2>3. UpShape'
      BY <2>1, <2>2, Zenon DEF VerifiedInv, UpShape, RunUp
    <2>q. QED
      BY <2>1, <2>3, UnverifiedYet, Zenon DEF RunUp, VerifiedInv
  <1>2. CASE UnpackEntry
    <2>1. up' \in {"unpack", "refused"} /\ UNCHANGED tap
      BY <1>2 DEF UnpackEntry
    <2>2. dir' = [f \in FileNames |-> dir'[f]]
      BY <1>2 DEF UnpackEntry, VerifiedInv, UpShape
    <2>3. run' = [packet |-> run'.packet, options |-> run'.options, next |-> run'.next,
                  manifest |-> run'.manifest]
      <3>1. run' = run \/ run' = [run EXCEPT !.next = @ + 1]
        BY <1>2 DEF UnpackEntry
      <3>q. QED
        BY <3>1, Zenon DEF VerifiedInv, UpShape
    <2>4. UpShape'
      BY <2>1, <2>2, <2>3, Zenon DEF VerifiedInv, UpShape
    <2>q. QED
      BY <2>1, <2>4, UnverifiedYet, Zenon DEF VerifiedInv
  <1>3. CASE Leave
    <2>1. /\ run' = [packet |-> Nothing, options |-> Nothing, next |-> 1, manifest |-> Nothing]
          /\ tap' = [printed |-> {}, accepted |-> 0, rejected |-> 0]
          /\ UNCHANGED dir /\ up' = "idle"
      BY <1>3 DEF Leave, NoRun, NoTap
    <2>2. UpShape' /\ tap'.printed \subseteq {"event"}
      BY <2>1, Zenon DEF VerifiedInv, UpShape
    <2>q. QED
      BY <2>1, <2>2, UnverifiedYet
  <1>q. QED
    BY <1>1, <1>2, <1>3

\* The signature, and the manifest that is parsed under it.
LEMMA VerifyManifestKeeps ==
  ASSUME VerifiedInv, VerifyManifest PROVE VerifiedInv'
  <1>0. UNCHANGED <<dir, tap>>
    BY DEF VerifyManifest
  <1>1. CASE up' = "refused"
    <2>1. run' = run
      BY <1>1 DEF VerifyManifest
    <2>q. QED
      BY <1>0, <1>1, <2>1, UnverifiedYet, Zenon DEF VerifiedInv, UpShape
  <1>2. CASE up' = "checksums"
    <2>1. SignatureVerifies /\ run' = [run EXCEPT !.manifest = dir["manifest.json"].of]
      BY <1>2 DEF VerifyManifest
    <2>2. /\ run'.manifest = dir["manifest.json"].of
          /\ run' = [packet |-> run'.packet, options |-> run'.options, next |-> run'.next,
                     manifest |-> run'.manifest]
      BY <2>1, Zenon DEF VerifiedInv, UpShape
    <2>3. UpShape' /\ tap'.printed \subseteq {"event"}
      BY <1>0, <2>2, Zenon DEF VerifiedInv, UpShape
    <2>4. Signed'
      BY <1>0, <2>1, <2>2 DEF Signed, SignatureVerifies
    <2>q. QED
      BY <1>2, <2>3, <2>4, PartsOfARun, Zenon DEF VerifiedInv
  <1>q. QED
    BY <1>1, <1>2 DEF VerifyManifest

\* The pins.
LEMMA VerifyChecksumsKeeps ==
  ASSUME VerifiedInv, VerifyChecksums PROVE VerifiedInv'
  <1>1. UNCHANGED <<dir, run, tap>> /\ up = "checksums"
    BY DEF VerifyChecksums
  <1>2. UpShape' /\ Signed' /\ tap'.printed \subseteq {"event"}
    BY <1>1, PartsOfARun, Zenon DEF VerifiedInv, UpShape, Signed
  <1>3. CASE PinsMatch
    <2>1. Pinned'
      BY <1>1, <1>3, Zenon DEF PinsMatch, Pinned, Exists
    <2>2. up' = "lock"
      BY <1>3 DEF VerifyChecksums
    <2>q. QED
      BY <1>2, <2>1, <2>2, PartsOfARun, Zenon DEF VerifiedInv
  <1>4. CASE ~PinsMatch
    BY <1>2, <1>4, UnverifiedYet DEF VerifyChecksums
  <1>q. QED
    BY <1>3, <1>4

\* A chmod leaves every file what it holds, and locks what it names.
LEMMA ChmodLocks ==
  ASSUME NEW F \in SUBSET PrivateFiles, dir' = Chmod(F)
  PROVE  /\ dir' = [f \in FileNames |-> dir'[f]]
         /\ \A f : Exists(f)' <=> Exists(f)
         /\ \A f \in SignedFiles : dir'[f] = dir[f]
         /\ \A f \in FileNames : Exists(f) => dir'[f].of = dir[f].of
         /\ \A f \in F : Exists(f) => dir'[f].mode = 600
         /\ \A f \in FileNames \ F : dir'[f] = dir[f]
         /\ \A f \in FileNames : ~Exists(f) => dir'[f] = dir[f]
  <1>1. /\ dir' = [f \in FileNames |-> dir'[f]]
        /\ \A f \in FileNames : f \in F /\ Exists(f) => dir'[f] = Holding(dir[f].of, 600)
        /\ \A f \in FileNames : ~(f \in F /\ Exists(f)) => dir'[f] = dir[f]
    BY DEF Chmod
  <1>2. SignedFiles \cap PrivateFiles = {} /\ SignedFiles \subseteq FileNames
    BY DEF SignedFiles, PrivateFiles, FileNames
  <1>3. PrivateFiles \subseteq FileNames
    BY DEF PrivateFiles, FileNames, CertFiles
  <1>4. \A o : Holding(o, 600).of = o /\ Holding(o, 600).mode = 600 /\ Holding(o, 600).present
    BY DEF Holding
  <1>5. \A f : Exists(f)' <=> Exists(f)
    BY <1>1, <1>4 DEF Exists
  <1>q. QED
    BY <1>1, <1>2, <1>3, <1>4, <1>5

\* A chmod leaves what was verified so.
LEMMA ChmodVerified ==
  ASSUME VerifiedInv, UNCHANGED <<run, tap>>, NEW F \in SUBSET PrivateFiles, dir' = Chmod(F),
         Signed, Pinned
  PROVE  UpShape' /\ Signed' /\ Pinned' /\ tap'.printed \subseteq {"event"}
  <1>1. UpShape' /\ tap'.printed \subseteq {"event"}
    BY ChmodLocks, Zenon DEF VerifiedInv, UpShape
  <1>2. Signed'
    BY ChmodLocks DEF Signed, SignedFiles
  <1>3. Pinned'
    <2>1. SUFFICES ASSUME NEW f \in DOMAIN run.manifest.pins
                   PROVE  \/ Exists(f)' /\ dir'[f].of = run.manifest.pins[f]
                          \/ f = "seed" /\ run.options.signing_key /\ dir'[f].of = "registered seed"
      BY Zenon DEF Pinned
    <2>2. CASE Exists(f)
      <3>1. f \in FileNames
        BY <2>2 DEF Exists
      <3>2. dir'[f].of = dir[f].of /\ Exists(f)'
        BY <2>2, <3>1, ChmodLocks
      <3>q. QED
        BY <3>2, Zenon DEF Pinned
    <2>3. CASE ~Exists(f)
      <3>1. f = "seed" /\ run.options.signing_key /\ dir[f].of = "registered seed"
        BY <2>3, Zenon DEF Pinned
      <3>2. dir'[f] = dir[f]
        BY <2>3, <3>1, ChmodLocks, Zenon DEF FileNames
      <3>q. QED
        BY <3>1, <3>2, Zenon
    <2>q. QED
      BY <2>2, <2>3, Zenon
  <1>q. QED
    BY <1>1, <1>2, <1>3

\* LockDown: the private keys that the manifest names.
LEMMA LockDownKeeps ==
  ASSUME VerifiedInv, LockDown PROVE VerifiedInv'
  <1>d. DEFINE F == PrivateFiles \cap run.manifest.keys
  <1>1. /\ UNCHANGED <<run, tap>> /\ up = "lock" /\ dir' = Chmod(F)
        /\ F \in SUBSET PrivateFiles
    BY DEF LockDown
  <1>2. up' \in {"producer", "consumer", "refused"}
    BY DEF LockDown, Role
  <1>3. Signed /\ Pinned
    BY <1>1, PartsOfARun, Zenon DEF VerifiedInv
  <1> HIDE DEF F
  <1>4. UpShape' /\ Signed' /\ Pinned' /\ tap'.printed \subseteq {"event"}
    BY <1>1, <1>3, ChmodVerified
  <1>5. \A f \in F : Exists(f)' => dir'[f].mode = 600
    BY <1>1, ChmodLocks
  <1>6. Locked'
    BY <1>1, <1>5, ZenonT(40) DEF Locked, Named, F
  <1>q. QED
    BY <1>2, <1>4, <1>6, Zenon DEF VerifiedInv, HandedOver

\* PlaceSeed: the operator's seed takes the place of the packet's.
LEMMA PlaceSeedKeeps ==
  ASSUME VerifiedInv, PlaceSeed PROVE VerifiedInv'
  <1>1. UNCHANGED <<run, tap>> /\ up = "producer"
    BY Zenon DEF PlaceSeed
  <1>2. CASE dir' = dir /\ up' \in {"refused", "write config"}
    BY <1>1, <1>2, VerifiedStays, PartsOfARun, Zenon
  <1>3. CASE /\ dir' = [dir EXCEPT !["seed"] = Holding("registered seed", 644)]
             /\ up' = "lock seed" /\ run.options.signing_key
    <2>1. Signed /\ Pinned /\ Locked
      BY <1>1, PartsOfARun, Zenon DEF VerifiedInv
    <2>2. /\ dir' = [f \in FileNames |-> dir'[f]] /\ "seed" \in FileNames
          /\ \A f \in FileNames \ {"seed"} : dir'[f] = dir[f]
          /\ dir'["seed"] = Holding("registered seed", 644)
      <3>1. dir = [f \in FileNames |-> dir[f]] /\ "seed" \in FileNames
        BY Zenon DEF VerifiedInv, UpShape, FileNames
      <3>q. QED
        BY <1>3, <3>1, ZenonT(40)
    <2>3. dir'["seed"].present /\ dir'["seed"].of = "registered seed"
      <3>1. dir'["seed"] = Holding("registered seed", 644)
        BY <2>2, Zenon
      <3>2. Holding("registered seed", 644).present
        BY DEF Holding
      <3>3. Holding("registered seed", 644).of = "registered seed"
        BY DEF Holding
      <3>q. QED
        BY ONLY <3>1, <3>2, <3>3, ZenonT(40)
    <2>4. UpShape' /\ tap'.printed \subseteq {"event"}
      BY <1>1, <2>2, Zenon DEF VerifiedInv, UpShape
    <2>5. Signed'
      <3>1. /\ dir'["manifest.json"] = dir["manifest.json"]
            /\ dir'["manifest.sig"] = dir["manifest.sig"]
            /\ dir'["egress.pub"] = dir["egress.pub"]
        <4>1. {"manifest.json", "manifest.sig", "egress.pub"} \subseteq FileNames \ {"seed"}
          BY DEF FileNames, SignedFiles
        <4>q. QED
          BY <2>2, <4>1, ZenonT(40)
      <3>q. QED
        BY <1>1, <2>1, <3>1 DEF Signed
    <2>6. \A f : f # "seed" => (Exists(f)' <=> Exists(f)) /\ (Exists(f) => dir'[f] = dir[f])
      BY <2>2, ZenonT(40) DEF Exists
    <2>7. Pinned'
      BY <1>1, <1>3, <2>1, <2>3, <2>6, Zenon DEF Pinned
    <2>8. Locked'
      <3>1. SUFFICES ASSUME NEW f \in PrivateFiles, Named(f)', Exists(f)', f # "seed"
                     PROVE  dir'[f].mode = 600
        BY <1>3, ZenonT(40) DEF Locked
      <3>2. Named(f) /\ Exists(f) /\ dir'[f] = dir[f]
        BY <1>1, <2>6, <3>1 DEF Named
      <3>3. dir[f].mode = 600
        BY <2>1, <3>1, <3>2, ZenonT(40) DEF Locked
      <3>q. QED
        BY <3>2, <3>3
    <2>q. QED
      BY <1>3, <2>4, <2>5, <2>7, <2>8, Zenon DEF VerifiedInv, HandedOver
  <1>q. QED
    BY <1>2, <1>3, ZenonT(40) DEF PlaceSeed

\* LockSeed: and is locked down like it.
LEMMA LockSeedKeeps ==
  ASSUME VerifiedInv, LockSeed PROVE VerifiedInv'
  <1>1. /\ UNCHANGED <<run, tap>> /\ up = "lock seed" /\ dir' = Chmod({"seed"})
        /\ up' = "write config" /\ {"seed"} \in SUBSET PrivateFiles
    BY Zenon DEF LockSeed, PrivateFiles
  <1>2. Signed /\ Pinned /\ Locked
    BY <1>1, PartsOfARun, Zenon DEF VerifiedInv
  <1>3. UpShape' /\ Signed' /\ Pinned' /\ tap'.printed \subseteq {"event"}
    BY <1>1, <1>2, ChmodVerified, Zenon
  <1>4. Exists("seed")' => dir'["seed"].mode = 600
    <2>1. \A f \in {"seed"} : Exists(f)' => dir'[f].mode = 600
      BY <1>1, ChmodLocks, ZenonT(40)
    <2>q. QED
      BY <2>1
  <1>5. (Exists("key")' <=> Exists("key")) /\ dir'["key"] = dir["key"]
    <2>1. "key" \in FileNames \ {"seed"}
      BY DEF FileNames, CertFiles
    <2>2. (\A f : Exists(f)' <=> Exists(f)) /\ \A f \in FileNames \ {"seed"} : dir'[f] = dir[f]
      BY <1>1, ChmodLocks, Zenon
    <2>q. QED
      BY <2>1, <2>2
  <1>6. (Named("key") /\ Exists("key"))' => dir'["key"].mode = 600
    <2>1. "key" # "seed" /\ "key" \in PrivateFiles
      BY DEF PrivateFiles
    <2>2. Named("key") /\ Exists("key") => dir["key"].mode = 600
      BY <1>2, <2>1, Zenon DEF Locked
    <2>q. QED
      BY <1>1, <1>5, <2>2, ZenonT(40) DEF Named
  <1>7. Locked'
    <2>1. ASSUME NEW f \in PrivateFiles, (Named(f) /\ Exists(f))'
          PROVE  (dir[f].mode = 600 \/ (f = "seed" /\ up = "lock seed"))'
      <3>1. CASE f = "seed"
        BY <1>4, <2>1, <3>1, Zenon
      <3>2. CASE f = "key"
        BY <1>6, <2>1, <3>2
      <3>q. QED
        BY <3>1, <3>2, Zenon DEF PrivateFiles
    <2>q. QED
      BY <2>1, Zenon DEF Locked
  <1>q. QED
    BY <1>1, <1>3, <1>7, Zenon DEF VerifiedInv, HandedOver

\* The steps that only read the directory.
LEMMA HandingOverKeeps ==
  ASSUME VerifiedInv, WriteConfig \/ FinishProducer \/ Consume \/ ConnectTap
  PROVE  VerifiedInv'
  <1>1. CASE WriteConfig
    <2>1. /\ UNCHANGED <<dir, run, tap>> /\ up = "write config"
          /\ up' = "refused" \/ (up' = "preflight" /\ Exists("seed"))
      BY <1>1, Zenon DEF WriteConfig
    <2>q. QED
      BY <2>1, VerifiedStays, PartsOfARun, Zenon
  <1>2. CASE FinishProducer
    <2>1. /\ UNCHANGED <<dir, run, tap, doctor>> /\ up = "preflight" /\ Exists("seed")
          /\ up' = "refused" \/ (up' \in {"ready", "started"} /\ Done /\ Healthy)
      BY <1>2 DEF FinishProducer, VerifiedInv
    <2>2. up' \in {"ready", "started"} => Done' /\ Healthy'
      BY <2>1 DEF Done, Healthy
    <2>q. QED
      BY <2>1, <2>2, VerifiedStays, PartsOfARun, Zenon
  <1>3. CASE Consume
    <2>1. /\ UNCHANGED <<dir, run, tap>> /\ up = "consumer"
          /\ up' \in {"refused", "checked", "wrote tak", "wrote http", "connect"}
      BY <1>3, Zenon DEF Consume
    <2>2. up' = "wrote http" => run.manifest.egress
      BY <1>3, Zenon DEF Consume
    <2>q. QED
      BY <2>1, <2>2, VerifiedStays, PartsOfARun, Zenon
  <1>4. CASE ConnectTap
    <2>1. UNCHANGED <<dir, run, tap>> /\ up = "connect" /\ up' \in {"tapping", "refused"}
      BY <1>4 DEF ConnectTap
    <2>q. QED
      BY <2>1, VerifiedStays, PartsOfARun, Zenon
  <1>q. QED
    BY <1>1, <1>2, <1>3, <1>4

\* The doctor and the connector leave ajar-up alone, and a finished report is final.
LEMMA OthersKeep ==
  ASSUME VerifiedInv,
         RunDoctor \/ DoctorRuns \/ ServerAnswers \/ LaunchByHand \/ ConnectorStarts
  PROVE  VerifiedInv'
  <1>1. UNCHANGED <<dir, run, tap, up>>
    BY Zenon DEF RunDoctor, DoctorRuns, ServerAnswers, LaunchByHand, ConnectorStarts
  <1>2. up' \in {"ready", "started"} => Done' /\ Healthy'
    <2>1. CASE up \in {"ready", "started"}
      <3>1. Done /\ Healthy
        BY <2>1, Zenon DEF VerifiedInv
      <3>2. ~RunDoctor
        BY <2>1 DEF RunDoctor
      <3>3. ~DoctorRuns /\ ~ServerAnswers
        BY <3>1, DoctorUnderWay DEF DoctorRuns, ServerAnswers, Done
      <3>4. UNCHANGED doctor
        BY <3>2, <3>3, Zenon DEF LaunchByHand, ConnectorStarts
      <3>q. QED
        BY <3>1, <3>4 DEF Done, Healthy
    <2>q. QED
      BY <1>1, <2>1
  <1>q. QED
    BY <1>1, <1>2, VerifiedStays, Zenon DEF VerifiedInv

\* The tap prints what verifies and decodes.
LEMMA TapMessageKeeps ==
  ASSUME VerifiedInv, NEW m, TapMessage(m) PROVE VerifiedInv'
  <1>1. UNCHANGED <<dir, run, up>> /\ up = "tapping"
    BY DEF TapMessage
  <1>2. /\ tap' = [printed |-> tap'.printed, accepted |-> tap'.accepted, rejected |-> tap'.rejected]
        /\ tap'.printed \subseteq {"event"}
    <2>1. CASE m = "event"
      BY <2>1, Zenon DEF TapMessage, VerifiedInv, UpShape
    <2>2. CASE m # "event"
      BY <2>2 DEF TapMessage, VerifiedInv, UpShape
    <2>q. QED
      BY <2>1, <2>2
  <1>3. UpShape'
    BY <1>1, <1>2 DEF VerifiedInv, UpShape
  <1>4. Signed' /\ Pinned'
    BY <1>1, PartsOfARun, Zenon DEF VerifiedInv, Signed, Pinned, Exists, HandedOver
  <1>5. Locked'
    BY <1>1, PartsOfARun, ZenonT(40) DEF VerifiedInv, Locked, Named, Exists, HandedOver
  <1>q. QED
    BY <1>1, <1>2, <1>3, <1>4, <1>5 DEF VerifiedInv

\* Every step keeps the invariant.
LEMMA VerifiedNext ==
  ASSUME VerifiedInv, OnboardNext PROVE VerifiedInv'
  BY UnpackingKeeps, VerifyManifestKeeps, VerifyChecksumsKeeps, LockDownKeeps, PlaceSeedKeeps,
     LockSeedKeeps, HandingOverKeeps, OthersKeep, TapMessageKeeps, Zenon DEF OnboardNext, UpStep

\* The invariant gives the property; the configs are what their readers load.
LEMMA VerifiedImplies ==
  ASSUME VerifiedInv, up \in HandedOver PROVE HandedOverIsVerified
  <1>1. Signed /\ Pinned /\ Locked /\ up # "lock seed"
    BY PartsOfARun, Zenon DEF VerifiedInv
  <1>2. \A f \in PrivateFiles : Named(f) /\ Exists(f) => dir[f].mode = 600
    BY <1>1, Zenon DEF Locked
  <1>3. TakLoads(TakConfig)
    BY DEF TakLoads, TakConfig
  <1>4. up = "wrote http" => HttpLoads([HttpConfig EXCEPT !.mapping = {"filled in"}])
    <2>1. SUFFICES ASSUME run.manifest.egress
                   PROVE  HttpLoads([HttpConfig EXCEPT !.mapping = {"filled in"}])
      BY Zenon DEF VerifiedInv
    <2>d. DEFINE c == [HttpConfig EXCEPT !.mapping = {"filled in"}]
    <2>2. c.subject = "ajar.egress." /\ c.mapping = {"filled in"} /\ c.attempts = 2
      BY DEF HttpConfig
    <2>3. c.key = run.manifest.egress
      BY DEF HttpConfig
    <2> HIDE DEF c
    <2>4. c.key
      BY <2>1, <2>3
    <2>5. c.mapping # {}
      BY <2>2, Zenon
    <2>6. c.attempts > 0
      <3>1. c.attempts = 2
        BY <2>2, Zenon
      <3>2. 2 > 0
        OBVIOUS
      <3>q. QED
        BY ONLY <3>1, <3>2, Zenon
    <2>7. HttpLoads(c)
      BY <2>2, <2>4, <2>5, <2>6, Zenon DEF HttpLoads
    <2>q. QED
      BY <2>7, Zenon DEF c
  <1>q. QED
    BY <1>1, <1>2, <1>3, <1>4, Zenon DEF HandedOverIsVerified, VerifiedInv, Signed, Pinned

\* For every set of packets and whatever runs came before, what ajar-up hands over to
\* was verified: packet::open's order (signature, pins, modes) and producer::run's and
\* consumer::run's guards leave no way around a check.
THEOREM HandedOverIsVerifiedHolds == OnboardSpec => []HandedOverIsVerified
  <1>1. OnboardInit => VerifiedInv
    <2>1. SUFFICES ASSUME OnboardInit PROVE VerifiedInv
      OBVIOUS
    <2>2. up \in {"unused", "idle"}
      BY <2>1 DEF OnboardInit
    <2>3. UpShape /\ tap.printed = {}
      BY <2>1 DEF OnboardInit, UpShape, NoRun, NoTap
    <2>q. QED
      BY <2>2, <2>3, PartsOfARun, Zenon DEF VerifiedInv
  <1>2. VerifiedInv /\ [OnboardNext]_upVars => VerifiedInv'
    <2>1. ASSUME VerifiedInv, UNCHANGED upVars PROVE VerifiedInv'
      <3>1. UNCHANGED <<dir, run, tap, up, doctor>>
        BY <2>1 DEF upVars
      <3>2. up' \in {"ready", "started"} => Done' /\ Healthy'
        BY <2>1, <3>1, Zenon DEF VerifiedInv, Done, Healthy
      <3>q. QED
        BY <2>1, <3>1, <3>2, VerifiedStays, Zenon DEF VerifiedInv
    <2>q. QED
      BY <2>1, VerifiedNext
  <1>3. VerifiedInv => HandedOverIsVerified
    BY VerifiedImplies, Zenon DEF HandedOverIsVerified
  <1>q. QED
    BY <1>1, <1>2, <1>3, PTL DEF OnboardSpec
=============================================================================
