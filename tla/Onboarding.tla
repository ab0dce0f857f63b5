---------------------------- MODULE Onboarding ----------------------------
(***************************************************************************)
(* Bringing a connector up: the operator examines a site with ajar-doctor  *)
(* and starts the connector, or runs ajar-up, which unpacks a packet, runs *)
(* the same doctor in its own process and becomes the connector.           *)
(***************************************************************************)
EXTENDS AjarUp

CONSTANTS
  DoctorSites,  \* sites the doctor is run on by hand
  UpSites       \* sites ajar-up is run on

ASSUME OnboardingAssumption == DoctorSites \subseteq SiteType /\ UpSites \subseteq SiteType

OnboardInit ==
  /\ connector = ConnectorOff
  /\ doctor = DoctorOff
  /\ dir = [f \in FileNames |-> Absent]
  /\ tap = NoTap
  /\ run = NoRun
  /\ runs = 0
  /\ \/ site \in DoctorSites /\ up = "unused"
     \/ site \in UpSites /\ up = "idle"

\* ajar-doctor on the command line.
RunDoctor ==
  /\ up = "unused"
  /\ Examine
  /\ UNCHANGED <<site, connector, dir, up, run, runs, tap>>

\* The operator starts the connector, after the report whatever it says, or with
\* the command that ajar-up --no-exec printed.  An SDK embedder has no connector.
LaunchByHand ==
  /\ up \in {"unused", "ready"} /\ Done
  /\ site.config \notin {"environment", "incomplete environment"}
  /\ Launch
  /\ UNCHANGED <<site, doctor, dir, up, run, runs, tap>>

DoctorRuns == DoctorStep /\ UNCHANGED <<dir, up, run, runs, tap>>
ServerAnswers == ServerStep /\ UNCHANGED <<dir, up, run, runs, tap>>
ConnectorStarts == StartStep /\ UNCHANGED <<doctor, dir, up, run, runs, tap>>

OnboardNext ==
  \/ RunDoctor \/ DoctorRuns \/ ServerAnswers \/ LaunchByHand \/ ConnectorStarts
  \/ \E i \in Invocations : RunUp(i)
  \/ UpStep \/ Leave
  \/ \E m \in {"event", "not an event", "forged"} : TapMessage(m)

OnboardSpec == OnboardInit /\ [][OnboardNext]_upVars

\* The processes run; the network need not answer, and nobody need run anything.
OnboardLive ==
  OnboardSpec /\ WF_upVars(DoctorRuns) /\ WF_upVars(UpStep) /\ WF_upVars(ConnectorStarts)

----------------------------------------------------------------------------
\* The doctor has no check for this reason to refuse: a generic mapping, a
\* transport it passes over, and two settings of a replay.
Unforeseen(step) ==
  \/ step = "mapping"
  \/ /\ step = "transport"
     /\ \/ site.feed[1] \in OpensAtOnce \ {"udp-multicast"}
        \/ site.feed[2] \in {"empty", "no speed"}

\* The preflight foretells the start ("The connector will fail the same way").  A
\* connector that refuses to start at a step was given a FAIL for that step, so a
\* healthy report is followed by a start; where the URL does not parse, the
\* doctor cannot tell that it demands TLS and fails the endpoint instead.  And a
\* connector that runs was not told that its runtime would refuse.
PreflightForetells ==
  Done =>
    /\ connector.state = "refused" =>
         LET step == StartSteps[connector.at] IN
         \/ Unforeseen(step)
         \/ <<step, "fail">> \in doctor.findings
         \/ step = "tls policy" /\ ~UrlParses(site) /\ <<"endpoint", "fail">> \in doctor.findings
    /\ connector.state = "running" =>
         /\ <<"config", "fail">> \notin doctor.findings
         /\ <<"transport", "fail">> \in doctor.findings => site.feed[1] \in {"serial", "dds"}
         /\ <<"tls policy", "fail">> \in doctor.findings => doctor.greeting = "tls required"

\* What ajar-up hands over to was verified, whatever earlier or interrupted runs
\* left in the directory: the manifest it acts on is signed as it stands under the
\* packet's key, the pinned files are the ones it pins but for a seed the operator
\* put in its place, the private keys are mode 600; a connector was found healthy,
\* the tap prints verified events only, and a written config is one its connector
\* loads, but for the mapping that the HTTP one leaves to be filled in.
HandedOverIsVerified ==
  up \in HandedOver =>
    /\ run.manifest = dir["manifest.json"].of
    /\ dir["manifest.sig"].of.over = run.manifest /\ dir["manifest.sig"].of.by = dir["egress.pub"].of
    /\ \A f \in DOMAIN run.manifest.pins :
         \/ Exists(f) /\ dir[f].of = run.manifest.pins[f]
         \/ f = "seed" /\ run.options.signing_key /\ dir[f].of = "registered seed"
    /\ \A f \in PrivateFiles : Named(f) /\ Exists(f) => dir[f].mode = 600
    /\ up \in {"started", "ready"} => Done /\ Healthy /\ Exists("seed")
    /\ tap.printed \subseteq {"event"}
    /\ up = "wrote tak" => TakLoads(TakConfig)
    /\ up = "wrote http" => HttpLoads([HttpConfig EXCEPT !.mapping = {"filled in"}])

\* Every network step has a deadline (a name lookup the resolver's): with a network
\* that never answers, a preflight still ends, and so does a run of ajar-up.
PreflightEnds ==
  /\ doctor.pc \notin {"off", "done"} ~> doctor.pc \in {"off", "done"}
  /\ up \notin Ended ~> up \in Ended
=============================================================================
