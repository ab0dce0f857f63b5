------------------------------- MODULE AjarUp -------------------------------
(***************************************************************************)
(* ajar-up (rust/connectors/up): from the operator's packet to a running   *)
(* connector (a producer packet) or a verified tap (a consumer packet).    *)
(* The packet is unpacked file by file into a directory that may hold what *)
(* an earlier run left there, and everything after that reads the          *)
(* directory.  A run may be interrupted at any step and started again with *)
(* the same packet or another one.                                         *)
(***************************************************************************)
EXTENDS Doctor

CONSTANTS
  Invocations,  \* command lines: a packet and the options it is run with
  MaxRuns,      \* runs of ajar-up
  MaxTapped     \* messages the tap reads

CertFiles == {"ca", "cert", "key"}      \* keys.ca_cert_path and so on
PrivateFiles == {"seed", "key"}
SignedFiles == {"manifest.json", "manifest.sig", "egress.pub"}
FileNames == SignedFiles \cup {"seed"} \cup CertFiles

VARIABLES
  dir,     \* the working directory: what each file holds, and its mode
  up,      \* where the ajar-up process is
  run,     \* its packet and options, the next tar entry, and the verified manifest
  runs,    \* runs so far
  tap      \* the tap: payloads printed, and the counters

upVars == <<site, connector, doctor, dir, up, run, runs, tap>>

Absent == [present |-> FALSE]
Holding(of, mode) == [present |-> TRUE, of |-> of, mode |-> mode]
Nothing == [none |-> TRUE]
NoRun == [packet |-> Nothing, options |-> Nothing, next |-> 1, manifest |-> Nothing]
NoTap == [printed |-> {}, accepted |-> 0, rejected |-> 0]

\* Where a run ends: refused, or what it hands over to.
HandedOver == {"started", "ready", "checked", "tapping", "wrote tak", "wrote http"}
Ended == HandedOver \cup {"unused", "idle", "refused"}

Exists(f) == f \in FileNames /\ dir[f].present
\* A path the manifest names in keys; the files keep one name each here.
Named(f) == f \in run.manifest.keys
\* chmod 600 of the files in F that are there.
Chmod(F) == [f \in FileNames |-> IF f \in F /\ Exists(f) THEN Holding(dir[f].of, 600) ELSE dir[f]]

----------------------------------------------------------------------------
(* packet::open                                                            *)

RunUp(i) ==
  /\ up = "idle" /\ runs < MaxRuns
  /\ up' = "unpack"
  /\ run' = [NoRun EXCEPT !.packet = i.packet, !.options = i.options]
  /\ runs' = runs + 1
  /\ UNCHANGED <<site, connector, doctor, dir, tap>>

\* One entry of the tar: its bytes and mode replace the file's.  A name that is
\* not a plain filename ends the run.
UnpackEntry ==
  /\ up = "unpack" /\ run.next <= Len(run.packet.entries)
  /\ LET entry == run.packet.entries[run.next] IN
     IF entry.name \in FileNames
     THEN /\ dir' = [dir EXCEPT ![entry.name] = Holding(entry.of, entry.mode)]
          /\ run' = [run EXCEPT !.next = @ + 1]
          /\ UNCHANGED up
     ELSE /\ up' = "refused"
          /\ UNCHANGED <<dir, run>>
  /\ UNCHANGED <<site, connector, doctor, runs, tap>>

\* The three files are read from the directory.  The signature is over the whole
\* manifest and verifies under the directory's egress.pub.
SignatureVerifies ==
  /\ \A f \in SignedFiles : Exists(f)
  /\ dir["manifest.sig"].of.over = dir["manifest.json"].of
  /\ dir["manifest.sig"].of.by = dir["egress.pub"].of

\* The manifest is parsed only once its signature verifies, and then its version.
VerifyManifest ==
  /\ up = "unpack" /\ run.next > Len(run.packet.entries)
  /\ IF SignatureVerifies /\ dir["manifest.json"].of.major = 1
     THEN /\ up' = "checksums"
          /\ run' = [run EXCEPT !.manifest = dir["manifest.json"].of]
     ELSE /\ up' = "refused"
          /\ UNCHANGED run
  /\ UNCHANGED <<site, connector, doctor, dir, runs, tap>>

\* Every file the manifest pins has the bytes it pins.
PinsMatch == \A f \in DOMAIN run.manifest.pins : Exists(f) /\ dir[f].of = run.manifest.pins[f]
VerifyChecksums ==
  /\ up = "checksums"
  /\ up' = IF PinsMatch THEN "lock" ELSE "refused"
  /\ UNCHANGED <<site, connector, doctor, dir, run, runs, tap>>

\* Packet::role: a manifest without one is a producer's.
Role ==
  CASE run.manifest.role \in {"none", "producer"} -> "producer"
    [] run.manifest.role = "consumer" -> "consumer"
    [] OTHER -> "refused"

\* The private keys that are there become mode 600; then the role decides.
LockDownSeedOnly ==
  /\ up = "lock"
  /\ dir' = Chmod({"seed"} \cap run.manifest.keys)
  /\ up' = Role
  /\ UNCHANGED <<site, connector, doctor, run, runs, tap>>
LockDown ==
  /\ up = "lock"
  /\ dir' = Chmod(PrivateFiles \cap run.manifest.keys)
  /\ up' = Role
  /\ UNCHANGED <<site, connector, doctor, run, runs, tap>>

----------------------------------------------------------------------------
(* producer::run                                                           *)

\* The packet must name a protocol, a transport and a place for the seed.  With
\* --signing-key the seed is copied there, with the mode it has at its source, if it
\* can be read.
PlaceSeed ==
  /\ up = "producer"
  /\ IF run.manifest.protocol = "none" \/ run.manifest.transport = "none" \/ ~Named("seed")
     THEN /\ up' = "refused"
          /\ UNCHANGED dir
     ELSE IF run.options.signing_key
          THEN \/ /\ dir' = [dir EXCEPT !["seed"] = Holding("registered seed", 644)]
                  /\ up' = "lock seed"
               \/ /\ up' = "refused"
                  /\ UNCHANGED dir
          ELSE /\ up' = "write config"
               /\ UNCHANGED dir
  /\ UNCHANGED <<site, connector, doctor, run, runs, tap>>

LockSeed ==
  /\ up = "lock seed"
  /\ dir' = Chmod({"seed"})
  /\ up' = "write config"
  /\ UNCHANGED <<site, connector, doctor, run, runs, tap>>

\* mtls_env: the triple, when all three files are named and there; otherwise the
\* environment stays what it was.
PacketHasMtls == \A f \in CertFiles : Named(f) /\ Exists(f)
MtlsEnv == IF PacketHasMtls THEN TlsVars ELSE site.tls

\* What the written config and the placed files make of the site, its nats_url and
\* spool setting as they are.  The config carries no [mapping], and a key of another
\* packet does not fit the certificate.
PreparedSite ==
  [site EXCEPT
     !.config = IF run.manifest.transport = "loads" THEN "good" ELSE "unknown field",
     !.mapping = IF run.manifest.protocol = "generic" THEN "absent" ELSE "built in",
     !.seed = "raw",
     !.private = (dir["seed"].mode = 600),
     !.pub = "absent",
     !.sources = "none",
     !.tls = MtlsEnv,
     !.identity = IF PacketHasMtls /\ dir["cert"].of # dir["key"].of THEN "mispaired" ELSE @]

\* Without a seed the run ends; with one the config is written, the environment
\* set, and the preflight begun on them.
WriteConfig ==
  /\ up = "write config"
  /\ IF Exists("seed")
     THEN /\ site' = PreparedSite
          /\ doctor' = [DoctorOff EXCEPT !.pc = "config"]
          /\ up' = "preflight"
     ELSE /\ up' = "refused"
          /\ UNCHANGED <<site, doctor>>
  /\ UNCHANGED <<connector, dir, run, runs, tap>>

\* The preflight is over: a FAIL ends the run, and so does a connector binary
\* that is neither beside ajar-up nor on PATH, or that cannot be executed.
FinishProducer ==
  /\ up = "preflight" /\ Done
  /\ \/ /\ up' = "refused"
        /\ UNCHANGED connector
     \/ /\ Healthy
        /\ IF run.options.no_exec \/ run.options.check
           THEN /\ up' = "ready"
                /\ UNCHANGED connector
           ELSE /\ up' = "started"
                /\ Launch
  /\ UNCHANGED <<site, doctor, dir, run, runs, tap>>

----------------------------------------------------------------------------
(* consumer::run and consumer::check                                       *)

\* The configs a delivery flag writes, by what their readers check.  The TAK
\* side's own two files are left to fill in, as placeholder paths.
TakConfig == [buffer_max |-> 1000, tls |-> CertFiles]
HttpConfig ==
  [subject |-> "ajar.egress.", key |-> run.manifest.egress, attempts |-> 2, mapping |-> {}]

\* tak-egress EgressConfig::validate, for a TAK Server's stream.
TakLoads(c) == c.buffer_max > 0 /\ c.tls = CertFiles
\* generic-egress Config::validate and verifying_key.
HttpLoads(c) == c.subject = "ajar.egress." /\ c.mapping # {} /\ c.attempts > 0 /\ c.key

\* egress: the packet must carry a subject and the key that verifies events.
\* --check then asks that every certificate file the manifest names is there; a
\* delivery flag needs a format that the deployment egresses.
Consume ==
  /\ up = "consumer"
  /\ LET OnlyIf(condition, next) == IF condition THEN next ELSE "refused" IN
     up' = IF ~run.manifest.egress THEN "refused"
           ELSE IF run.options.check
                THEN OnlyIf(\A f \in CertFiles : Named(f) => Exists(f), "checked")
           ELSE IF run.options.to = "tak"
                THEN OnlyIf("cot" \in run.manifest.formats, "wrote tak")
           ELSE IF run.options.to = "http"
                THEN OnlyIf(run.manifest.formats \cap {"geojson", "json"} # {}, "wrote http")
           ELSE "connect"
  /\ UNCHANGED <<site, connector, doctor, dir, run, runs, tap>>

\* The tap connects under the same TLS policy as a connector, and subscribes.
ConnectTap ==
  /\ up = "connect"
  /\ site' = [site EXCEPT !.tls = MtlsEnv]
  /\ up' = IF TlsAccepted(site') /\ UrlParses(site) THEN "tapping" ELSE "refused"
  /\ UNCHANGED <<connector, doctor, dir, run, runs, tap>>

\* The loop of run: what verifies and decodes is printed, the rest is counted.
TapMessage(m) ==
  /\ up = "tapping" /\ tap.accepted + tap.rejected < MaxTapped
  /\ tap' = IF m = "event" THEN [tap EXCEPT !.accepted = @ + 1, !.printed = @ \cup {m}]
            ELSE [tap EXCEPT !.rejected = @ + 1]
  /\ UNCHANGED <<site, connector, doctor, dir, up, run, runs>>

----------------------------------------------------------------------------
\* The process is interrupted, or has ended, and the operator may run ajar-up
\* again, until a connector was started; a preflight's findings are printed only.
Leave ==
  /\ up \notin {"unused", "idle"} /\ connector = ConnectorOff
  /\ up' = "idle"
  /\ run' = NoRun
  /\ doctor' = DoctorOff
  /\ tap' = NoTap
  /\ UNCHANGED <<site, connector, dir, runs>>

\* What ajar-up does by itself.
UpStep ==
  \/ UnpackEntry \/ VerifyManifest \/ VerifyChecksums \/ LockDown \/ PlaceSeed
  \/ LockSeed \/ WriteConfig \/ FinishProducer \/ Consume \/ ConnectTap
=============================================================================
