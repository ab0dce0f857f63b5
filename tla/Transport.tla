----------------------------- MODULE Transport -----------------------------
(***************************************************************************)
(* What the transports share: open_source opens the one transport the      *)
(* configuration names, and the runtime calls its recv for one frame after *)
(* another.  Each transport is a module that gives `source` and `peer`     *)
(* their shape and adds its actions; Sources puts them together.           *)
(***************************************************************************)
EXTENDS Integers, Sequences

CONSTANT Kinds   \* the transports that configurations name

VARIABLES
  kind,       \* the transport of the configuration
  source,     \* the state of its FrameSource
  peer,       \* what is outside: senders, files, servers
  delivered   \* history: the frames recv returned, in order

ASSUME KindsAssumption ==
  Kinds \subseteq {"tcp-client", "tcp-server", "stdin", "exec", "serial",
                  "http-server", "file", "dir",
                  "ws-client", "mqtt", "rest-poll", "pcap-replay", "udp", "dds"}

transportVars == <<kind, source, peer, delivered>>
=============================================================================
