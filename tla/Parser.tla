------------------------------- MODULE Parser -------------------------------
(***************************************************************************)
(* What the connectors' parsers share.  FrameParser::parse turns a frame    *)
(* into events, and the stateful parsers remember what earlier frames said. *)
(* A value is modelled by the number of the frame it came from, so an event *)
(* shows where each thing it states was read; 0 is None.                    *)
(***************************************************************************)
EXTENDS Integers, Sequences, FiniteSets, FiniteSetsExt, SequencesExt

CONSTANTS
  Kinds,      \* the parsers in the instance
  MaxFrames,  \* per parser, the frames a run feeds it
  MaxTicks    \* clock ticks a run takes
ASSUME BoundsAreNat == (\A k \in Kinds : MaxFrames[k] \in Nat) /\ MaxTicks \in Nat

VARIABLES
  kind,     \* which parser runs
  parser,   \* its state, guarded by its mutexes
  frames,   \* every frame handed to parse, in order
  events,   \* the events parse returned, in order
  clock     \* Instant::now, in ticks

parserVars == <<kind, parser, frames, events, clock>>

Now == Len(frames) + 1
Latest(S) == IF S = {} THEN 0 ELSE Max(S)

\* EventBuilder::build: "Anything Ajar's boundary would reject, such as ... an
\* off-planet position, fails here rather than being signed."  The flaw is what
\* build finds: "off-planet" or "duplicate key".
Builds(event) == event.flaw = "none"
Published(event) == IF Builds(event) THEN <<event>> ELSE <<>>

MoreFrames == Len(frames) < MaxFrames[kind]

\* One call of parse: the frame is taken, the state and the events follow.
Parsed(frame, after, built) ==
  /\ MoreFrames
  /\ frames' = Append(frames, frame)
  /\ parser' = after
  /\ events' = events \o built
  /\ UNCHANGED <<kind, clock>>

Tick ==
  /\ clock < MaxTicks
  /\ clock' = clock + 1
  /\ UNCHANGED <<kind, parser, frames, events>>
=============================================================================
