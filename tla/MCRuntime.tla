----------------------------- MODULE MCRuntime -----------------------------
(* The runtime for TLC: three events, a client that buffers two messages. *)
EXTENDS Runtime

MCEvents == 1 .. 3
OneOf(kinds) == [f \in FaultKinds |-> IF f \in kinds THEN 1 ELSE 0]

DiskAndLink == OneOf({"link", "crash", "append", "cursor", "rot", "window", "late"})
StreamFlaps == OneOf({"link", "stream", "crash"})
StreamAndCursor == OneOf({"stream", "crash", "cursor"})
Stops == OneOf({"link", "stop", "late"})
AnyWeather == {DiskAndLink, StreamFlaps, StreamAndCursor, Stops}
StreamOnly == {StreamFlaps}
=============================================================================
