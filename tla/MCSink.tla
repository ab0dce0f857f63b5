------------------------------- MODULE MCSink -------------------------------
(* Small instances of Sink. *)
EXTENDS Sink, TLC

Symmetry == Permutations(Sources) \cup Permutations(Sinks)
=============================================================================
