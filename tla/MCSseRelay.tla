----------------------------- MODULE MCSseRelay -----------------------------
(* Instances of SseRelay for TLC.                                          *)
EXTENDS SseRelay, TLC

Symmetry == Permutations(Streams)
=============================================================================
