-------------------------- MODULE MCTimingSamples --------------------------
(* Instances of TimingSamples for TLC: calls are interchangeable. *)
EXTENDS TimingSamples, TLC

Symmetry == Permutations(Calls)
=============================================================================
