-------------------------- MODULE MCAbuseResponse --------------------------
(* Instances of AbuseResponse for TLC: interchangeable requests. *)
EXTENDS AbuseResponse, TLC

Symmetry == Permutations(Requests)
=============================================================================
