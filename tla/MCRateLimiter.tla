--------------------------- MODULE MCRateLimiter ---------------------------
(* Instances of RateLimiter for TLC: interchangeable requests. *)
EXTENDS RateLimiter, TLC

Symmetry == Permutations(Requests)
=============================================================================
