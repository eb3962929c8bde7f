--------------------------- MODULE MCGatewayChain ---------------------------
(* Instances of GatewayChain for TLC: requests are interchangeable. *)
EXTENDS GatewayChain, TLC

Symmetry == Permutations(Requests)
=============================================================================
