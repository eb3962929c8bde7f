---------------------------- MODULE MCBloomSync ----------------------------
(* Instances of BloomSync for TLC: entries that share positions, so that    *)
(* false positives occur, and interchangeable gateways.                     *)
EXTENDS BloomSync, TLC

CONSTANTS ip1, ip2, ip3, agent1

MCHash == (ip1 :> {1, 2}) @@ (ip2 :> {2, 3}) @@ (ip3 :> {3, 4}) @@ (agent1 :> {1, 3})
             @@ (NoAgent :> {3})

Symmetry == Permutations(Gateways)
=============================================================================
