------------------------------ MODULE MCGateway ------------------------------
(***************************************************************************)
(* An instance of Gateway.                                                 *)
(***************************************************************************)
EXTENDS Gateway, TLC

CONSTANTS k1, k2, r1, r2

MCKeys == {k1, k2}
MCRequests == {r1, r2}

MCPlans == {1, 3}
MCTiers == {0, 3}
MCStatedTtls == {0}

Symmetric == Permutations(MCRequests) \cup Permutations(MCKeys)
=============================================================================
