---------------------------- MODULE MCTierRouting ----------------------------
(* TierRouting for TLC: request threads are interchangeable.                *)
EXTENDS TierRouting, TLC

Symmetry == Permutations(Handlers)
=============================================================================
