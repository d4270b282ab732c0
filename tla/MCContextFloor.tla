----------------------------- MODULE MCContextFloor -----------------------------
(* ContextFloor for TLC: handlers and contexts are interchangeable, and the    *)
(* run checks safety only.                                                     *)
EXTENDS ContextFloor, TLC

Symmetry == Permutations(Connections) \cup Permutations(Contexts)
=============================================================================
