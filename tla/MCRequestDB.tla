------------------------------ MODULE MCRequestDB ------------------------------
(* RequestDB for TLC: threads and contents are interchangeable, and the run  *)
(* checks safety only.                                                       *)
EXTENDS RequestDB, TLC

Symmetry == Permutations(Threads) \cup Permutations(Contents)
=============================================================================
