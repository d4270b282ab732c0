--------------------------- MODULE MCThreadRouting ---------------------------
(***************************************************************************)
(* A small instance of ThreadRouting: two upstream models, the larger one  *)
(* under an alias and its full id, and stores with room for one entry.     *)
(***************************************************************************)
EXTENDS ThreadRouting, TLC

CONSTANTS haiku, opus, claudeOpus, h1, h2, m1, m2, s1, t1, t2

MCNames == {haiku, opus, claudeOpus}
MCModels == {haiku, claudeOpus}
MCResolve == [n \in MCNames |-> IF n = opus THEN claudeOpus ELSE n]
MCSymmetry == Permutations(Handlers) \cup Permutations(Ids) \cup Permutations(Texts)
=============================================================================
