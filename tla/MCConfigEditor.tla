---------------------------- MODULE MCConfigEditor ----------------------------
(* ConfigEditor for TLC: the admin threads are interchangeable, and so are   *)
(* the ports; the runs check safety only.                                    *)
EXTENDS ConfigEditor, TLC

Symmetry == Permutations(Admins) \cup Permutations(Ports)
=============================================================================
