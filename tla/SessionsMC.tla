------------------------------ MODULE SessionsMC ------------------------------
(* Small instances of Sessions. *)
EXTENDS Sessions, TLC

CONSTANTS k1, k2, k3

MCToken  == {k1, k2, k3}
Symmetry == Permutations(MCToken)
=============================================================================
