------------------------------- MODULE MC_Aip -------------------------------
(* Model-checking instances of Aip: calls are model values given in each     *)
(* .cfg and interchangeable.                                                 *)
EXTENDS Aip, TLC

Symmetry == Permutations(Calls)
=============================================================================
