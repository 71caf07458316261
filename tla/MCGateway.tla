----------------------------- MODULE MCGateway ------------------------------
(* Instances of Gateway for TLC. *)
EXTENDS Gateway, TLC

\* The calls differ in nothing but their names.
Symmetry == Permutations(Calls)
=============================================================================
