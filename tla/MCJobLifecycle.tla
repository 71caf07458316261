--------------------------- MODULE MCJobLifecycle ---------------------------
(* Instances of JobLifecycle for TLC; the cfg files choose the faults. *)
EXTENDS JobLifecycle, TLC

\* The cancel requests differ in nothing but their names.
Symmetry == Permutations(Clients)
=============================================================================
