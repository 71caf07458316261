----------------------------- MODULE MCConsole ------------------------------
(* The console with two launches and one lost request.                     *)
EXTENDS Console
=============================================================================
