---------------------------- MODULE MCJobClients ----------------------------
(* Instances of JobClients for TLC. *)
EXTENDS JobClients, TLC

CONSTANTS MaxExecutions, MaxSources

MCExecutions == 1..MaxExecutions
MCSourceKeys == 1..MaxSources
=============================================================================
