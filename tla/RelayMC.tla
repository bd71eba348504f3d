------------------------------- MODULE RelayMC ------------------------------
(* Relay for TLC: the constants are numbers, given in the .cfg files. *)
EXTENDS Relay
=============================================================================
