------------------------------- MODULE ConnMC -------------------------------
(* Conn for TLC: the constants are numbers, given in the .cfg files. *)
EXTENDS Conn
=============================================================================
