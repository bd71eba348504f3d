----------------------------- MODULE LoggingMC -----------------------------
(* Logging for TLC: the constants are given in the .cfg files. *)
EXTENDS Logging
=============================================================================
