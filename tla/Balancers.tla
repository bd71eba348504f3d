----------------------------- MODULE Balancers -----------------------------
(***************************************************************************)
(* What the balancers have in common: connections that are dialled through *)
(* one of the candidates of the configuration.                             *)
(***************************************************************************)
CONSTANTS
    Conns,          \* connections that may be open at the same time
    MaxCandidates   \* bound: candidates of a configuration
=============================================================================
