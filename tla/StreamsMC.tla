----------------------------- MODULE StreamsMC -----------------------------
(* What happens to the connections of a job, for TLC: Serve, which accepts *)
(* them and keeps them for Shutdown, or the Relay of one of them.          *)
EXTENDS Serving, Relay

VARIABLE part

\* The other part stays in its initial state, where its fairness asks for
\* nothing.
MCInit == part \in {"serve", "relay"} /\ ServeInit /\ Init

MCNext ==
    /\ UNCHANGED part
    /\ \/ part = "serve" /\ ServeNext /\ UNCHANGED vars
       \/ part = "relay" /\ Next /\ UNCHANGED servingVars

MCSpec == MCInit /\ [][MCNext]_<<part, servingVars, vars>> /\ ServeFairness /\ Fairness
=============================================================================
