----------------------------- MODULE ManagerMC -----------------------------
(* Small instances of Manager for TLC. *)
EXTENDS Manager, TLC

CONSTANTS a, b, x, d, p, q, f

\* a is a stream service, b one on net/http; x is no registered service and
\* d a dummy name.
MCKind == a :> "stream" @@ b :> "http" @@ x :> "unknown" @@ d :> "dummy"
MCKind2 == a :> "stream" @@ b :> "http"

\* Both jobs; their ports swapped; one job gone, with the port moved; options
\* that fail in each of the two ways; a foreign port.
MCConfigs ==
    { a :> p @@ b :> q, a :> q @@ b :> p, a :> q,
      a :> BadAddr @@ b :> q, a :> Undecodable @@ b :> f @@ x :> p @@ d :> p }

\* A document, and the one that gives each job the port of the other.
SwapConfigs == { a :> p @@ b :> q, a :> q @@ b :> p }
=============================================================================
