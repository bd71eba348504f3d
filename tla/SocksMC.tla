------------------------------ MODULE SocksMC ------------------------------
(* Small instances of Socks for TLC. *)
EXTENDS Socks

\* Both families, written carelessly; one family; no server any more, with the
\* other family to ask for, and with none.
MCConfigs ==
    { [servers |-> {"s"}, types |-> <<"MX", "A", "A", "AAAA">>, ttl |-> 0],
      [servers |-> {"s"}, types |-> <<"A">>, ttl |-> 0],
      [servers |-> {}, types |-> <<"AAAA">>, ttl |-> 0],
      [servers |-> {}, types |-> <<>>, ttl |-> 0] }
=============================================================================
