------------------------------- MODULE DNSMC -------------------------------
(* Small instances of DNS for TLC. *)
EXTENDS DNS, TLC

CONSTANTS d1, d2, s1, s2

MCQuestions == {[domain |-> d1, type |-> "A"], [domain |-> d2, type |-> "AAAA"]}

Plain == [d \in {d1, d2} |-> d]
Swapped == [d \in {d1, d2} |-> IF d = d1 THEN d2 ELSE d1]
Conf(servers, routes, redirects, v4) ==
    [ok |-> TRUE, servers |-> servers, routes |-> routes, redirects |-> redirects,
     cache |-> TRUE, v4 |-> v4, ttl |-> 0]
Route(allow, s) == [allow |-> allow, servers |-> {s}]

\* A server for all, without a cache; a route for one domain and no server for
\* the other; the same with redirects; both, without IPv6.
MCConfigs ==
    { [Conf({s1}, <<>>, Plain, FALSE) EXCEPT !.cache = FALSE],
      Conf({}, <<Route({d1}, s1)>>, Plain, FALSE),
      Conf({}, <<Route({d1}, s1)>>, Swapped, FALSE),
      Conf({s2}, <<Route({d1}, s2)>>, Plain, TRUE) }

\* Connections are interchangeable.
Sym == Permutations(Clients)
=============================================================================
