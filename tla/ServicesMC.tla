---------------------------- MODULE ServicesMC ----------------------------
(* What services keep besides their event loop, for TLC: a job is a failover *)
(* balancer, a round-robin balancer or one that runs V2Ray.                  *)
EXTENDS Failover, RoundRobin, Instance, TLC

VARIABLE service

vs == <<service, vars, roundRobinVars, instanceVars>>

\* Bound: candidates of the round-robin balancer. They are alike, unlike those of
\* the failover balancer, so that two are enough.
Few(sizes) == \A g \in Generations : sizes[g] <= 2

\* What the job is not has one initial state, in which it stays.
MCInit ==
    /\ service \in {"failover", "roundrobin", "v2ray"}
    /\ Init /\ RoundRobinInit /\ InstanceInit
    /\ service # "failover" => Len(elems) = 1
    /\ Few(size)
    /\ service # "roundrobin" => size[1] = 0
    /\ service # "v2ray" => kind = "v2ray" /\ file = ""

MCNext ==
    /\ UNCHANGED service
    /\ \/ service = "failover" /\ Next /\ UNCHANGED <<roundRobinVars, instanceVars>>
       \/ service = "roundrobin" /\ RoundRobinNext /\ Few(size') /\ UNCHANGED <<vars, instanceVars>>
       \/ service = "v2ray" /\ InstanceNext /\ UNCHANGED <<vars, roundRobinVars>>

MCSpec == MCInit /\ [][MCNext]_vs

\* Connections are interchangeable.
Symmetry == Permutations(Conns)

Conf(addr, type, url, proxy, cert) ==
    [addr |-> addr, type |-> type, url |-> url, ok |-> TRUE, proxy |-> proxy, cert |-> cert]
URL(scheme, type, tls) == [scheme |-> scheme, type |-> type, tls |-> tls]

\* Options of V2Ray: two addresses, two proxies and none, a certificate, types
\* that name a sort twice, leave one out or have a part too many, URLs of each
\* transport.
MCConfigs ==
    { Conf("p", <<"VLESS", "WS", "TLS">>, None, 0, TRUE),
      Conf("q", <<"VLESS", "WS", "TLS">>, None, 0, TRUE),
      Conf("p", <<"VLESS", "WS", "TLS">>, None, 1, TRUE),
      Conf("p", <<"VLESS", "WS", "TLS">>, None, 2, FALSE),
      Conf("p", <<"", "TROJAN", "VMESS">>, None, 1, FALSE),
      Conf("p", <<"TROJAN", "TCP", "TLS", "WS">>, None, 0, FALSE),
      Conf("p", <<"SHADOWSOCKS2022">>, None, 0, FALSE),
      Conf("p", <<"QUIC">>, None, 0, FALSE),
      Conf("bad", <<>>, None, 0, FALSE),
      [Conf("p", <<>>, None, 0, FALSE) EXCEPT !.ok = FALSE],
      Conf("p", <<"TLS">>, URL("SHADOWSOCKS2022", "", FALSE), 0, FALSE),
      Conf("p", <<>>, URL("TROJAN", "GRPC", FALSE), 0, FALSE),
      Conf("p", <<>>, URL("VLESS", "HTTPUPGRADE", TRUE), 0, FALSE),
      Conf("p", <<>>, URL("VMESS", "", TRUE), 0, FALSE) }
=============================================================================
