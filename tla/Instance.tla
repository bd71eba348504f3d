------------------------------ MODULE Instance ------------------------------
(***************************************************************************)
(* The services that keep a V2Ray instance: v2ray (v2ray.go), which stops  *)
(* it in a LoadEvent and starts it in the LoadedEvent, and v2socks         *)
(* (v2socks.go), which replaces it inside the LoadEvent while connections  *)
(* may ask for it (<-optsOut) at any moment. Both describe it by a type,   *)
(* v2socks also by a URL that parseURL turns into one, and both let it     *)
(* dial through a forward server of their own when there is a proxy.       *)
(***************************************************************************)
EXTENDS Integers, Sequences, FiniteSets, SequencesExt

CONSTANTS
    Configs,    \* options a LoadEvent may carry
    Contents,   \* of the certificate file; "" is an empty file
    None

\* A URL as parseURL takes it apart. One that it refuses, because of its query
\* "type" for example, makes options that are not ok; whatever its fields are.
URLs ==
    [scheme : {"SHADOWSOCKS", "SHADOWSOCKS2022"}, type : {""}, tls : {FALSE}]
      \cup [scheme : {"TROJAN", "VLESS", "VMESS"},
            type : {"GRPC", "HTTPUPGRADE", "TCP", "WS", ""}, tls : BOOLEAN]

ASSUME ConfigsAssumption ==
    \A c \in Configs : /\ c.type \in Seq(STRING)
                       /\ c.ok => c.url \in URLs \cup {None}

VARIABLES
    kind,       \* "v2ray" or "v2socks"
    pc,         \* where the event loop is
    file,       \* the content of the certificate file
    conf, pub,  \* what <-optsOut yields: the options, and their ins
    new,        \* the options being loaded
    ins,        \* the instance, 0 for nil
    run,        \* of each instance: what it runs, None if it is closed
    fwd,        \* forwardListener is open
    srv,        \* v2socks: the address of its server, or None
    told        \* history: a LoadedEvent was handled since the last LoadEvent

instanceVars == <<kind, pc, file, conf, pub, new, ins, run, fwd, srv, told>>

-----------------------------------------------------------------------------
(***************************************************************************)
(* parseOptions. A type is the sequence of its parts, in upper case. Host  *)
(* and port, method and the like are the field ok.                         *)
(***************************************************************************)

AllProtocols == {"SHADOWSOCKS", "SHADOWSOCKS2022", "TROJAN", "VLESS", "VMESS"}
Protocols == IF kind = "v2socks" THEN AllProtocols ELSE AllProtocols \ {"SHADOWSOCKS2022"}
Transports == {"GRPC", "HTTPUPGRADE", "TCP", "WS"}

\* What remains after two cuts is one part, and not a known one if it still
\* contains a "+".
SplitN(parts) == IF Len(parts) <= 3 THEN parts ELSE SubSeq(parts, 1, 2) \o <<"unknown">>

Error == [error |-> TRUE]

\* One part is read, after the ones before it.
ReadPart(acc, t) ==
    IF t \in Protocols THEN [acc EXCEPT !.protocol = t]
    ELSE IF t \in Transports THEN [acc EXCEPT !.transport = t]
    ELSE [acc EXCEPT !.tls = @ \/ t = "TLS"]

\* What has been read after each of the parts: the last of each sort counts.
ReadParts(parts) ==
    LET acc[i \in 0 .. Len(parts)] ==
            IF i = 0 THEN [protocol |-> "VMESS", transport |-> "TCP", tls |-> FALSE]
            ELSE ReadPart(acc[i - 1], parts[i])
    IN acc

ParseType(type) ==
    LET parts == SplitN(type)
    IN IF \E i \in DOMAIN parts : parts[i] \notin Protocols \cup Transports \cup {"TLS", ""}
       THEN Error
       ELSE ReadParts(parts)[Len(parts)]

\* parseShadowsocksURL and parseVLessURL: the type that is put in the options.
URLType(u) ==
    IF u.scheme \in {"SHADOWSOCKS", "SHADOWSOCKS2022"} THEN <<u.scheme>>
    ELSE <<u.scheme>> \o (CASE u.type = "GRPC" -> <<"GRPC", "TLS">>
                            [] u.type \in {"TCP", ""} -> IF u.tls THEN <<"TCP", "TLS">> ELSE <<"TCP">>
                            [] OTHER -> IF u.tls THEN <<u.type, "TLS">> ELSE <<u.type>>)

parseOptions(c) ==
    IF ~c.ok THEN Error
    ELSE ParseType(IF c.url = None THEN c.type ELSE URLType(c.url))

-----------------------------------------------------------------------------
(***************************************************************************)
(* The options as they are stored: with the content of the certificate     *)
(* file, and the address of the forward server if there is a proxy.        *)
(***************************************************************************)

Zero == [addr |-> None, type |-> <<>>, url |-> None, ok |-> FALSE, proxy |-> 0,
         cert |-> FALSE, pem |-> None, forward |-> FALSE]

StoredAs(c, p) ==
    [addr |-> c.addr, type |-> c.type, url |-> c.url, ok |-> c.ok, proxy |-> c.proxy,
     cert |-> c.cert, pem |-> p, forward |-> c.proxy # 0]

Loaded(c) == StoredAs(c, IF c.cert THEN file ELSE None)

ForgetsCertificate(x, y) ==   \* mutant: what was read from the file is not compared
    \/ (x.proxy = 0) # (y.proxy = 0)
    \/ [x EXCEPT !.proxy = 0, !.pem = None] # [y EXCEPT !.proxy = 0, !.pem = None]

shouldRestart(x, y) ==
    \/ (x.proxy = 0) # (y.proxy = 0)
    \/ [x EXCEPT !.proxy = 0] # [y EXCEPT !.proxy = 0]

\* The options that can be stored, and what an instance can run; None stands
\* for an instance that is closed.
Stored == {StoredAs(c, p) : c \in Configs, p \in Contents \cup {None}}
Running == [is : [protocol : AllProtocols, transport : Transports, tls : BOOLEAN], of : Stored]

ASSUME NoneAssumption == None \notin Running

Closed(i) == IF i = 0 THEN run ELSE [run EXCEPT ![i] = None]

InstanceInit ==
    /\ kind \in {"v2ray", "v2socks"}
    /\ pc = "select" /\ file \in Contents
    /\ conf = Zero /\ pub = 0 /\ new = Zero
    /\ ins = 0 /\ run = [i \in {1, 2} |-> None]
    /\ fwd = FALSE /\ srv = None /\ told = FALSE

\* The file is written by someone else.
FileChanges(s) ==
    /\ s # file /\ file' = s
    /\ UNCHANGED <<kind, pc, conf, pub, new, ins, run, fwd, srv, told>>

-----------------------------------------------------------------------------
(***************************************************************************)
(* LoadEvent.                                                              *)
(***************************************************************************)

\* A changed address stops what listens to the old one; then the certificate
\* is read and the forward server is started, unless it runs.
LoadEvent(c) ==
    /\ pc = "select"
    /\ c.addr # "bad"
    /\ kind = "v2ray" => c.url = None   \* it has no such option
    /\ LET moved == c.addr # conf.addr
       IN /\ ins' = IF moved /\ kind = "v2ray" THEN 0 ELSE ins
          /\ run' = IF moved /\ kind = "v2ray" THEN Closed(ins) ELSE run
          /\ srv' = IF moved THEN None ELSE srv
    /\ c.cert => file # ""
    /\ fwd' = (fwd \/ c.proxy # 0)
    /\ new' = Loaded(c)
    /\ pc' = "loading" /\ told' = FALSE
    /\ UNCHANGED <<kind, file, conf, pub>>

\* One of the steps of LoadEvent fails, or the context is cancelled. (What such
\* a step has stopped is closed by the deferred calls all the same.)
Leave ==
    /\ pc = "select"
    /\ pc' = "leaving"
    /\ UNCHANGED <<kind, file, conf, pub, new, ins, run, fwd, srv, told>>

NeverStops ==   \* mutant: the old instance is not closed
    /\ pc = "loading" /\ shouldRestart(conf, new)
    /\ ins' = 0 /\ UNCHANGED run
    /\ pc' = IF kind = "v2socks" THEN "starting" ELSE "storing"
    /\ UNCHANGED <<kind, file, conf, pub, new, fwd, srv, told>>

\* stopInstance. The closed instance is still what <-optsOut yields.
Stop ==
    /\ pc = "loading" /\ shouldRestart(conf, new)
    /\ ins' = 0 /\ run' = Closed(ins)
    /\ pc' = IF kind = "v2socks" THEN "starting" ELSE "storing"
    /\ UNCHANGED <<kind, file, conf, pub, new, fwd, srv, told>>

Keep ==
    /\ pc = "loading" /\ ~shouldRestart(conf, new)
    /\ pc' = "storing"
    /\ UNCHANGED <<kind, file, conf, pub, new, ins, run, fwd, srv, told>>

\* startInstance: v2ray makes sure first that it can listen. An instance that
\* cannot be started is nil, with which v2socks goes on and v2ray returns.
Start(ok) ==
    /\ pc = "starting"
    /\ ok => parseOptions(new) # Error
    /\ LET free == CHOOSE i \in {1, 2} : run[i] = None /\ i # pub
       IN IF ok THEN /\ ins' = free
                     /\ run' = [run EXCEPT ![free] = [is |-> parseOptions(new), of |-> new]]
          ELSE UNCHANGED <<ins, run>>
    /\ pc' = IF ok \/ kind = "v2socks" THEN "storing" ELSE "leaving"
    /\ UNCHANGED <<kind, file, conf, pub, new, fwd, srv, told>>

\* optsIn <- new, at the end of both events.
Store ==
    /\ pc = "storing"
    /\ conf' = new /\ pub' = ins
    /\ pc' = "select"
    /\ UNCHANGED <<kind, file, new, ins, run, fwd, srv, told>>

-----------------------------------------------------------------------------
(***************************************************************************)
(* LoadedEvent, and the return of Run.                                     *)
(***************************************************************************)

\* v2ray: if ins == nil, the instance is started with the current options.
LoadedV2Ray ==
    /\ kind = "v2ray" /\ pc = "select" /\ conf # Zero
    /\ told' = TRUE
    /\ new' = conf
    /\ pc' = IF ins = 0 THEN "starting" ELSE "select"
    /\ UNCHANGED <<kind, file, conf, pub, ins, run, fwd, srv>>

\* v2socks: startServer.
LoadedV2Socks(ok) ==
    /\ kind = "v2socks" /\ pc = "select" /\ conf # Zero
    /\ told' = TRUE
    /\ srv' = IF srv = None /\ ok THEN conf.addr ELSE srv
    /\ pc' = IF srv' = None THEN "leaving" ELSE "select"
    /\ UNCHANGED <<kind, file, conf, pub, new, ins, run, fwd>>

\* The deferred calls: the forward server is closed before the instance, and
\* the server of v2socks last.
CloseForward ==
    /\ pc = "leaving"
    /\ fwd' = FALSE /\ pc' = "stopping"
    /\ UNCHANGED <<kind, file, conf, pub, new, ins, run, srv, told>>

CloseInstance ==
    /\ pc = "stopping"
    /\ ins' = 0 /\ run' = Closed(ins)
    /\ pc' = "closing"
    /\ UNCHANGED <<kind, file, conf, pub, new, fwd, srv, told>>

CloseServer ==
    /\ pc = "closing"
    /\ srv' = None /\ conf' = Zero /\ pub' = 0
    /\ pc' = "done"
    /\ UNCHANGED <<kind, file, new, ins, run, fwd, told>>

InstanceNext ==
    \/ \E s \in Contents : FileChanges(s)
    \/ \E c \in Configs : LoadEvent(c)
    \/ Leave \/ Stop \/ Keep \/ Store
    \/ \E ok \in BOOLEAN : Start(ok) \/ LoadedV2Socks(ok)
    \/ LoadedV2Ray \/ CloseForward \/ CloseInstance \/ CloseServer

InstanceSpec == InstanceInit /\ [][InstanceNext]_instanceVars

-----------------------------------------------------------------------------
(***************************************************************************)
(* Correctness properties.                                                 *)
(***************************************************************************)

\* What options say, without going through parts and cuts: a URL has it in its
\* fields; of a type the last protocol and transport count.
LastOf(type, S, default) ==
    LET at == {i \in DOMAIN type : type[i] \in S}
    IN IF at = {} THEN default ELSE type[CHOOSE i \in at : \A j \in at : j <= i]
Says(c) ==
    IF c.url # None
    THEN [protocol |-> c.url.scheme,
          transport |-> IF c.url.type = "" THEN "TCP" ELSE c.url.type,
          tls |-> c.url.tls \/ c.url.type = "GRPC"]
    ELSE [protocol |-> LastOf(c.type, Protocols, "VMESS"),
          transport |-> LastOf(c.type, Transports, "TCP"),
          tls |-> "TLS" \in ToSet(c.type)]

\* Between two events the instance runs what the current options say, with the
\* certificate as last loaded, whatever was loaded before, changed or failed;
\* it is the one that connections are given; the forward server that it dials
\* through is up. Nobody is given a closed instance, and a v2ray job that has
\* been told that loading is over has one.
InstanceFits ==
    pc = "select" =>
        /\ pub = ins
        /\ ins # 0 => /\ run[ins] # None
                      /\ run[ins].is = Says(conf)
                      /\ run[ins].of.pem = conf.pem /\ run[ins].of.addr = conf.addr
                      /\ run[ins].of.forward = (conf.proxy # 0)
                      /\ run[ins].of.forward => fwd
        /\ (kind = "v2ray" /\ told) => ins # 0

\* At no time do two instances run, which would fight for the same port, and
\* when Run has returned nothing of it is left.
OneInstance ==
    /\ Cardinality({i \in DOMAIN run : run[i] # None}) <= 1
    /\ pc = "done" => (\A i \in DOMAIN run : run[i] = None) /\ ~fwd /\ srv = None
=============================================================================
