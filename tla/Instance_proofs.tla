-------------------------- MODULE Instance_proofs --------------------------
(***************************************************************************)
(* For every set of options and every content of the certificate file: at  *)
(* most one V2Ray instance runs at a time, none outlives Run, and between  *)
(* two events the instance runs what the current options say.              *)
(***************************************************************************)
EXTENDS Instance, FiniteSetTheorems, SequenceTheorems, TLAPS

\* The instance that runs is the one the event loop knows of. An instance is
\* started only when there is none; a closed one may still be published.
Known ==
    /\ ins \in {0, 1, 2}
    /\ run = [i \in {1, 2} |-> run[i]]
    /\ \A i \in {1, 2} : run[i] # None => i = ins
    /\ pc = "starting" => ins = 0

\* What the deferred calls have closed stays closed.
Deferred ==
    /\ pc \in {"stopping", "closing", "done"} => ~fwd
    /\ pc \in {"closing", "done"} => ins = 0
    /\ pc = "done" => srv = None

IInv == Known /\ Deferred

LEMMA InitIInv == InstanceInit => IInv
  BY DEF InstanceInit, IInv, Known, Deferred

\* stopInstance leaves no instance running.
LEMMA ClosedAll ==
  ASSUME Known
  PROVE  /\ Closed(ins) = [i \in {1, 2} |-> Closed(ins)[i]]
         /\ \A i \in {1, 2} : Closed(ins)[i] = None
  BY DEF Known, Closed

LEMMA StepIInv ==
  ASSUME IInv, [InstanceNext]_instanceVars
  PROVE  IInv'
<1>1. ASSUME NEW c \in Configs, LoadEvent(c) PROVE IInv'
  <2>1. CASE c.addr # conf.addr /\ kind = "v2ray"
    <3>1. ins' = 0 /\ run' = Closed(ins) /\ pc' = "loading"
      BY <1>1, <2>1 DEF LoadEvent
    <3>2. Known'
      BY <3>1, ClosedAll DEF IInv, Known
    <3> QED BY <3>1, <3>2 DEF IInv, Deferred
  <2>2. CASE ~(c.addr # conf.addr /\ kind = "v2ray")
    <3>1. ins' = ins /\ run' = run /\ pc' = "loading"
      BY <1>1, <2>2 DEF LoadEvent
    <3> QED BY <3>1 DEF IInv, Known, Deferred
  <2> QED BY <2>1, <2>2
<1>2. ASSUME Stop PROVE IInv'
  <2>1. ins' = 0 /\ run' = Closed(ins) /\ pc' \in {"starting", "storing"}
    BY <1>2 DEF Stop
  <2>2. Known'
    BY <2>1, ClosedAll DEF IInv, Known
  <2> QED BY <2>1, <2>2 DEF IInv, Deferred
<1>3. ASSUME NEW ok \in BOOLEAN, Start(ok) PROVE IInv'
  <2> DEFINE free == CHOOSE i \in {1, 2} : run[i] = None /\ i # pub
  <2>1. ins = 0 /\ \A i \in {1, 2} : run[i] = None
    BY <1>3 DEF Start, IInv, Known
  <2>2. \E i \in {1, 2} : run[i] = None /\ i # pub
    <3>1. CASE pub = 1
      BY <2>1, <3>1
    <3>2. CASE pub # 1
      BY <2>1, <3>2
    <3> QED BY <3>1, <3>2
  <2>3. free \in {1, 2}
    BY <2>2
  <2>4. pc' \in {"storing", "leaving"}
    BY <1>3 DEF Start
  <2>5. CASE ok
    <3>1. ins' = free /\ run' = [run EXCEPT ![free] = [is |-> parseOptions(new), of |-> new]]
      BY <1>3, <2>5 DEF Start
    <3> HIDE DEF free
    <3>2. Known'
      BY <2>1, <2>3, <2>4, <3>1 DEF IInv, Known
    <3> QED BY <2>4, <3>2 DEF IInv, Deferred
  <2>6. CASE ~ok
    <3>1. ins' = ins /\ run' = run
      BY <1>3, <2>6 DEF Start
    <3> QED BY <2>4, <3>1 DEF IInv, Known, Deferred
  <2> QED BY <2>5, <2>6
<1>4. ASSUME CloseInstance PROVE IInv'
  <2>1. ins' = 0 /\ run' = Closed(ins) /\ pc' = "closing" /\ pc = "stopping" /\ fwd' = fwd
    BY <1>4 DEF CloseInstance
  <2>2. Known'
    BY <2>1, ClosedAll DEF IInv, Known
  <2> QED BY <2>1, <2>2 DEF IInv, Deferred
<1>5. ASSUME CloseForward \/ CloseServer PROVE IInv'
  BY <1>5 DEF CloseForward, CloseServer, IInv, Known, Deferred
<1>6. ASSUME Leave \/ Keep \/ Store PROVE IInv'
  BY <1>6 DEF Leave, Keep, Store, IInv, Known, Deferred
<1>7. ASSUME LoadedV2Ray PROVE IInv'
  BY <1>7 DEF LoadedV2Ray, IInv, Known, Deferred
<1>8. ASSUME NEW ok \in BOOLEAN, LoadedV2Socks(ok) PROVE IInv'
  BY <1>8 DEF LoadedV2Socks, IInv, Known, Deferred
<1>9. ASSUME NEW s \in Contents, FileChanges(s) PROVE IInv'
  BY <1>9 DEF FileChanges, IInv, Known, Deferred
<1>10. ASSUME UNCHANGED instanceVars PROVE IInv'
  BY <1>10 DEF instanceVars, IInv, Known, Deferred
<1> QED
  BY <1>1, <1>2, <1>3, <1>4, <1>5, <1>6, <1>7, <1>8, <1>9, <1>10 DEF InstanceNext

LEMMA IInvOne == IInv => OneInstance
<1> SUFFICES ASSUME IInv PROVE OneInstance
  OBVIOUS
<1> DEFINE live == {i \in DOMAIN run : run[i] # None}
<1>1. DOMAIN run = {1, 2}
  BY DEF IInv, Known
<1>2. live \subseteq {ins}
  BY <1>1 DEF IInv, Known
<1>3. Cardinality(live) <= 1
  <2>1. IsFiniteSet({ins}) /\ Cardinality({ins}) = 1
    BY FS_Singleton
  <2> HIDE DEF live
  <2>2. IsFiniteSet(live) /\ Cardinality(live) <= Cardinality({ins})
    BY <1>2, <2>1, FS_Subset
  <2> QED BY <2>1, <2>2
<1>4. pc = "done" => (\A i \in DOMAIN run : run[i] = None) /\ ~fwd /\ srv = None
  BY <1>1 DEF IInv, Known, Deferred
<1> QED BY <1>3, <1>4 DEF OneInstance

\* Whatever is loaded, fails, is cancelled or written to the certificate file
\* and in whatever order, a new instance is started only after stopInstance has
\* closed the old one, and Run leaves neither an instance nor a server behind
\* (startInstance, stopInstance and the deferred calls of v2ray and v2socks).
THEOREM NeverTwo == InstanceSpec => []OneInstance
<1>1. InstanceInit => IInv
  BY InitIInv
<1>2. IInv /\ [InstanceNext]_instanceVars => IInv'
  BY StepIInv
<1>3. IInv => OneInstance
  BY IInvOne
<1> QED BY <1>1, <1>2, <1>3, PTL DEF InstanceSpec

-----------------------------------------------------------------------------
(***************************************************************************)
(* Induction over natural numbers, for a set of them.                      *)
(***************************************************************************)

\* A set of natural numbers that is not empty has a least element.
LEMMA Least ==
  ASSUME NEW T \in SUBSET Nat, T # {}
  PROVE  \E n \in T : \A m \in T : n <= m
<1>1. PICK n \in T : \A m \in T : ~(<<m, n>> \in OpToRel(<, Nat))
  BY WFMin, NatLessThanWellFounded
<1>2. \A m \in T : ~(m < n)
  BY <1>1 DEF OpToRel
<1> QED BY <1>2

\* A set that holds a number if it holds all smaller ones holds all.
LEMMA AllNumbers ==
  ASSUME NEW T \in SUBSET Nat,
         \A n \in Nat : (\A m \in 0 .. (n - 1) : m \in T) => n \in T
  PROVE  \A n \in Nat : n \in T
<1> SUFFICES ASSUME Nat \ T # {} PROVE FALSE
  OBVIOUS
<1>1. PICK n \in Nat \ T : \A m \in Nat \ T : n <= m
  BY Least
<1>2. \A m \in 0 .. (n - 1) : m \in T
  BY <1>1
<1> QED BY <1>1, <1>2

-----------------------------------------------------------------------------
(***************************************************************************)
(* parseOptions finds what the options say.                                *)
(***************************************************************************)

Nothing == [protocol |-> "VMESS", transport |-> "TCP", tls |-> FALSE]

LEMMA ReadExists ==
  ASSUME NEW s
  PROVE  \A n \in Nat : \E g : g = [i \in 0 .. n |-> IF i = 0 THEN Nothing ELSE ReadPart(g[i - 1], s[i])]
<1> DEFINE P(n) == \E g : g = [i \in 0 .. n |-> IF i = 0 THEN Nothing ELSE ReadPart(g[i - 1], s[i])]
           T == {n \in Nat : P(n)}
<1>1. ASSUME NEW n \in Nat, \A m \in 0 .. (n - 1) : m \in T PROVE n \in T
  <2>1. CASE n = 0
    <3> DEFINE g == [i \in 0 .. 0 |-> Nothing]
    <3>1. g = [i \in 0 .. 0 |-> IF i = 0 THEN Nothing ELSE ReadPart(g[i - 1], s[i])]
      OBVIOUS
    <3> QED BY <2>1, <3>1
  <2>2. CASE n # 0
    <3>1. n - 1 \in T
      BY <1>1, <2>2
    <3>2. PICK g : g = [i \in 0 .. (n - 1) |-> IF i = 0 THEN Nothing ELSE ReadPart(g[i - 1], s[i])]
      BY <3>1
    <3> DEFINE h == [i \in 0 .. n |-> IF i = n THEN ReadPart(g[n - 1], s[n]) ELSE g[i]]
    <3>3. \A i \in 0 .. n : h[i] = IF i = 0 THEN Nothing ELSE ReadPart(h[i - 1], s[i])
      BY <2>2, <3>2
    <3>4. h = [i \in 0 .. n |-> IF i = 0 THEN Nothing ELSE ReadPart(h[i - 1], s[i])]
      BY <3>3
    <3> QED BY <3>4
  <2> QED BY <2>1, <2>2
<1>2. \A n \in Nat : n \in T
  <2> HIDE DEF T
  <2>1. T \in SUBSET Nat BY DEF T
  <2> QED BY <1>1, <2>1, AllNumbers
<1> QED BY <1>2

\* The parts are read from the first to the last.
LEMMA ReadAt ==
  ASSUME NEW s, Len(s) \in Nat
  PROVE  /\ ReadParts(s)[0] = Nothing
         /\ \A i \in 1 .. Len(s) : ReadParts(s)[i] = ReadPart(ReadParts(s)[i - 1], s[i])
<1>1. \E g : g = [i \in 0 .. Len(s) |-> IF i = 0 THEN Nothing ELSE ReadPart(g[i - 1], s[i])]
  BY ReadExists
<1>2. ReadParts(s) = [i \in 0 .. Len(s) |-> IF i = 0 THEN Nothing ELSE ReadPart(ReadParts(s)[i - 1], s[i])]
  BY <1>1 DEF ReadParts, Nothing
<1> QED BY <1>2

\* The last of the first i parts that is in S.
At(s, i, S) == {j \in 1 .. i : s[j] \in S}
LastAt(s, at, d) == IF at = {} THEN d ELSE s[CHOOSE k \in at : \A j \in at : j <= k]
LastIn(s, i, S, d) == LastAt(s, At(s, i, S), d)

LEMMA LastInNext ==
  ASSUME NEW s, NEW i \in Nat, i > 0, NEW S, NEW d
  PROVE  LastIn(s, i, S, d) = IF s[i] \in S THEN s[i] ELSE LastIn(s, i - 1, S, d)
<1>1. CASE s[i] \in S
  <2>1. PICK A : A = At(s, i, S)
    OBVIOUS
  <2>2. i \in A /\ \A j \in A : j \in Nat /\ j <= i
    BY <1>1, <2>1 DEF At
  <2>3. \A k \in A : (\A j \in A : j <= k) => k = i
    BY <2>2
  <2>4. i = CHOOSE k \in A : \A j \in A : j <= k
    BY <2>2, <2>3
  <2>5. LastAt(s, A, d) = s[i]
    BY <2>2, <2>4 DEF LastAt
  <2> QED BY <1>1, <2>1, <2>5 DEF LastIn
<1>2. CASE s[i] \notin S
  <2>1. At(s, i, S) = At(s, i - 1, S)
    BY <1>2 DEF At
  <2> QED BY <1>2, <2>1 DEF LastIn
<1> QED BY <1>1, <1>2

\* What the first i parts of s say.
SaysUpTo(s, i) ==
    [protocol |-> LastIn(s, i, Protocols, "VMESS"),
     transport |-> LastIn(s, i, Transports, "TCP"),
     tls |-> \E j \in 1 .. i : s[j] = "TLS"]

LEMMA Sorts == \A t \in Protocols : t \in AllProtocols /\ t \notin Transports /\ t # "TLS"
<1>1. Protocols \subseteq AllProtocols
  BY DEF Protocols
<1>2. \A t \in AllProtocols : t \notin Transports /\ t # "TLS"
  BY DEF AllProtocols, Transports
<1> QED BY <1>1, <1>2

LEMMA ReadNext ==
  ASSUME NEW s, NEW i \in Nat, i > 0
  PROVE  ReadPart(SaysUpTo(s, i - 1), s[i]) = SaysUpTo(s, i)
<1>1. /\ LastIn(s, i, Protocols, "VMESS") =
           IF s[i] \in Protocols THEN s[i] ELSE LastIn(s, i - 1, Protocols, "VMESS")
      /\ LastIn(s, i, Transports, "TCP") =
           IF s[i] \in Transports THEN s[i] ELSE LastIn(s, i - 1, Transports, "TCP")
  BY LastInNext
<1>2. (\E j \in 1 .. i : s[j] = "TLS") <=> (\E j \in 1 .. (i - 1) : s[j] = "TLS") \/ s[i] = "TLS"
  <2>1. ASSUME NEW j \in 1 .. i, s[j] = "TLS", s[i] # "TLS" PROVE \E k \in 1 .. (i - 1) : s[k] = "TLS"
    <3>1. j \in 1 .. (i - 1)
      BY <2>1
    <3> QED BY <2>1, <3>1
  <2>2. i \in 1 .. i /\ \A k \in 1 .. (i - 1) : k \in 1 .. i
    OBVIOUS
  <2> QED BY <2>1, <2>2
<1>3. s[i] \in Protocols => s[i] \notin Transports /\ s[i] # "TLS"
  BY Sorts
<1>4. s[i] \in Transports => s[i] # "TLS"
  BY DEF Transports
<1>5. PICK x \in BOOLEAN : x = \E j \in 1 .. (i - 1) : s[j] = "TLS"
  OBVIOUS
<1>6. PICK y \in BOOLEAN : y = \E j \in 1 .. i : s[j] = "TLS"
  OBVIOUS
<1>7. y = (x \/ s[i] = "TLS")
  BY <1>2, <1>5, <1>6
<1>8. /\ SaysUpTo(s, i - 1) = [protocol |-> LastIn(s, i - 1, Protocols, "VMESS"),
                               transport |-> LastIn(s, i - 1, Transports, "TCP"), tls |-> x]
      /\ SaysUpTo(s, i) = [protocol |-> LastIn(s, i, Protocols, "VMESS"),
                           transport |-> LastIn(s, i, Transports, "TCP"), tls |-> y]
  BY <1>5, <1>6 DEF SaysUpTo
<1>9. CASE s[i] \in Protocols
  <2>1. y = x
    BY <1>3, <1>7, <1>9
  <2> QED BY <1>1, <1>3, <1>8, <1>9, <2>1 DEF ReadPart
<1>10. CASE s[i] \notin Protocols /\ s[i] \in Transports
  <2>1. y = x
    BY <1>4, <1>7, <1>10
  <2> QED BY <1>1, <1>8, <1>10, <2>1 DEF ReadPart
<1>11. CASE s[i] \notin Protocols /\ s[i] \notin Transports
  BY <1>1, <1>7, <1>8, <1>11 DEF ReadPart
<1> QED BY <1>9, <1>10, <1>11

\* The fold over the parts says what they say.
LEMMA ReadSays ==
  ASSUME NEW s, Len(s) \in Nat
  PROVE  \A i \in 0 .. Len(s) : ReadParts(s)[i] = SaysUpTo(s, i)
<1> DEFINE T == {n \in Nat : n <= Len(s) => ReadParts(s)[n] = SaysUpTo(s, n)}
<1>1. ASSUME NEW n \in Nat, \A m \in 0 .. (n - 1) : m \in T PROVE n \in T
  <2> SUFFICES ASSUME n <= Len(s) PROVE ReadParts(s)[n] = SaysUpTo(s, n)
    OBVIOUS
  <2>1. CASE n = 0
    <3>1. (\E j \in 1 .. 0 : s[j] = "TLS") = FALSE
      OBVIOUS
    <3>2. LastIn(s, 0, Protocols, "VMESS") = "VMESS" /\ LastIn(s, 0, Transports, "TCP") = "TCP"
      BY DEF LastIn, LastAt, At
    <3>3. SaysUpTo(s, 0) = Nothing
      BY <3>1, <3>2 DEF SaysUpTo, Nothing
    <3> QED BY <2>1, <3>3, ReadAt
  <2>2. CASE n # 0
    <3>1. ReadParts(s)[n - 1] = SaysUpTo(s, n - 1)
      BY <1>1, <2>2
    <3>2. ReadParts(s)[n] = ReadPart(ReadParts(s)[n - 1], s[n])
      BY <2>2, ReadAt
    <3>3. ReadPart(SaysUpTo(s, n - 1), s[n]) = SaysUpTo(s, n)
      BY <2>2, ReadNext
    <3> QED BY <3>1, <3>2, <3>3
  <2> QED BY <2>1, <2>2
<1>2. \A n \in Nat : n \in T
  <2> HIDE DEF T
  <2>1. T \in SUBSET Nat BY DEF T
  <2> QED BY <1>1, <2>1, AllNumbers
<1> QED BY <1>2

Result == [protocol : AllProtocols, transport : Transports, tls : BOOLEAN]

\* The last part of a sort is of that sort, or the default.
LEMMA LastInIn ==
  ASSUME NEW s, NEW S, NEW d
  PROVE  \A n \in Nat : LastIn(s, n, S, d) \in S \cup {d}
<1> DEFINE T == {n \in Nat : LastIn(s, n, S, d) \in S \cup {d}}
<1>1. ASSUME NEW n \in Nat, \A m \in 0 .. (n - 1) : m \in T PROVE n \in T
  <2>1. CASE n = 0
    <3>1. At(s, 0, S) = {}
      BY DEF At
    <3> QED BY <2>1, <3>1 DEF LastIn, LastAt
  <2>2. CASE n # 0
    <3>1. LastIn(s, n - 1, S, d) \in S \cup {d}
      BY <1>1, <2>2
    <3>2. LastIn(s, n, S, d) = IF s[n] \in S THEN s[n] ELSE LastIn(s, n - 1, S, d)
      BY <2>2, LastInNext
    <3> QED BY <3>1, <3>2
  <2> QED BY <2>1, <2>2
<1>2. \A n \in Nat : n \in T
  <2> HIDE DEF T
  <2>1. T \in SUBSET Nat BY DEF T
  <2> QED BY <1>1, <2>1, AllNumbers
<1> QED BY <1>2

LEMMA SaysResult ==
  ASSUME NEW s, NEW n \in Nat
  PROVE  SaysUpTo(s, n) \in Result
<1>1. LastIn(s, n, Protocols, "VMESS") \in Protocols \cup {"VMESS"}
  BY LastInIn
<1>2. LastIn(s, n, Transports, "TCP") \in Transports \cup {"TCP"}
  BY LastInIn
<1>3. "VMESS" \in AllProtocols /\ "TCP" \in Transports
  BY DEF AllProtocols, Transports
<1>4. PICK x \in BOOLEAN : x = \E j \in 1 .. n : s[j] = "TLS"
  OBVIOUS
<1>5. SaysUpTo(s, n) = [protocol |-> LastIn(s, n, Protocols, "VMESS"),
                        transport |-> LastIn(s, n, Transports, "TCP"), tls |-> x]
  BY <1>4 DEF SaysUpTo
<1>6. LastIn(s, n, Protocols, "VMESS") \in AllProtocols
  BY <1>1, <1>3, Sorts
<1> QED BY <1>2, <1>3, <1>5, <1>6 DEF Result

\* A type that is not refused has at most three parts, and is taken for what
\* its last protocol and transport say.
LEMMA ParsesType ==
  ASSUME NEW type \in Seq(STRING), ParseType(type) # Error
  PROVE  /\ ParseType(type) = [protocol |-> LastOf(type, Protocols, "VMESS"),
                               transport |-> LastOf(type, Transports, "TCP"),
                               tls |-> "TLS" \in ToSet(type)]
         /\ ParseType(type) \in Result
<1>1. Len(type) \in Nat /\ DOMAIN type = 1 .. Len(type)
  OBVIOUS
<1>2. Len(type) <= 3
  <2> SUFFICES ASSUME Len(type) > 3 PROVE FALSE
    BY <1>1
  <2>1. PICK two : two = SubSeq(type, 1, 2)
    OBVIOUS
  <2>2. two \in Seq(STRING) /\ Len(two) = 2
    BY <1>1, <2>1
  <2>3. PICK parts : parts = two \o <<"unknown">>
    OBVIOUS
  <2>4. 3 \in DOMAIN parts /\ parts[3] = "unknown"
    <3>1. PICK S : S = STRING \cup {"unknown"}
      OBVIOUS
    <3>2. PICK one : one = <<"unknown">>
      OBVIOUS
    <3>3. two \in Seq(S) /\ one \in Seq(S) /\ Len(one) = 1 /\ one[1] = "unknown"
      BY <2>2, <3>1, <3>2
    <3>4. parts = two \o one
      BY <2>3, <3>2
    <3>5. parts \in Seq(S) /\ Len(parts) = 3 /\ parts[3] = one[1]
      <4>1. /\ two \o one \in Seq(S) /\ Len(two \o one) = 2 + 1
            /\ \A i \in 1 .. (2 + 1) : (two \o one)[i] = IF i <= 2 THEN two[i] ELSE one[i - 2]
        BY <2>2, <3>3, ConcatProperties
      <4> QED BY <3>4, <4>1
    <3> QED BY <3>3, <3>5
  <2>5. SplitN(type) = parts
    BY <1>1, <2>1, <2>3 DEF SplitN
  <2>6. "unknown" \notin Protocols \cup Transports \cup {"TLS", ""}
    <3>1. "unknown" \notin AllProtocols /\ "unknown" \notin Transports
      BY DEF AllProtocols, Transports
    <3> QED BY <3>1, Sorts
  <2> QED BY <2>4, <2>5, <2>6 DEF ParseType
<1>3. ParseType(type) = ReadParts(type)[Len(type)]
  BY <1>1, <1>2 DEF ParseType, SplitN
<1>4. ParseType(type) = SaysUpTo(type, Len(type))
  BY <1>1, <1>3, ReadSays
<1>5. \A S, d : LastIn(type, Len(type), S, d) = LastOf(type, S, d)
  <2> TAKE S, d
  <2>1. PICK A : A = At(type, Len(type), S)
    OBVIOUS
  <2>2. A = {i \in DOMAIN type : type[i] \in S}
    BY <1>1, <2>1 DEF At
  <2> QED BY <2>1, <2>2 DEF LastOf, LastIn, LastAt
<1>6. (\E j \in 1 .. Len(type) : type[j] = "TLS") <=> "TLS" \in ToSet(type)
  BY <1>1 DEF ToSet
<1>7. ParseType(type) \in Result
  BY <1>1, <1>4, SaysResult
<1>8. PICK x \in BOOLEAN : x = \E j \in 1 .. Len(type) : type[j] = "TLS"
  OBVIOUS
<1>9. x = ("TLS" \in ToSet(type))
  <2>1. x <=> "TLS" \in ToSet(type)
    BY <1>6, <1>8
  <2>2. CASE "TLS" \in ToSet(type)
    BY <2>1, <2>2
  <2>3. CASE "TLS" \notin ToSet(type)
    <3>1. x = FALSE
      BY <2>1, <2>3
    <3>2. ("TLS" \in ToSet(type)) = FALSE
      BY <2>3
    <3> QED BY <3>1, <3>2
  <2> QED BY <2>2, <2>3
<1>10. SaysUpTo(type, Len(type)) =
         [protocol |-> LastOf(type, Protocols, "VMESS"),
          transport |-> LastOf(type, Transports, "TCP"), tls |-> x]
  BY <1>5, <1>8 DEF SaysUpTo
<1> QED BY <1>4, <1>7, <1>9, <1>10

\* What is read of one, two and three parts.
LEMMA ReadFew ==
  ASSUME NEW a, NEW b, NEW c
  PROVE  /\ ReadParts(<<a>>)[1] = ReadPart(Nothing, a)
         /\ ReadParts(<<a, b>>)[2] = ReadPart(ReadPart(Nothing, a), b)
         /\ ReadParts(<<a, b, c>>)[3] = ReadPart(ReadPart(ReadPart(Nothing, a), b), c)
<1>1. ReadParts(<<a>>)[1] = ReadPart(Nothing, a)
  <2>1. PICK s : s = <<a>>
    OBVIOUS
  <2>2. Len(s) = 1 /\ s[1] = a
    BY <2>1
  <2>3. ReadParts(s)[0] = Nothing /\ ReadParts(s)[1] = ReadPart(ReadParts(s)[1 - 1], s[1])
    <3>1. ReadParts(s)[0] = Nothing /\ \A i \in 1 .. 1 : ReadParts(s)[i] = ReadPart(ReadParts(s)[i - 1], s[i])
      <4>1. Len(s) \in Nat
        BY <2>2
      <4>2. /\ ReadParts(s)[0] = Nothing
            /\ \A i \in 1 .. Len(s) : ReadParts(s)[i] = ReadPart(ReadParts(s)[i - 1], s[i])
        BY <4>1, ReadAt
      <4> QED BY <2>2, <4>2
    <3> QED BY <3>1
  <2> QED BY <2>1, <2>2, <2>3
<1>2. ReadParts(<<a, b>>)[2] = ReadPart(ReadPart(Nothing, a), b)
  <2>1. PICK s : s = <<a, b>>
    OBVIOUS
  <2>2. Len(s) = 2 /\ s[1] = a /\ s[2] = b
    BY <2>1
  <2>3. /\ ReadParts(s)[0] = Nothing /\ ReadParts(s)[1] = ReadPart(ReadParts(s)[1 - 1], s[1])
        /\ ReadParts(s)[2] = ReadPart(ReadParts(s)[2 - 1], s[2])
    <3>1. ReadParts(s)[0] = Nothing /\ \A i \in 1 .. 2 : ReadParts(s)[i] = ReadPart(ReadParts(s)[i - 1], s[i])
      <4>1. Len(s) \in Nat
        BY <2>2
      <4>2. /\ ReadParts(s)[0] = Nothing
            /\ \A i \in 1 .. Len(s) : ReadParts(s)[i] = ReadPart(ReadParts(s)[i - 1], s[i])
        BY <4>1, ReadAt
      <4> QED BY <2>2, <4>2
    <3> QED BY <3>1
  <2> QED BY <2>1, <2>2, <2>3
<1>3. ReadParts(<<a, b, c>>)[3] = ReadPart(ReadPart(ReadPart(Nothing, a), b), c)
  <2>1. PICK s : s = <<a, b, c>>
    OBVIOUS
  <2>2. Len(s) = 3 /\ s[1] = a /\ s[2] = b /\ s[3] = c
    BY <2>1
  <2>3. /\ ReadParts(s)[0] = Nothing /\ ReadParts(s)[1] = ReadPart(ReadParts(s)[1 - 1], s[1])
        /\ ReadParts(s)[2] = ReadPart(ReadParts(s)[2 - 1], s[2])
        /\ ReadParts(s)[3] = ReadPart(ReadParts(s)[3 - 1], s[3])
    <3>1. ReadParts(s)[0] = Nothing /\ \A i \in 1 .. 3 : ReadParts(s)[i] = ReadPart(ReadParts(s)[i - 1], s[i])
      <4>1. Len(s) \in Nat
        BY <2>2
      <4>2. /\ ReadParts(s)[0] = Nothing
            /\ \A i \in 1 .. Len(s) : ReadParts(s)[i] = ReadPart(ReadParts(s)[i - 1], s[i])
        BY <4>1, ReadAt
      <4> QED BY <2>2, <4>2
    <3> QED BY <3>1
  <2> QED BY <2>1, <2>2, <2>3
<1> QED BY <1>1, <1>2, <1>3

\* What parseURL puts together is read as it was meant.
LEMMA ReadURL ==
  ASSUME NEW p \in Protocols, NEW t \in Transports
  PROVE  /\ ReadParts(<<p>>)[1] = [protocol |-> p, transport |-> "TCP", tls |-> FALSE]
         /\ ReadParts(<<p, t>>)[2] = [protocol |-> p, transport |-> t, tls |-> FALSE]
         /\ ReadParts(<<p, t, "TLS">>)[3] = [protocol |-> p, transport |-> t, tls |-> TRUE]
<1>1. ReadPart(Nothing, p) = [protocol |-> p, transport |-> "TCP", tls |-> FALSE]
  BY DEF ReadPart, Nothing
<1>2. t \notin Protocols
  BY Sorts
<1>3. ReadPart([protocol |-> p, transport |-> "TCP", tls |-> FALSE], t)
        = [protocol |-> p, transport |-> t, tls |-> FALSE]
  BY <1>2 DEF ReadPart
<1>4. "TLS" \notin Protocols /\ "TLS" \notin Transports
  BY Sorts DEF Transports
<1>5. ReadPart([protocol |-> p, transport |-> t, tls |-> FALSE], "TLS")
        = [protocol |-> p, transport |-> t, tls |-> TRUE]
  BY <1>4 DEF ReadPart
<1>6. ReadPart(ReadPart(Nothing, p), t) = [protocol |-> p, transport |-> t, tls |-> FALSE]
  BY <1>1, <1>3
<1>7. ReadPart(ReadPart(ReadPart(Nothing, p), t), "TLS") = [protocol |-> p, transport |-> t, tls |-> TRUE]
  BY <1>5, <1>6
<1>8. /\ ReadParts(<<p>>)[1] = ReadPart(Nothing, p)
      /\ ReadParts(<<p, t>>)[2] = ReadPart(ReadPart(Nothing, p), t)
      /\ ReadParts(<<p, t, "TLS">>)[3] = ReadPart(ReadPart(ReadPart(Nothing, p), t), "TLS")
  BY ReadFew
<1> QED BY <1>1, <1>6, <1>7, <1>8

LEMMA Joined ==
  ASSUME NEW a, NEW b, NEW c
  PROVE  <<a>> \o <<b>> = <<a, b>> /\ <<a>> \o <<b, c>> = <<a, b, c>>
<1>1. PICK S : S = {a, b, c}
  OBVIOUS
<1>2. PICK one : one = <<a>>
  OBVIOUS
<1>3. one \in Seq(S) /\ Len(one) = 1 /\ one[1] = a
  BY <1>1, <1>2
<1>4. one \o <<b>> = <<a, b>>
  <2>1. PICK s : s = <<b>>
    OBVIOUS
  <2>2. s \in Seq(S) /\ Len(s) = 1 /\ s[1] = b
    BY <1>1, <2>1
  <2>3. PICK r : r = <<a, b>>
    OBVIOUS
  <2>4. r \in Seq(S) /\ Len(r) = 2 /\ r[1] = a /\ r[2] = b
    BY <1>1, <2>3
  <2>5. /\ one \o s \in Seq(S) /\ Len(one \o s) = 1 + 1
        /\ \A i \in 1 .. (1 + 1) : (one \o s)[i] = IF i <= 1 THEN one[i] ELSE s[i - 1]
    BY <1>3, <2>2, ConcatProperties
  <2>6. \A i \in 1 .. Len(one \o s) : (one \o s)[i] = r[i]
    BY <1>3, <2>2, <2>4, <2>5
  <2>7. one \o s \in Seq(S) /\ r \in Seq(S) /\ Len(one \o s) = Len(r)
    BY <2>4, <2>5
  <2>8. one \o s = r
    BY <2>6, <2>7, SeqEqual
  <2> QED BY <2>1, <2>3, <2>8
<1>5. one \o <<b, c>> = <<a, b, c>>
  <2>1. PICK s : s = <<b, c>>
    OBVIOUS
  <2>2. s \in Seq(S) /\ Len(s) = 2 /\ s[1] = b /\ s[2] = c
    BY <1>1, <2>1
  <2>3. PICK r : r = <<a, b, c>>
    OBVIOUS
  <2>4. r \in Seq(S) /\ Len(r) = 3 /\ r[1] = a /\ r[2] = b /\ r[3] = c
    BY <1>1, <2>3
  <2>5. /\ one \o s \in Seq(S) /\ Len(one \o s) = 1 + 2
        /\ \A i \in 1 .. (1 + 2) : (one \o s)[i] = IF i <= 1 THEN one[i] ELSE s[i - 1]
    BY <1>3, <2>2, ConcatProperties
  <2>6. \A i \in 1 .. Len(one \o s) : (one \o s)[i] = r[i]
    BY <1>3, <2>2, <2>4, <2>5
  <2>7. one \o s \in Seq(S) /\ r \in Seq(S) /\ Len(one \o s) = Len(r)
    BY <2>4, <2>5
  <2>8. one \o s = r
    BY <2>6, <2>7, SeqEqual
  <2> QED BY <2>1, <2>3, <2>8
<1> QED BY <1>2, <1>4, <1>5

\* A URL that is accepted is taken for what its fields say.
LEMMA ParsesURL ==
  ASSUME NEW u \in URLs, ParseType(URLType(u)) # Error
  PROVE  /\ ParseType(URLType(u)) = [protocol |-> u.scheme,
                                     transport |-> IF u.type = "" THEN "TCP" ELSE u.type,
                                     tls |-> u.tls \/ u.type = "GRPC"]
         /\ ParseType(URLType(u)) \in Result
<1> DEFINE T == IF u.type = "" THEN "TCP" ELSE u.type
<1>1. /\ u.scheme \in AllProtocols /\ u.tls \in BOOLEAN
      /\ u.type \in {"GRPC", "HTTPUPGRADE", "TCP", "WS", ""}
      /\ u.scheme \in {"SHADOWSOCKS", "SHADOWSOCKS2022"} => u.type = "" /\ u.tls = FALSE
  BY DEF URLs, AllProtocols
<1>2. T \in Transports
  BY <1>1 DEF Transports
<1> HIDE DEF T
<1>3. ASSUME NEW n \in 1 .. 3, NEW s, Len(s) = n, 1 \in DOMAIN s, s[1] = u.scheme, URLType(u) = s
      PROVE  u.scheme \in Protocols /\ ParseType(URLType(u)) = ReadParts(s)[n]
  <2>1. u.scheme \notin Transports \cup {"TLS", ""}
    BY <1>1 DEF AllProtocols, Transports
  <2>2. SplitN(s) = s
    BY <1>3 DEF SplitN
  <2> QED BY <1>3, <2>1, <2>2 DEF ParseType
<1>4. ASSUME URLType(u) = <<u.scheme>>
      PROVE  /\ u.scheme \in Protocols
             /\ ParseType(URLType(u)) = [protocol |-> u.scheme, transport |-> "TCP", tls |-> FALSE]
  <2>1. PICK s : s = <<u.scheme>>
    OBVIOUS
  <2>2. Len(s) = 1 /\ 1 \in DOMAIN s /\ s[1] = u.scheme
    BY <2>1
  <2>3. u.scheme \in Protocols /\ ParseType(URLType(u)) = ReadParts(s)[1]
    <3>1. 1 \in 1 .. 3 /\ URLType(u) = s
      BY <1>4, <2>1
    <3> QED BY <1>3, <2>2, <3>1
  <2> QED BY <1>2, <2>1, <2>3, ReadURL
<1>5. ASSUME URLType(u) = <<u.scheme, T>>
      PROVE  /\ u.scheme \in Protocols
             /\ ParseType(URLType(u)) = [protocol |-> u.scheme, transport |-> T, tls |-> FALSE]
  <2>1. PICK s : s = <<u.scheme, T>>
    OBVIOUS
  <2>2. Len(s) = 2 /\ 1 \in DOMAIN s /\ s[1] = u.scheme
    BY <2>1
  <2>3. u.scheme \in Protocols /\ ParseType(URLType(u)) = ReadParts(s)[2]
    <3>1. 2 \in 1 .. 3 /\ URLType(u) = s
      BY <1>5, <2>1
    <3> QED BY <1>3, <2>2, <3>1
  <2> QED BY <1>2, <2>1, <2>3, ReadURL
<1>6. ASSUME URLType(u) = <<u.scheme, T, "TLS">>
      PROVE  /\ u.scheme \in Protocols
             /\ ParseType(URLType(u)) = [protocol |-> u.scheme, transport |-> T, tls |-> TRUE]
  <2>1. PICK s : s = <<u.scheme, T, "TLS">>
    OBVIOUS
  <2>2. Len(s) = 3 /\ 1 \in DOMAIN s /\ s[1] = u.scheme
    BY <2>1
  <2>3. u.scheme \in Protocols /\ ParseType(URLType(u)) = ReadParts(s)[3]
    <3>1. 3 \in 1 .. 3 /\ URLType(u) = s
      BY <1>6, <2>1
    <3> QED BY <1>3, <2>2, <3>1
  <2> QED BY <1>2, <2>1, <2>3, ReadURL
<1>7. PICK x \in BOOLEAN : x = (u.tls \/ u.type = "GRPC")
  OBVIOUS
<1>8. ParseType(URLType(u)) = [protocol |-> u.scheme, transport |-> T, tls |-> x]
  <2>1. CASE u.scheme \in {"SHADOWSOCKS", "SHADOWSOCKS2022"}
    <3>1. URLType(u) = <<u.scheme>>
      BY <2>1 DEF URLType
    <3>2. T = "TCP" /\ x = FALSE
      BY <1>1, <1>7, <2>1 DEF T
    <3> QED BY <1>4, <3>1, <3>2
  <2>2. CASE u.scheme \notin {"SHADOWSOCKS", "SHADOWSOCKS2022"} /\ x
    <3>1. URLType(u) = <<u.scheme>> \o <<T, "TLS">>
      <4>1. CASE u.type = "GRPC"
        BY <2>2, <4>1 DEF URLType, T
      <4>2. CASE u.type \in {"TCP", ""}
        <5>1. u.tls /\ T = "TCP"
          BY <1>1, <1>7, <2>2, <4>2 DEF T
        <5> QED BY <2>2, <4>2, <5>1 DEF URLType
      <4>3. CASE u.type \notin {"GRPC", "TCP", ""}
        <5>1. u.tls /\ T = u.type
          BY <1>1, <1>7, <2>2, <4>3 DEF T
        <5> QED BY <2>2, <4>3, <5>1 DEF URLType
      <4> QED BY <4>1, <4>2, <4>3
    <3>2. URLType(u) = <<u.scheme, T, "TLS">>
      BY <3>1, Joined
    <3> QED BY <1>6, <2>2, <3>2
  <2>3. CASE u.scheme \notin {"SHADOWSOCKS", "SHADOWSOCKS2022"} /\ ~x
    <3>1. URLType(u) = <<u.scheme>> \o <<T>>
      <4>1. u.type # "GRPC" /\ ~u.tls
        BY <1>7, <2>3
      <4>2. CASE u.type \in {"TCP", ""}
        <5>1. T = "TCP"
          BY <4>2 DEF T
        <5> QED BY <2>3, <4>1, <4>2, <5>1 DEF URLType
      <4>3. CASE u.type \notin {"TCP", ""}
        <5>1. T = u.type
          BY <4>3 DEF T
        <5> QED BY <2>3, <4>1, <4>3, <5>1 DEF URLType
      <4> QED BY <4>2, <4>3
    <3>2. URLType(u) = <<u.scheme, T>>
      BY <3>1, Joined
    <3>3. x = FALSE
      BY <1>7, <2>3
    <3> QED BY <1>5, <3>2, <3>3
  <2> QED BY <2>1, <2>2, <2>3
<1>9. ParseType(URLType(u)) \in Result
  <2>1. u.scheme \in AllProtocols /\ x \in BOOLEAN
    BY <1>1, <1>7
  <2> QED BY <1>2, <1>8, <2>1 DEF Result
<1> QED BY <1>7, <1>8, <1>9 DEF T

\* Says, with the kind of the service as a parameter.
ProtocolsOf(k) == IF k = "v2socks" THEN AllProtocols ELSE AllProtocols \ {"SHADOWSOCKS2022"}
SaysFor(k, c) ==
    IF c.url # None
    THEN [protocol |-> c.url.scheme,
          transport |-> IF c.url.type = "" THEN "TCP" ELSE c.url.type,
          tls |-> c.url.tls \/ c.url.type = "GRPC"]
    ELSE [protocol |-> LastOf(c.type, ProtocolsOf(k), "VMESS"),
          transport |-> LastOf(c.type, Transports, "TCP"),
          tls |-> "TLS" \in ToSet(c.type)]

LEMMA SaysByKind == \A c : Says(c) = SaysFor(kind, c)
  BY DEF Says, SaysFor, Protocols, ProtocolsOf

\* What is stored has the type and the URL of options that were loaded.
LEMMA StoredFields ==
  ASSUME NEW x \in Stored
  PROVE  /\ x.type \in Seq(STRING)
         /\ x.ok => x.url \in URLs \cup {None}
         /\ x.forward = (x.proxy # 0)
<1>1. PICK c \in Configs, p \in Contents \cup {None} : x = StoredAs(c, p)
  BY DEF Stored
<1>2. x.type = c.type /\ x.url = c.url /\ x.ok = c.ok
  BY <1>1 DEF StoredAs
<1>3. c.type \in Seq(STRING) /\ (c.ok => c.url \in URLs \cup {None})
  BY ConfigsAssumption
<1>4. x.forward = (x.proxy # 0)
  BY <1>1 DEF StoredAs
<1> QED BY <1>2, <1>3, <1>4

\* parseOptions finds in options what they say, or refuses them.
LEMMA Parses ==
  ASSUME NEW x \in Stored, parseOptions(x) # Error
  PROVE  parseOptions(x) = SaysFor(kind, x) /\ parseOptions(x) \in Result
<1>1. x.ok
  BY DEF parseOptions
<1>2. CASE x.url = None
  <2>1. parseOptions(x) = ParseType(x.type) /\ x.type \in Seq(STRING)
    BY <1>1, <1>2, StoredFields DEF parseOptions
  <2>2. /\ parseOptions(x) = [protocol |-> LastOf(x.type, Protocols, "VMESS"),
                              transport |-> LastOf(x.type, Transports, "TCP"),
                              tls |-> "TLS" \in ToSet(x.type)]
        /\ parseOptions(x) \in Result
    BY <2>1, ParsesType
  <2>3. Says(x) = [protocol |-> LastOf(x.type, Protocols, "VMESS"),
                   transport |-> LastOf(x.type, Transports, "TCP"),
                   tls |-> "TLS" \in ToSet(x.type)]
    BY <1>2 DEF Says
  <2> QED BY <2>2, <2>3, SaysByKind
<1>3. CASE x.url # None
  <2>1. parseOptions(x) = ParseType(URLType(x.url)) /\ x.url \in URLs
    BY <1>1, <1>3, StoredFields DEF parseOptions
  <2>2. /\ parseOptions(x) = [protocol |-> x.url.scheme,
                              transport |-> IF x.url.type = "" THEN "TCP" ELSE x.url.type,
                              tls |-> x.url.tls \/ x.url.type = "GRPC"]
        /\ parseOptions(x) \in Result
    BY <2>1, ParsesURL
  <2>3. Says(x) = [protocol |-> x.url.scheme,
                   transport |-> IF x.url.type = "" THEN "TCP" ELSE x.url.type,
                   tls |-> x.url.tls \/ x.url.type = "GRPC"]
    BY <1>3 DEF Says
  <2> QED BY <2>2, <2>3, SaysByKind
<1> QED BY <1>2, <1>3

-----------------------------------------------------------------------------
(***************************************************************************)
(* The instance fits the options.                                          *)
(***************************************************************************)

Options == Stored \cup {Zero}

\* The options are ones that were loaded, or the zero value before that.
OptionsInv ==
    /\ file \in Contents
    /\ conf \in Options /\ new \in Options
    /\ pc \in {"loading", "starting"} => new \in Stored

\* The instance runs what the options say that it was started with, ...
RunsInv == ins # 0 => run[ins] \in Running /\ run[ins].is = SaysFor(kind, run[ins].of)

\* ... which differ neither from the ones that are stored nor, once the event
\* loop has decided to keep it, from the ones that will be.
KeptInv ==
    /\ (pc \in {"select", "loading"} /\ ins # 0) => ~shouldRestart(run[ins].of, conf)
    /\ (pc = "storing" /\ ins # 0) => ~shouldRestart(run[ins].of, new)
    /\ pc = "select" => pub = ins

\* A forward server that old or new options need is up until Run leaves.
ForwardInv ==
    pc \in {"select", "loading", "starting", "storing"} =>
        (conf.forward => fwd) /\ (new.forward => fwd)

\* A v2ray job that was told has an instance, or is about to start one.
ToldInv ==
    /\ (kind = "v2ray" /\ told /\ pc \in {"select", "storing"}) => ins # 0
    /\ pc = "loading" => ~told

FitInv == OptionsInv /\ RunsInv /\ KeptInv /\ ForwardInv /\ ToldInv

\* shouldRestart compares: what need not restart for either need not for both.
LEMMA NoRestart ==
  /\ \A x : ~shouldRestart(x, x)
  /\ \A x, y, z : ~shouldRestart(x, y) /\ ~shouldRestart(y, z) => ~shouldRestart(x, z)
<1>1. \A x : ~shouldRestart(x, x)
  BY DEF shouldRestart
<1>2. ASSUME NEW x, NEW y, NEW z, ~shouldRestart(x, y), ~shouldRestart(y, z)
      PROVE  ~shouldRestart(x, z)
  <2>1. /\ (x.proxy = 0) = (y.proxy = 0) /\ [x EXCEPT !.proxy = 0] = [y EXCEPT !.proxy = 0]
        /\ (y.proxy = 0) = (z.proxy = 0) /\ [y EXCEPT !.proxy = 0] = [z EXCEPT !.proxy = 0]
    BY <1>2 DEF shouldRestart
  <2>2. (x.proxy = 0) = (z.proxy = 0) /\ [x EXCEPT !.proxy = 0] = [z EXCEPT !.proxy = 0]
    BY <2>1
  <2> QED BY <2>2 DEF shouldRestart
<1> QED BY <1>1, <1>2

LEMMA OptionsForward ==
  ASSUME NEW x \in Options
  PROVE  x.forward = (x.proxy # 0)
<1>1. CASE x \in Stored
  BY <1>1, StoredFields
<1>2. CASE x = Zero
  <2>1. x.forward = FALSE /\ x.proxy = 0
    BY <1>2 DEF Zero
  <2> QED BY <2>1
<1> QED BY <1>1, <1>2 DEF Options

LEMMA LoadedIsStored ==
  ASSUME NEW c \in Configs, file \in Contents
  PROVE  Loaded(c) \in Stored /\ (Loaded(c).forward <=> c.proxy # 0)
<1>1. PICK p \in Contents \cup {None} : p = IF c.cert THEN file ELSE None
  OBVIOUS
<1>2. Loaded(c) = StoredAs(c, p)
  BY <1>1 DEF Loaded
<1>3. Loaded(c) \in Stored
  BY <1>1, <1>2 DEF Stored
<1>4. Loaded(c).proxy = c.proxy
  BY <1>2 DEF StoredAs
<1>5. Loaded(c).forward = (Loaded(c).proxy # 0)
  BY <1>3, StoredFields
<1> QED BY <1>3, <1>4, <1>5

LEMMA InitFit == InstanceInit => FitInv
<1> SUFFICES ASSUME InstanceInit PROVE FitInv
  OBVIOUS
<1>1. pc = "select" /\ file \in Contents /\ conf = Zero /\ new = Zero /\ ins = 0 /\ pub = 0 /\ told = FALSE
  BY DEF InstanceInit
<1>2. ~Zero.forward
  BY DEF Zero
<1> QED
  BY <1>1, <1>2 DEF FitInv, OptionsInv, RunsInv, KeptInv, ForwardInv, ToldInv, Options

\* LoadEvent up to the choice whether to restart.
LEMMA LoadFits ==
  ASSUME IInv, FitInv, NEW c \in Configs, LoadEvent(c)
  PROVE  FitInv'
<1>1. /\ pc = "select" /\ pc' = "loading" /\ new' = Loaded(c) /\ told' = FALSE
      /\ UNCHANGED <<kind, file, conf>> /\ fwd' = (fwd \/ c.proxy # 0)
      /\ ins' = 0 \/ (ins' = ins /\ run' = run)
  <2>1. CASE c.addr # conf.addr /\ kind = "v2ray"
    BY <2>1 DEF LoadEvent
  <2>2. CASE ~(c.addr # conf.addr /\ kind = "v2ray")
    BY <2>2 DEF LoadEvent
  <2> QED BY <2>1, <2>2
<1>2. new' \in Stored /\ (new'.forward <=> c.proxy # 0)
  BY <1>1, LoadedIsStored DEF FitInv, OptionsInv
<1>3. OptionsInv'
  BY <1>1, <1>2 DEF FitInv, OptionsInv, Options
<1>4. RunsInv' /\ KeptInv'
  BY <1>1 DEF FitInv, RunsInv, KeptInv
<1>5. ForwardInv' /\ ToldInv'
  BY <1>1, <1>2 DEF FitInv, ForwardInv, ToldInv
<1> QED BY <1>3, <1>4, <1>5 DEF FitInv

\* Keeping the instance, or stopping it.
LEMMA DecideFits ==
  ASSUME IInv, FitInv, Keep \/ Stop
  PROVE  FitInv'
<1>1. CASE Stop
  <2>1. /\ pc = "loading" /\ pc' \in {"starting", "storing"} /\ ins' = 0
        /\ UNCHANGED <<kind, file, conf, new, fwd, told>>
    BY <1>1 DEF Stop
  <2> QED BY <2>1 DEF FitInv, OptionsInv, RunsInv, KeptInv, ForwardInv, ToldInv
<1>2. CASE Keep
  <2>1. /\ pc = "loading" /\ pc' = "storing" /\ ~shouldRestart(conf, new)
        /\ UNCHANGED <<kind, file, conf, new, fwd, told, ins, run>>
    BY <1>2 DEF Keep
  <2>2. KeptInv'
    <3>1. ins # 0 => ~shouldRestart(run[ins].of, conf)
      BY <2>1 DEF FitInv, KeptInv
    <3>2. ins # 0 => ~shouldRestart(run[ins].of, new)
      BY <2>1, <3>1, NoRestart
    <3> QED BY <2>1, <3>2 DEF KeptInv
  <2> QED BY <2>1, <2>2 DEF FitInv, OptionsInv, RunsInv, ForwardInv, ToldInv
<1> QED BY <1>1, <1>2

\* startInstance runs what the new options say.
LEMMA StartFits ==
  ASSUME IInv, FitInv, NEW ok \in BOOLEAN, Start(ok)
  PROVE  FitInv'
<1>1. /\ pc = "starting" /\ ins = 0 /\ \A i \in {1, 2} : run[i] = None
      /\ UNCHANGED <<kind, file, conf, new, fwd, told>>
  BY DEF Start, IInv, Known
<1>2. new \in Stored
  BY <1>1 DEF FitInv, OptionsInv
<1>3. CASE ok
  <2>1. PICK free \in {1, 2} : /\ ins' = free
                               /\ run' = [run EXCEPT ![free] = [is |-> parseOptions(new), of |-> new]]
    <3>1. \E i \in {1, 2} : run[i] = None /\ i # pub
      <4>1. CASE pub = 1
        BY <1>1, <4>1
      <4>2. CASE pub # 1
        BY <1>1, <4>2
      <4> QED BY <4>1, <4>2
    <3>2. PICK free : free = CHOOSE i \in {1, 2} : run[i] = None /\ i # pub
      OBVIOUS
    <3>3. free \in {1, 2}
      BY <3>1, <3>2
    <3> QED BY <1>3, <3>2, <3>3 DEF Start
  <2>2. parseOptions(new) # Error /\ pc' = "storing"
    BY <1>3 DEF Start
  <2>3. parseOptions(new) = SaysFor(kind, new) /\ parseOptions(new) \in Result
    BY <1>2, <2>2, Parses
  <2>4. PICK r : r = [is |-> parseOptions(new), of |-> new]
    OBVIOUS
  <2>5. r \in Running /\ r.is = SaysFor(kind, new) /\ r.of = new
    BY <1>2, <2>3, <2>4 DEF Running, Result
  <2>6. run'[ins'] = r
    BY <2>1, <2>4 DEF IInv, Known
  <2>7. RunsInv'
    BY <1>1, <2>5, <2>6 DEF RunsInv
  <2>8. KeptInv'
    BY <1>1, <2>2, <2>5, <2>6, NoRestart DEF KeptInv
  <2>9. OptionsInv' /\ ForwardInv' /\ ToldInv'
    BY <1>1, <2>1, <2>2 DEF FitInv, OptionsInv, ForwardInv, ToldInv
  <2> QED BY <2>7, <2>8, <2>9 DEF FitInv
<1>4. CASE ~ok
  <2>1. /\ ins' = 0 /\ pc' \in {"storing", "leaving"}
        /\ pc' = "storing" => kind = "v2socks"
    BY <1>1, <1>4 DEF Start
  <2> QED BY <1>1, <2>1 DEF FitInv, OptionsInv, RunsInv, KeptInv, ForwardInv, ToldInv
<1> QED BY <1>3, <1>4

LEMMA StepFit ==
  ASSUME IInv, FitInv, [InstanceNext]_instanceVars
  PROVE  FitInv'
<1>1. ASSUME NEW s \in Contents, FileChanges(s) PROVE FitInv'
  <2>1. file' \in Contents /\ UNCHANGED <<kind, pc, conf, pub, new, ins, run, fwd, told>>
    BY <1>1 DEF FileChanges
  <2> QED BY <2>1 DEF FitInv, OptionsInv, RunsInv, KeptInv, ForwardInv, ToldInv
<1>2. ASSUME Store PROVE FitInv'
  <2>1. /\ pc = "storing" /\ pc' = "select" /\ conf' = new /\ pub' = ins
        /\ UNCHANGED <<kind, file, new, ins, run, fwd, told>>
    BY <1>2 DEF Store
  <2> QED BY <2>1 DEF FitInv, OptionsInv, RunsInv, KeptInv, ForwardInv, ToldInv
<1>3. ASSUME LoadedV2Ray PROVE FitInv'
  <2>1. /\ pc = "select" /\ conf # Zero /\ new' = conf /\ pc' = IF ins = 0 THEN "starting" ELSE "select"
        /\ UNCHANGED <<kind, file, conf, pub, ins, run, fwd>>
    BY <1>3 DEF LoadedV2Ray
  <2>2. conf \in Stored
    BY <2>1 DEF FitInv, OptionsInv, Options
  <2> QED BY <2>1, <2>2 DEF FitInv, OptionsInv, RunsInv, KeptInv, ForwardInv, ToldInv
<1>4. ASSUME NEW ok \in BOOLEAN, LoadedV2Socks(ok) PROVE FitInv'
  <2>1. /\ kind = "v2socks" /\ pc = "select" /\ pc' \in {"select", "leaving"}
        /\ UNCHANGED <<kind, file, conf, pub, new, ins, run, fwd>>
    BY <1>4 DEF LoadedV2Socks
  <2> QED BY <2>1 DEF FitInv, OptionsInv, RunsInv, KeptInv, ForwardInv, ToldInv
<1>5. ASSUME Leave \/ CloseForward PROVE FitInv'
  <2>1. pc' \in {"leaving", "stopping"} /\ UNCHANGED <<kind, file, conf, new, ins, run>>
    BY <1>5 DEF Leave, CloseForward
  <2> QED BY <2>1 DEF FitInv, OptionsInv, RunsInv, KeptInv, ForwardInv, ToldInv
<1>6. ASSUME CloseInstance \/ CloseServer PROVE FitInv'
  <2>1. /\ pc' \in {"closing", "done"} /\ ins' = 0 /\ conf' \in {conf, Zero}
        /\ UNCHANGED <<kind, file, new>>
    BY <1>6 DEF CloseInstance, CloseServer, IInv, Deferred
  <2> QED BY <2>1 DEF FitInv, OptionsInv, RunsInv, KeptInv, ForwardInv, ToldInv, Options
<1>7. ASSUME UNCHANGED instanceVars PROVE FitInv'
  BY <1>7 DEF instanceVars, FitInv, OptionsInv, RunsInv, KeptInv, ForwardInv, ToldInv
<1> QED
  BY <1>1, <1>2, <1>3, <1>4, <1>5, <1>6, <1>7, LoadFits, DecideFits, StartFits DEF InstanceNext

\* What need not restart agrees in everything that an instance is made from.
LEMMA SameOptions ==
  ASSUME NEW x \in Stored, NEW y \in Options, ~shouldRestart(x, y)
  PROVE  /\ x.addr = y.addr /\ x.type = y.type /\ x.url = y.url
         /\ x.pem = y.pem /\ x.forward = y.forward
<1> DEFINE Fields == {"addr", "type", "url", "ok", "proxy", "cert", "pem", "forward"}
<1>1. DOMAIN x = Fields
  BY DEF Stored, StoredAs
<1>2. DOMAIN y = Fields
  <2>1. CASE y \in Stored
    BY <2>1 DEF Stored, StoredAs
  <2>2. CASE y = Zero
    BY <2>2 DEF Zero
  <2> QED BY <2>1, <2>2 DEF Options
<1>3. [x EXCEPT !.proxy = 0] = [y EXCEPT !.proxy = 0]
  BY DEF shouldRestart
<1>4. \A f \in Fields \ {"proxy"} : [x EXCEPT !.proxy = 0][f] = x[f] /\ [y EXCEPT !.proxy = 0][f] = y[f]
  BY <1>1, <1>2
<1>5. \A f \in Fields \ {"proxy"} : x[f] = y[f]
  BY <1>3, <1>4
<1> QED BY <1>5

LEMMA FitInvFits == FitInv => InstanceFits
<1> SUFFICES ASSUME FitInv, pc = "select" PROVE InstanceFits
  BY DEF InstanceFits
<1>1. ASSUME ins # 0
      PROVE  /\ run[ins] # None
             /\ run[ins].is = Says(conf)
             /\ run[ins].of.pem = conf.pem /\ run[ins].of.addr = conf.addr
             /\ run[ins].of.forward = (conf.proxy # 0)
             /\ run[ins].of.forward => fwd
  <2>1. run[ins] \in Running /\ run[ins].is = SaysFor(kind, run[ins].of)
    BY <1>1 DEF FitInv, RunsInv
  <2>2. run[ins] # None
    BY <2>1, NoneAssumption
  <2>3. PICK x \in Stored : x = run[ins].of
    BY <2>1 DEF Running
  <2>4. conf \in Options /\ ~shouldRestart(x, conf)
    BY <1>1, <2>3 DEF FitInv, OptionsInv, KeptInv
  <2>5. /\ x.addr = conf.addr /\ x.type = conf.type /\ x.url = conf.url
        /\ x.pem = conf.pem /\ x.forward = conf.forward
    BY <2>4, SameOptions
  <2>6. SaysFor(kind, x) = SaysFor(kind, conf)
    BY <2>5 DEF SaysFor
  <2>7. conf.forward = (conf.proxy # 0) /\ (conf.forward => fwd)
    BY <2>4, OptionsForward DEF FitInv, ForwardInv
  <2> QED BY <2>1, <2>2, <2>3, <2>5, <2>6, <2>7, SaysByKind
<1>2. pub = ins /\ ((kind = "v2ray" /\ told) => ins # 0)
  BY DEF FitInv, KeptInv, ToldInv
<1> QED BY <1>1, <1>2 DEF InstanceFits

\* Whatever was loaded before, failed or changed in the certificate file: what
\* parseOptions makes of the type or the URL is what they say, and the event
\* loop of v2ray and v2socks keeps an instance only as long as shouldRestart
\* sees no difference, so that between two events it runs the current options,
\* with their certificate and through a forward server that is up.
THEOREM AlwaysFits == InstanceSpec => []InstanceFits
<1>1. InstanceInit => IInv /\ FitInv
  BY InitIInv, InitFit
<1>2. IInv /\ FitInv /\ [InstanceNext]_instanceVars => (IInv /\ FitInv)'
  BY StepIInv, StepFit
<1>3. FitInv => InstanceFits
  BY FitInvFits
<1> QED BY <1>1, <1>2, <1>3, PTL DEF InstanceSpec
=============================================================================
