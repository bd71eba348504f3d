---------------------------- MODULE Socks_proofs ----------------------------
(***************************************************************************)
(* For any number of calls of getRemote, any options and any number of     *)
(* reloads: no connection that was dialled is lost, a race without a       *)
(* winner has an error to return unless it was cancelled, and what is      *)
(* cached fits the options in force.                                       *)
(***************************************************************************)
EXTENDS Socks, SequenceTheorems, TLAPS

CallType == [pc : {"none", "offer", "wait", "dial", "race", "error", "returned"},
             opts : Nat, gone : BOOLEAN, res : {None} \cup SUBSET STRING, ret : 0 .. 2,
             n : Int, closed : BOOLEAN, err : BOOLEAN]

LegType == [at : {"none", "dialing", "offering", "failed", "counting", "done"},
            inner : {"none", "dialing", "put", "over"},
            c : {"none", "open", "closed"},
            cancelled : BOOLEAN]

QueryType == [for : Calls \cup {None}, opts : Nat, left : Seq(STRING), found : SUBSET STRING,
              again : BOOLEAN]

OptionsType == [conf : {Normalized(c) : c \in Configs}, cid : Nat]

ResolverType ==
    /\ hist \in Seq(OptionsType)
    /\ Loads <= MaxLoads
    /\ dnsCache \in [1 .. MaxLoads -> {None} \cup [found : SUBSET STRING, again : BOOLEAN]]
    /\ w \in [pc : {"select", "ask", "gone"}, conn : BOOLEAN, q : QueryType]

DialType ==
    /\ call \in [Calls -> CallType]
    /\ leg \in [Calls -> [Legs -> LegType]]

-----------------------------------------------------------------------------
(***************************************************************************)
(* The options, the worker and the cache.                                  *)
(***************************************************************************)

\* A cache is named by the load that made it, and as long as the options have
\* servers, the ones that share their cache have the same types.
CidInv ==
    /\ \A i \in 1 .. Loads : hist[i].cid <= i
    /\ Current.conf.servers # {} =>
          \A i \in 1 .. Loads : (hist[i].cid = Current.cid /\ Current.cid # 0) =>
                                    hist[i].conf.types = Current.conf.types

\* A cache that was not made yet is empty.
CacheInv == \A c \in 1 .. MaxLoads : c > Loads => dnsCache[c] = None

\* The worker asks for the types of the options it has taken, unless it had to
\* take newer ones in the middle of the query.
WorkInv ==
    w.pc = "ask" =>
        /\ w.q.for \in Calls
        /\ w.q.opts <= Loads
        /\ ~w.q.again => w.q.found \cup ToSet(w.q.left) \subseteq ToSet(Options(w.q.opts).conf.types)

ResolverInv == CidInv /\ CacheInv /\ WorkInv /\ CacheFits

-----------------------------------------------------------------------------
(***************************************************************************)
(* The dials. C is the record of a call, L its legs and l leg i of it.     *)
(***************************************************************************)

\* Who owns the connection of a leg: the goroutine of dialFallback until it is
\* over, then the leg while it offers it, then the caller if the leg has won.
LegOK(C, l, i) ==
    /\ l.at = "none" => l = NoLeg
    /\ l.at # "none" => l.inner # "none"
    /\ l.inner = "dialing" => l.c = "none"
    /\ l.inner \in {"dialing", "put"} => l.at # "offering" /\ C.ret # i
    /\ l.at = "dialing" => l.inner \in {"dialing", "put"}
    /\ l.at = "offering" => l.c = "open"
    /\ l.at \in {"dialing", "offering", "failed"} => C.ret # i
    /\ l.at = "failed" /\ l.inner = "over" => l.c # "open"
    /\ l.at \in {"counting", "done"} /\ l.inner = "over" /\ l.c = "open" => C.ret = i
    /\ C.ret = i => l.c = "open"

\* No dial has begun.
NotDialling(C, L) ==
    C.pc \in {"none", "offer", "wait"} =>
        /\ C.n = 0 /\ ~C.closed /\ ~C.err
        /\ \A i \in Legs : L[i].at = "none"

\* A lone dial is leg 1, and nobody counts it.
LoneOK(C, L) ==
    /\ C.pc = "dial" => L[1].at \in {"dialing", "offering", "failed"} /\ L[2].at = "none"
    /\ C.pc = "returned" /\ L[2].at = "none" => L[1].at \in {"none", "done"}
    /\ L[2].at = "none" => C.n = 0 /\ ~C.closed

IsDone(l) == IF l.at = "done" THEN 1 ELSE 0

\* The counter of a race is exact, and its channel is closed by the last leg.
\* Nobody is cancelled before the race is decided: a leg that has ended without
\* an error then has closed its connection because the call was cancelled.
RaceOK(C, L) ==
    /\ C.pc \in {"race", "error"} => \A i \in Legs : L[i].at # "none"
    /\ C.pc = "race" => \A i \in Legs : ~L[i].cancelled
    /\ L[2].at # "none" => C.n = IsDone(L[1]) + IsDone(L[2]) /\ (C.closed <=> C.n = 2)
    /\ C.pc = "error" => \A i \in Legs : L[i].at = "done"
    /\ C.pc \in {"race", "error"} /\ ~C.err =>
          \A i \in Legs : L[i].at \in {"counting", "done"} => C.gone /\ L[i].c = "closed"

CallOK(C, L) ==
    /\ C.pc # "returned" => C.ret = 0
    /\ NotDialling(C, L) /\ LoneOK(C, L) /\ RaceOK(C, L)
    /\ \A i \in Legs : LegOK(C, L[i], i)

DialInv == \A k \in Calls : CallOK(call[k], leg[k])

IInv == ResolverType /\ DialType /\ ResolverInv /\ DialInv

-----------------------------------------------------------------------------
(***************************************************************************)
(* A step of one call: it is enough to look at the records of that call.   *)
(***************************************************************************)

LEMMA CallStepDial ==
  ASSUME IInv, NEW k \in Calls, NEW C \in CallType, NEW L \in [Legs -> LegType],
         call' = [call EXCEPT ![k] = C], leg' = [leg EXCEPT ![k] = L], CallOK(C, L)
  PROVE  DialType' /\ DialInv'
<1>1. DialType'
  BY DEF IInv, DialType
<1>2. DialInv'
  <2>1. ASSUME NEW j \in Calls PROVE CallOK(call'[j], leg'[j])
    <3>1. CASE j = k
      <4>1. call'[j] = C /\ leg'[j] = L
        BY <3>1 DEF IInv, DialType
      <4> QED BY <4>1
    <3>2. CASE j # k
      <4>1. call'[j] = call[j] /\ leg'[j] = leg[j]
        BY <3>2 DEF IInv, DialType
      <4> QED BY <4>1 DEF IInv, DialInv
    <3> QED BY <3>1, <3>2
  <2> QED BY <2>1 DEF DialInv
<1> QED BY <1>1, <1>2

LEMMA ResolverSame ==
  ASSUME IInv, UNCHANGED <<hist, dnsCache, w>>
  PROVE  ResolverType' /\ ResolverInv'
<1>1. ResolverType' /\ CidInv' /\ CacheInv'
  BY DEF IInv, ResolverType, ResolverInv, CidInv, CacheInv, Current, Loads, Options
<1>2. WorkInv'
  BY DEF IInv, ResolverInv, WorkInv, Loads, Options
<1>3. CacheFits'
  BY DEF IInv, ResolverInv, CacheFits, Cached, Current, Loads, Options
<1> QED BY <1>1, <1>2, <1>3 DEF ResolverInv

LEMMA CallStepKeeps ==
  ASSUME IInv, NEW k \in Calls, NEW C \in CallType, NEW L \in [Legs -> LegType],
         call' = [call EXCEPT ![k] = C], leg' = [leg EXCEPT ![k] = L],
         CallOK(C, L), UNCHANGED <<hist, dnsCache, w>>
  PROVE  IInv'
BY CallStepDial, ResolverSame DEF IInv

LEMMA CallTyped ==
  ASSUME IInv, NEW k \in Calls
  PROVE  call[k] \in CallType /\ leg[k] \in [Legs -> LegType] /\ CallOK(call[k], leg[k])
BY DEF IInv, DialType, DialInv

LEMMA NoLegTyped ==
  /\ NoLeg \in LegType /\ Dialling \in LegType
  /\ NoLeg.at = "none" /\ NoLeg.inner = "none" /\ NoLeg.c = "none"
  /\ Dialling.at = "dialing" /\ Dialling.inner = "dialing" /\ Dialling.c = "none" /\ ~Dialling.cancelled
BY DEF NoLeg, Dialling, LegType

\* The call goes on to dial, alone or as a race.
LEMMA StartDialKeeps ==
  ASSUME IInv, NEW k \in Calls, NEW race \in BOOLEAN,
         call[k].pc \in {"none", "offer", "wait"},
         StartDial(k, race), UNCHANGED <<hist, dnsCache, w>>
  PROVE  IInv'
<1> DEFINE c == call[k]
           C == [c EXCEPT !.pc = IF race THEN "race" ELSE "dial", !.res = None,
                          !.opts = IF c.opts = 0 THEN Loads ELSE c.opts]
           L == [i \in Legs |-> IF race \/ i = 1 THEN Dialling ELSE NoLeg]
<1>0. c \in CallType /\ CallOK(c, leg[k]) /\ call \in [Calls -> CallType] /\ Loads \in Nat
  BY CallTyped DEF IInv, DialType, ResolverType, Loads
<1>1. call' = [call EXCEPT ![k] = C] /\ leg' = [leg EXCEPT ![k] = L]
  BY <1>0 DEF StartDial, CallType
<1>2. C \in CallType
  BY <1>0 DEF CallType
<1>3. L \in [Legs -> LegType]
  BY NoLegTyped
<1>4. C.pc \in {"race", "dial"} /\ (C.pc = "race" <=> race)
      /\ C.gone = c.gone /\ C.ret = c.ret /\ C.n = c.n /\ C.closed = c.closed /\ C.err = c.err
  BY <1>0 DEF CallType
<1>5. C.n = 0 /\ ~C.closed /\ ~C.err /\ C.ret = 0
  BY <1>0, <1>4 DEF CallOK, NotDialling
<1>6. L[1] = Dialling /\ L[2] = (IF race THEN Dialling ELSE NoLeg)
  BY DEF Legs
<1> HIDE DEF C, L
<1>7. CallOK(C, L)
  <2>1. \A i \in Legs : LegOK(C, L[i], i)
    BY <1>5, <1>6, NoLegTyped DEF LegOK, Legs
  <2>2. NotDialling(C, L) /\ LoneOK(C, L)
    BY <1>4, <1>5, <1>6, NoLegTyped DEF NotDialling, LoneOK
  <2>3. RaceOK(C, L)
    BY <1>4, <1>5, <1>6, NoLegTyped DEF RaceOK, IsDone, Legs
  <2> QED BY <1>5, <2>1, <2>2, <2>3 DEF CallOK
<1> QED BY <1>1, <1>2, <1>3, <1>7, CallStepKeeps

\* A call that moves without touching its legs: it waits for the worker, stops
\* waiting, or is cancelled.
LEMMA WaitingDial ==
  ASSUME IInv, NEW k \in Calls, NEW C \in CallType,
         call' = [call EXCEPT ![k] = C], UNCHANGED leg,
         C.ret = call[k].ret, C.n = call[k].n, C.closed = call[k].closed, C.err = call[k].err,
         \/ C.pc = call[k].pc /\ (call[k].gone => C.gone)
         \/ /\ call[k].pc \in {"none", "offer", "wait"}
            /\ C.pc \in {"offer", "wait", "returned"}
  PROVE  DialType' /\ DialInv'
<1> DEFINE c == call[k]
           L == leg[k]
<1>0. c \in CallType /\ L \in [Legs -> LegType] /\ CallOK(c, L) /\ leg \in [Calls -> [Legs -> LegType]]
  BY CallTyped DEF IInv, DialType
<1>1. leg' = [leg EXCEPT ![k] = L]
  BY <1>0
<1>2. CallOK(C, L)
  <2>1. \A i \in Legs : LegOK(C, L[i], i)
    BY <1>0 DEF CallOK, LegOK
  <2>2. NotDialling(C, L) /\ LoneOK(C, L)
    BY <1>0 DEF CallOK, NotDialling, LoneOK, Legs
  <2>3. RaceOK(C, L)
    BY <1>0 DEF CallOK, NotDialling, RaceOK, IsDone, Legs
  <2>4. C.pc # "returned" => C.ret = 0
    BY <1>0 DEF CallOK
  <2> QED BY <2>1, <2>2, <2>3, <2>4 DEF CallOK
<1> QED BY <1>0, <1>1, <1>2, CallStepDial

LEMMA WaitingKeeps ==
  ASSUME IInv, NEW k \in Calls, NEW C \in CallType,
         call' = [call EXCEPT ![k] = C], UNCHANGED <<leg, hist, dnsCache, w>>,
         C.ret = call[k].ret, C.n = call[k].n, C.closed = call[k].closed, C.err = call[k].err,
         \/ C.pc = call[k].pc /\ (call[k].gone => C.gone)
         \/ /\ call[k].pc \in {"none", "offer", "wait"}
            /\ C.pc \in {"offer", "wait", "returned"}
  PROVE  IInv'
BY WaitingDial, ResolverSame DEF IInv

LEMMA ResolveKeeps ==
  ASSUME IInv, NEW k \in Calls,
         (\E literal \in BOOLEAN : Begin(k, literal)) \/ Cancel(k) \/ StopsWaiting(k) \/ Resolved(k)
  PROVE  IInv'
<1>0. call[k] \in CallType /\ call \in [Calls -> CallType] /\ Loads \in Nat
  BY CallTyped DEF IInv, DialType, ResolverType, Loads
<1>1. ASSUME NEW literal \in BOOLEAN, Begin(k, literal) PROVE IInv'
  <2>1. call[k].pc = "none" /\ UNCHANGED <<hist, dnsCache, w>>
    BY <1>1 DEF Begin
  <2>2. CASE \E race \in BOOLEAN : StartDial(k, race)
    BY <2>1, <2>2, StartDialKeeps
  <2>3. CASE call' = [call EXCEPT ![k].pc = "offer", ![k].opts = Loads] /\ UNCHANGED leg
    <3> DEFINE C == [call[k] EXCEPT !.pc = "offer", !.opts = Loads]
    <3>1. C \in CallType /\ C.pc = "offer" /\ C.ret = call[k].ret /\ C.n = call[k].n
          /\ C.closed = call[k].closed /\ C.err = call[k].err
      BY <1>0 DEF CallType
    <3>2. call' = [call EXCEPT ![k] = C]
      BY <1>0, <2>3 DEF CallType
    <3> HIDE DEF C
    <3> QED BY <2>1, <2>3, <3>1, <3>2, WaitingKeeps
  <2>4. (Cached(Current).found = Families) \in BOOLEAN
    OBVIOUS
  <2> QED BY <1>1, <2>2, <2>3, <2>4 DEF Begin
<1>2. ASSUME Cancel(k) PROVE IInv'
  <2> DEFINE C == [call[k] EXCEPT !.gone = TRUE]
  <2>1. C \in CallType /\ C.gone /\ C.pc = call[k].pc /\ C.ret = call[k].ret /\ C.n = call[k].n
        /\ C.closed = call[k].closed /\ C.err = call[k].err
    BY <1>0 DEF CallType
  <2>2. call' = [call EXCEPT ![k] = C] /\ UNCHANGED <<leg, hist, dnsCache, w>>
    BY <1>0, <1>2 DEF Cancel, CallType
  <2> HIDE DEF C
  <2> QED BY <2>1, <2>2, WaitingKeeps
<1>3. ASSUME call[k].pc \in {"offer", "wait"}, call' = [call EXCEPT ![k].pc = "returned"],
             UNCHANGED <<leg, hist, dnsCache, w>>
      PROVE  IInv'
  <2> DEFINE C == [call[k] EXCEPT !.pc = "returned"]
  <2>1. C \in CallType /\ C.pc = "returned" /\ C.ret = call[k].ret /\ C.n = call[k].n
        /\ C.closed = call[k].closed /\ C.err = call[k].err
    BY <1>0 DEF CallType
  <2>2. call' = [call EXCEPT ![k] = C]
    BY <1>0, <1>3 DEF CallType
  <2> HIDE DEF C
  <2> QED BY <1>3, <2>1, <2>2, WaitingKeeps
<1>4. ASSUME StopsWaiting(k) PROVE IInv'
  BY <1>3, <1>4 DEF StopsWaiting
<1>5. ASSUME Resolved(k) PROVE IInv'
  <2>1. call[k].pc = "wait" /\ UNCHANGED <<hist, dnsCache, w>>
    BY <1>5 DEF Resolved
  <2>2. (call[k].res = Families) \in BOOLEAN
    OBVIOUS
  <2> QED BY <1>3, <1>5, <2>1, <2>2, StartDialKeeps DEF Resolved
<1> QED BY <1>1, <1>2, <1>4, <1>5

-----------------------------------------------------------------------------
(***************************************************************************)
(* proxy.Dial: the leg moves and its call does not.                        *)
(***************************************************************************)

LEMMA LegKeeps ==
  ASSUME IInv, NEW k \in Calls, NEW i \in Legs, NEW t \in LegType,
         leg' = [leg EXCEPT ![k] = [leg[k] EXCEPT ![i] = t]],
         UNCHANGED <<call, hist, dnsCache, w>>,
         leg[k][i].at # "none", LegOK(call[k], t, i),
         t.cancelled = leg[k][i].cancelled,
         \/ t.at = leg[k][i].at /\ (leg[k][i].c = "closed" => t.c = "closed")
         \/ leg[k][i].at = "dialing" /\ t.at \in {"offering", "failed"}
  PROVE  IInv'
<1> DEFINE C == call[k]
           L == [leg[k] EXCEPT ![i] = t]
<1>0. C \in CallType /\ leg[k] \in [Legs -> LegType] /\ CallOK(C, leg[k]) /\ call \in [Calls -> CallType]
  BY CallTyped DEF IInv, DialType
<1>1. call' = [call EXCEPT ![k] = C]
  BY <1>0
<1>2. L \in [Legs -> LegType] /\ L[i] = t /\ \A j \in Legs \ {i} : L[j] = leg[k][j]
  BY <1>0
<1> HIDE DEF C
<1>3. CallOK(C, L)
  <2> HIDE DEF L
  <2>1. \A j \in Legs : LegOK(C, L[j], j)
    BY <1>0, <1>2 DEF CallOK, C
  <2>2. NotDialling(C, L) /\ LoneOK(C, L)
    BY <1>0, <1>2 DEF CallOK, NotDialling, LoneOK, Legs
  <2>3. RaceOK(C, L)
    BY <1>0, <1>2 DEF CallOK, RaceOK, IsDone, Legs
  <2> QED BY <1>0, <2>1, <2>2, <2>3 DEF CallOK
<1> QED BY <1>0, <1>1, <1>2, <1>3, CallStepKeeps

LEMMA DialKeeps ==
  ASSUME IInv, NEW k \in Calls, NEW i \in Legs,
         \/ \E ok \in BOOLEAN : InnerDials(k, i, ok)
         \/ InnerEnds(k, i) \/ DialReturns(k, i) \/ DialCancelled(k, i)
  PROVE  IInv'
<1> DEFINE l == leg[k][i]
<1>0. l \in LegType /\ LegOK(call[k], l, i) /\ leg[k] \in [Legs -> LegType]
      /\ leg \in [Calls -> [Legs -> LegType]]
  BY CallTyped DEF IInv, DialType, CallOK
<1>1. ASSUME NEW ok \in BOOLEAN, InnerDials(k, i, ok) PROVE IInv'
  <2> DEFINE t == [l EXCEPT !.inner = "put", !.c = IF ok THEN "open" ELSE "none"]
  <2>1. t \in LegType /\ t.inner = "put" /\ t.at = l.at /\ t.cancelled = l.cancelled
    BY <1>0 DEF LegType
  <2>2. leg' = [leg EXCEPT ![k] = [leg[k] EXCEPT ![i] = t]] /\ l.inner = "dialing"
        /\ UNCHANGED <<call, hist, dnsCache, w>>
    BY <1>0, <1>1 DEF InnerDials, LegType
  <2> HIDE DEF t
  <2>3. l.at # "none" /\ l.c # "closed"
    BY <1>0, <2>2, NoLegTyped DEF LegOK
  <2>4. LegOK(call[k], t, i)
    BY <1>0, <2>1, <2>2, <2>3 DEF LegOK
  <2> QED BY <2>1, <2>2, <2>3, <2>4, LegKeeps
<1>2. ASSUME InnerEnds(k, i) PROVE IInv'
  <2> DEFINE t == [l EXCEPT !.inner = "over", !.c = IF l.c = "open" THEN "closed" ELSE l.c]
  <2>1. t \in LegType /\ t.inner = "over" /\ t.at = l.at /\ t.cancelled = l.cancelled
        /\ t.c # "open" /\ (l.c = "closed" => t.c = "closed")
    BY <1>0 DEF LegType
  <2>2. leg' = [leg EXCEPT ![k] = [leg[k] EXCEPT ![i] = t]] /\ l.inner = "put" /\ l.at # "dialing"
        /\ UNCHANGED <<call, hist, dnsCache, w>>
    BY <1>0, <1>2 DEF InnerEnds, LegType
  <2> HIDE DEF t
  <2>3. l.at # "none"
    BY <1>0, <2>2, NoLegTyped DEF LegOK
  <2>4. LegOK(call[k], t, i)
    BY <1>0, <2>1, <2>2, <2>3 DEF LegOK
  <2> QED BY <2>1, <2>2, <2>3, <2>4, LegKeeps
<1>3. ASSUME DialReturns(k, i) PROVE IInv'
  <2> DEFINE t == [l EXCEPT !.inner = "over", !.at = IF l.c = "open" THEN "offering" ELSE "failed"]
  <2>1. t \in LegType /\ t.inner = "over" /\ t.c = l.c /\ t.cancelled = l.cancelled
        /\ t.at = (IF l.c = "open" THEN "offering" ELSE "failed")
    BY <1>0 DEF LegType
  <2>2. leg' = [leg EXCEPT ![k] = [leg[k] EXCEPT ![i] = t]] /\ l.at = "dialing"
        /\ UNCHANGED <<call, hist, dnsCache, w>>
    BY <1>0, <1>3 DEF DialReturns, LegType
  <2> HIDE DEF t
  <2>3. LegOK(call[k], t, i)
    BY <1>0, <2>1, <2>2 DEF LegOK
  <2> QED BY <2>1, <2>2, <2>3, LegKeeps
<1>4. ASSUME DialCancelled(k, i) PROVE IInv'
  <2> DEFINE t == [l EXCEPT !.at = "failed"]
  <2>1. t \in LegType /\ t.at = "failed" /\ t.inner = l.inner /\ t.c = l.c /\ t.cancelled = l.cancelled
    BY <1>0 DEF LegType
  <2>2. leg' = [leg EXCEPT ![k] = [leg[k] EXCEPT ![i] = t]] /\ l.at = "dialing"
        /\ UNCHANGED <<call, hist, dnsCache, w>>
    BY <1>0, <1>4 DEF DialCancelled, LegType
  <2> HIDE DEF t
  <2>3. LegOK(call[k], t, i)
    BY <1>0, <2>1, <2>2 DEF LegOK
  <2> QED BY <2>1, <2>2, <2>3, LegKeeps
<1> QED BY <1>1, <1>2, <1>3, <1>4

-----------------------------------------------------------------------------
(***************************************************************************)
(* A lone dial returns; the race of the two families.                      *)
(***************************************************************************)

\* What a step of leg i that sets its record to t makes of the legs of call k.
LegsWith(k, i, t) == [leg[k] EXCEPT ![i] = t]

LEMMA LoneReturnsKeeps ==
  ASSUME IInv, NEW k \in Calls, LoneReturns(k)
  PROVE  IInv'
<1> DEFINE c == call[k]
           l == leg[k][1]
           r == IF l.at = "offering" THEN 1 ELSE 0
           C == [c EXCEPT !.pc = "returned", !.ret = r]
           t == [l EXCEPT !.at = "done"]
           L == LegsWith(k, 1, t)
<1>0. c \in CallType /\ leg[k] \in [Legs -> LegType] /\ CallOK(c, leg[k])
      /\ call \in [Calls -> CallType] /\ leg \in [Calls -> [Legs -> LegType]]
      /\ 1 \in Legs /\ 2 \in Legs /\ l \in LegType
  BY CallTyped DEF IInv, DialType, Legs
<1>1. c.pc = "dial" /\ l.at \in {"offering", "failed"} /\ UNCHANGED <<hist, dnsCache, w>>
      /\ call' = [call EXCEPT ![k] = C] /\ leg' = [leg EXCEPT ![k] = L]
  BY <1>0 DEF LoneReturns, LegsWith, CallType, LegType
<1>2. C \in CallType /\ C.pc = "returned" /\ C.ret = r /\ C.n = c.n /\ C.closed = c.closed
      /\ C.err = c.err
  <2>1. r \in 0 .. 2
    OBVIOUS
  <2> HIDE DEF r
  <2> QED BY <1>0, <2>1 DEF CallType
<1>3. t \in LegType /\ t.at = "done" /\ t.inner = l.inner /\ t.c = l.c /\ t.cancelled = l.cancelled
  BY <1>0 DEF LegType
<1> HIDE DEF t, C
<1>4. L \in [Legs -> LegType] /\ L[1] = t /\ L[2] = leg[k][2]
  BY <1>0, <1>3 DEF LegsWith
<1> HIDE DEF L
<1>5. CallOK(C, L)
  <2>1. c.ret = 0 /\ leg[k][2].at = "none" /\ leg[k][2] = NoLeg
        /\ LegOK(c, l, 1) /\ LegOK(c, leg[k][2], 2)
    BY <1>0, <1>1 DEF CallOK, LoneOK, LegOK
  <2>2. LegOK(C, L[1], 1)
    BY <1>1, <1>2, <1>3, <1>4, <2>1 DEF LegOK
  <2>3. LegOK(C, L[2], 2)
    BY <1>2, <1>4, <2>1, NoLegTyped DEF LegOK
  <2>4. NotDialling(C, L) /\ LoneOK(C, L)
    BY <1>0, <1>1, <1>2, <1>3, <1>4, <2>1 DEF CallOK, NotDialling, LoneOK
  <2>5. RaceOK(C, L)
    BY <1>2, <1>4, <2>1 DEF RaceOK
  <2> QED BY <1>2, <2>2, <2>3, <2>4, <2>5 DEF CallOK, Legs
<1> QED BY <1>1, <1>2, <1>4, <1>5, CallStepKeeps

\* Only the legs of a race count themselves.
LEMMA RacingLegs ==
  ASSUME IInv, NEW k \in Calls, Racing(k) \/ \E i \in Legs : leg[k][i].at = "counting"
  PROVE  /\ call[k].pc \in {"race", "error", "returned"}
         /\ leg[k][2].at # "none"
<1>1. call[k] \in CallType /\ CallOK(call[k], leg[k])
  BY CallTyped
<1>2. CASE Racing(k)
  BY <1>1, <1>2 DEF Racing, CallOK, RaceOK, LegOK, Legs
<1>3. CASE \E i \in Legs : leg[k][i].at = "counting"
  BY <1>1, <1>3 DEF CallOK, NotDialling, LoneOK, RaceOK, Legs, CallType
<1> QED BY <1>2, <1>3

LEMMA LegFailsKeeps ==
  ASSUME IInv, NEW k \in Calls, NEW i \in Legs, LegFails(k, i)
  PROVE  IInv'
<1> DEFINE c == call[k]
           l == leg[k][i]
           C == [c EXCEPT !.err = TRUE]
           t == [l EXCEPT !.at = "counting"]
           L == LegsWith(k, i, t)
<1>0. c \in CallType /\ leg[k] \in [Legs -> LegType] /\ CallOK(c, leg[k]) /\ l \in LegType
      /\ call \in [Calls -> CallType] /\ leg \in [Calls -> [Legs -> LegType]]
  BY CallTyped DEF IInv, DialType
<1>1. Racing(k) /\ l.at = "failed" /\ UNCHANGED <<hist, dnsCache, w>>
      /\ call' = [call EXCEPT ![k] = C] /\ leg' = [leg EXCEPT ![k] = L]
  BY <1>0 DEF LegFails, LegsWith, CallType, LegType
<1>2. C \in CallType /\ C.err /\ C.pc = c.pc /\ C.ret = c.ret /\ C.n = c.n /\ C.closed = c.closed
  BY <1>0 DEF CallType
<1>3. t \in LegType /\ t.at = "counting" /\ t.inner = l.inner /\ t.c = l.c /\ t.cancelled = l.cancelled
  BY <1>0 DEF LegType
<1> HIDE DEF t, C
<1>4. L \in [Legs -> LegType] /\ L[i] = t /\ \A j \in Legs \ {i} : L[j] = leg[k][j]
  BY <1>0, <1>3 DEF LegsWith
<1> HIDE DEF L
<1>5. CallOK(C, L)
  <2>1. c.pc \in {"race", "error", "returned"} /\ leg[k][2].at # "none"
    BY <1>1, RacingLegs
  <2>2. \A j \in Legs : LegOK(C, L[j], j)
    BY <1>0, <1>1, <1>2, <1>3, <1>4 DEF CallOK, LegOK
  <2>3. NotDialling(C, L) /\ LoneOK(C, L)
    BY <1>0, <1>2, <1>3, <1>4, <2>1 DEF CallOK, NotDialling, LoneOK, Legs
  <2>4. RaceOK(C, L)
    BY <1>0, <1>1, <1>2, <1>3, <1>4, <2>1 DEF CallOK, RaceOK, IsDone, Legs
  <2>5. C.pc # "returned" => C.ret = 0
    BY <1>0, <1>2 DEF CallOK
  <2> QED BY <2>2, <2>3, <2>4, <2>5 DEF CallOK
<1> QED BY <1>1, <1>2, <1>4, <1>5, CallStepKeeps

\* A connection is handed over: from then on getRemote owns it, and the other leg
\* is told to stop.
LEMMA WinsKeeps ==
  ASSUME IInv, NEW k \in Calls, NEW i \in Legs, Wins(k, i)
  PROVE  IInv'
<1> DEFINE c == call[k]
           o == 3 - i
           C == [c EXCEPT !.pc = "returned", !.ret = i]
           t == [leg[k][i] EXCEPT !.at = "counting"]
           u == [leg[k][o] EXCEPT !.cancelled = TRUE]
           L == [leg[k] EXCEPT ![i] = t, ![o] = u]
<1>0. c \in CallType /\ leg[k] \in [Legs -> LegType] /\ CallOK(c, leg[k])
      /\ call \in [Calls -> CallType] /\ leg \in [Calls -> [Legs -> LegType]]
      /\ leg[k][i] \in LegType /\ o \in Legs /\ o # i /\ leg[k][o] \in LegType
      /\ Legs = {i, o} /\ i \in 1 .. 2
  BY CallTyped DEF IInv, DialType, Legs
<1>1. c.pc = "race" /\ leg[k][i].at = "offering" /\ UNCHANGED <<hist, dnsCache, w>>
      /\ call' = [call EXCEPT ![k] = C]
  BY <1>0 DEF Wins, CallType
<1>2. leg' = [leg EXCEPT ![k] = L]
  BY <1>0 DEF Wins, LegType
<1>3. C \in CallType /\ C.pc = "returned" /\ C.ret = i /\ C.n = c.n /\ C.closed = c.closed
  <2>1. i \in 0 .. 2
    BY <1>0
  <2> QED BY <1>0, <2>1 DEF CallType
<1>4. t \in LegType /\ t.at = "counting" /\ t.inner = leg[k][i].inner /\ t.c = leg[k][i].c
  BY <1>0 DEF LegType
<1>5. u \in LegType /\ u.at = leg[k][o].at /\ u.inner = leg[k][o].inner /\ u.c = leg[k][o].c
  BY <1>0 DEF LegType
<1> HIDE DEF t, u, C
<1>6. L \in [Legs -> LegType] /\ L[i] = t /\ L[o] = u
  BY <1>0, <1>4, <1>5
<1> HIDE DEF L
<1>7. CallOK(C, L)
  <2>1. c.ret = 0 /\ LegOK(c, leg[k][i], i) /\ LegOK(c, leg[k][o], o)
        /\ leg[k][i].at # "none" /\ leg[k][o].at # "none"
    BY <1>0, <1>1 DEF CallOK, RaceOK
  <2>2. LegOK(C, L[i], i)
    BY <1>0, <1>1, <1>3, <1>4, <1>6, <2>1 DEF LegOK
  <2>3. LegOK(C, L[o], o)
    BY <1>0, <1>3, <1>5, <1>6, <2>1 DEF LegOK
  <2>4. L[2].at # "none" /\ IsDone(L[1]) + IsDone(L[2]) = IsDone(leg[k][1]) + IsDone(leg[k][2])
    BY <1>0, <1>1, <1>4, <1>5, <1>6, <2>1 DEF IsDone, Legs
  <2>5. leg[k][2].at # "none"
    BY <1>0, <1>1, <2>1 DEF Legs
  <2>6. NotDialling(C, L) /\ LoneOK(C, L) /\ RaceOK(C, L)
    BY <1>0, <1>3, <2>4, <2>5 DEF CallOK, NotDialling, LoneOK, RaceOK
  <2> QED BY <1>0, <1>3, <2>2, <2>3, <2>6 DEF CallOK
<1> QED BY <1>1, <1>2, <1>3, <1>6, <1>7, CallStepKeeps

\* A connection that nobody takes is closed. Before the race is decided that
\* happens only to a call that was cancelled.
LEMMA AbandonsKeeps ==
  ASSUME IInv, NEW k \in Calls, NEW i \in Legs, Abandons(k, i)
  PROVE  IInv'
<1> DEFINE c == call[k]
           l == leg[k][i]
           t == [l EXCEPT !.at = "counting", !.c = "closed"]
           L == LegsWith(k, i, t)
<1>0. c \in CallType /\ leg[k] \in [Legs -> LegType] /\ CallOK(c, leg[k]) /\ l \in LegType
      /\ call \in [Calls -> CallType] /\ leg \in [Calls -> [Legs -> LegType]]
  BY CallTyped DEF IInv, DialType
<1>1. Racing(k) /\ l.at = "offering" /\ (c.gone \/ l.cancelled) /\ UNCHANGED <<hist, dnsCache, w>>
      /\ call' = [call EXCEPT ![k] = c] /\ leg' = [leg EXCEPT ![k] = L]
  BY <1>0 DEF Abandons, Done, LegsWith, LegType
<1>2. t \in LegType /\ t.at = "counting" /\ t.inner = l.inner /\ t.c = "closed" /\ t.cancelled = l.cancelled
  BY <1>0 DEF LegType
<1> HIDE DEF t
<1>3. L \in [Legs -> LegType] /\ L[i] = t /\ \A j \in Legs \ {i} : L[j] = leg[k][j]
  BY <1>0, <1>2 DEF LegsWith
<1> HIDE DEF L
<1>4. CallOK(c, L)
  <2>1. c.pc \in {"race", "error", "returned"} /\ leg[k][2].at # "none"
    BY <1>1, RacingLegs
  <2>2. \A j \in Legs : LegOK(c, L[j], j)
    BY <1>0, <1>1, <1>2, <1>3 DEF CallOK, LegOK
  <2>3. NotDialling(c, L) /\ LoneOK(c, L)
    BY <1>0, <1>2, <1>3, <2>1 DEF CallOK, NotDialling, LoneOK, Legs
  <2>4. c.pc # "error" /\ (c.pc = "race" => c.gone)
    BY <1>0, <1>1 DEF CallOK, RaceOK
  <2>5. RaceOK(c, L)
    BY <1>0, <1>1, <1>2, <1>3, <2>1, <2>4 DEF CallOK, RaceOK, IsDone, Legs
  <2> QED BY <1>0, <2>2, <2>3, <2>5 DEF CallOK
<1> QED BY <1>0, <1>1, <1>3, <1>4, CallStepKeeps

LEMMA LegEndsKeeps ==
  ASSUME IInv, NEW k \in Calls, NEW i \in Legs, LegEnds(k, i)
  PROVE  IInv'
<1> DEFINE c == call[k]
           l == leg[k][i]
           C == [c EXCEPT !.n = c.n + 1, !.closed = (c.n = 1)]
           t == [l EXCEPT !.at = "done"]
           L == LegsWith(k, i, t)
<1>0. c \in CallType /\ leg[k] \in [Legs -> LegType] /\ CallOK(c, leg[k]) /\ l \in LegType
      /\ call \in [Calls -> CallType] /\ leg \in [Calls -> [Legs -> LegType]]
  BY CallTyped DEF IInv, DialType
<1>1. l.at = "counting" /\ UNCHANGED <<hist, dnsCache, w>>
      /\ call' = [call EXCEPT ![k] = C] /\ leg' = [leg EXCEPT ![k] = L]
  BY <1>0 DEF LegEnds, LegsWith, CallType, LegType
<1>2. /\ C \in CallType /\ C.n = c.n + 1 /\ C.closed = (c.n = 1)
      /\ C.pc = c.pc /\ C.ret = c.ret /\ C.err = c.err /\ C.gone = c.gone
  <2>1. c.n + 1 \in Int
    BY <1>0 DEF CallType
  <2>2. (c.n = 1) \in BOOLEAN
    OBVIOUS
  <2> QED BY <1>0, <2>1, <2>2 DEF CallType
<1>3. t \in LegType /\ t.at = "done" /\ t.inner = l.inner /\ t.c = l.c /\ t.cancelled = l.cancelled
  BY <1>0 DEF LegType
<1> HIDE DEF t, C
<1>4. L \in [Legs -> LegType] /\ L[i] = t /\ \A j \in Legs \ {i} : L[j] = leg[k][j]
  BY <1>0, <1>3 DEF LegsWith
<1> HIDE DEF L
<1>5. CallOK(C, L)
  <2>1. c.pc \in {"race", "error", "returned"} /\ leg[k][2].at # "none"
    BY <1>1, RacingLegs
  <2>2. \A j \in Legs : LegOK(C, L[j], j)
    BY <1>0, <1>1, <1>2, <1>3, <1>4 DEF CallOK, LegOK
  <2>3. NotDialling(C, L) /\ LoneOK(C, L)
    BY <1>0, <1>2, <1>3, <1>4, <2>1 DEF CallOK, NotDialling, LoneOK, Legs
  <2>4. C.n = IsDone(L[1]) + IsDone(L[2])
    BY <1>0, <1>1, <1>2, <1>3, <1>4, <2>1 DEF CallOK, RaceOK, IsDone, Legs
  <2>5. C.closed <=> C.n = 2
    <3>1. c.n \in Int
      BY <1>0 DEF CallType
    <3>2. C.closed <=> c.n = 1
      BY <1>2
    <3>3. c.n = 1 <=> C.n = 2
      BY <1>2, <3>1
    <3> QED BY <3>2, <3>3
  <2>6. RaceOK(C, L)
    BY <1>0, <1>1, <1>2, <1>3, <1>4, <2>1, <2>4, <2>5 DEF CallOK, RaceOK, Legs
  <2>7. C.pc # "returned" => C.ret = 0
    BY <1>0, <1>2 DEF CallOK
  <2> QED BY <2>2, <2>3, <2>6, <2>7 DEF CallOK
<1> QED BY <1>1, <1>2, <1>4, <1>5, CallStepKeeps

\* The channel c is closed without a winner: both legs have ended.
LEMMA NobodyWinsKeeps ==
  ASSUME IInv, NEW k \in Calls, NobodyWins(k)
  PROVE  IInv'
<1> DEFINE c == call[k]
           C == [c EXCEPT !.pc = "error"]
           L == [i \in Legs |-> [leg[k][i] EXCEPT !.cancelled = TRUE]]
<1>0. c \in CallType /\ leg[k] \in [Legs -> LegType] /\ CallOK(c, leg[k])
      /\ call \in [Calls -> CallType] /\ leg \in [Calls -> [Legs -> LegType]]
  BY CallTyped DEF IInv, DialType
<1>1. c.pc = "race" /\ c.closed /\ UNCHANGED <<hist, dnsCache, w>>
      /\ call' = [call EXCEPT ![k] = C] /\ leg' = [leg EXCEPT ![k] = L]
  BY <1>0 DEF NobodyWins, CallType
<1>2. C \in CallType /\ C.pc = "error" /\ C.ret = c.ret /\ C.n = c.n /\ C.closed = c.closed
      /\ C.err = c.err /\ C.gone = c.gone
  BY <1>0 DEF CallType
<1>3. \A i \in Legs : /\ L[i] \in LegType
                      /\ L[i].at = leg[k][i].at /\ L[i].inner = leg[k][i].inner /\ L[i].c = leg[k][i].c
  <2>1. TAKE i \in Legs
  <2>2. leg[k][i] \in LegType /\ L[i] = [leg[k][i] EXCEPT !.cancelled = TRUE]
    BY <1>0
  <2> HIDE DEF L
  <2> QED BY <2>2 DEF LegType
<1>4. L \in [Legs -> LegType]
  BY <1>3
<1> HIDE DEF C, L
<1>5. CallOK(C, L)
  <2>1. \A i \in Legs : leg[k][i].at = "done"
    BY <1>0, <1>1 DEF CallOK, RaceOK, IsDone, Legs
  <2>2. \A i \in Legs : LegOK(C, L[i], i)
    BY <1>0, <1>2, <1>3, <2>1 DEF CallOK, LegOK
  <2>3. NotDialling(C, L) /\ LoneOK(C, L)
    BY <1>2, <1>3, <2>1 DEF NotDialling, LoneOK, Legs
  <2>4. RaceOK(C, L)
    BY <1>0, <1>1, <1>2, <1>3, <2>1 DEF CallOK, RaceOK, IsDone, Legs
  <2>5. C.ret = 0
    BY <1>0, <1>1, <1>2 DEF CallOK
  <2> QED BY <2>2, <2>3, <2>4, <2>5 DEF CallOK
<1> QED BY <1>1, <1>2, <1>4, <1>5, CallStepKeeps

LEMMA ReturnsErrorKeeps ==
  ASSUME IInv, NEW k \in Calls, ReturnsError(k)
  PROVE  IInv'
<1> DEFINE c == call[k]
           C == [c EXCEPT !.pc = "returned", !.err = FALSE]
           L == leg[k]
<1>0. c \in CallType /\ L \in [Legs -> LegType] /\ CallOK(c, L)
      /\ call \in [Calls -> CallType] /\ leg \in [Calls -> [Legs -> LegType]]
  BY CallTyped DEF IInv, DialType
<1>1. c.pc = "error" /\ UNCHANGED <<hist, dnsCache, w>>
      /\ call' = [call EXCEPT ![k] = C] /\ leg' = [leg EXCEPT ![k] = L]
  BY <1>0 DEF ReturnsError, CallType
<1>2. C \in CallType /\ C.pc = "returned" /\ C.ret = c.ret /\ C.n = c.n /\ C.closed = c.closed
  BY <1>0 DEF CallType
<1> HIDE DEF C
<1>3. CallOK(C, L)
  <2> HIDE DEF L
  <2>1. \A i \in Legs : LegOK(C, L[i], i)
    BY <1>0, <1>2 DEF CallOK, LegOK
  <2>2. L[2].at # "none"
    BY <1>0, <1>1 DEF CallOK, RaceOK, Legs
  <2>3. NotDialling(C, L) /\ LoneOK(C, L) /\ RaceOK(C, L)
    BY <1>0, <1>2, <2>2 DEF CallOK, NotDialling, LoneOK, RaceOK
  <2> QED BY <1>2, <2>1, <2>3 DEF CallOK
<1> QED BY <1>0, <1>1, <1>2, <1>3, CallStepKeeps

LEMMA ForgottenOK ==
  /\ NoCall \in CallType /\ [i \in Legs |-> NoLeg] \in [Legs -> LegType]
  /\ CallOK(NoCall, [i \in Legs |-> NoLeg])
<1> DEFINE C == NoCall
           L == [i \in Legs |-> NoLeg]
<1>1. C \in CallType /\ C.pc = "none" /\ C.ret = 0 /\ C.n = 0 /\ ~C.closed /\ ~C.err
  BY DEF NoCall, CallType
<1>2. L \in [Legs -> LegType] /\ \A i \in Legs : L[i] = NoLeg
  BY NoLegTyped
<1> HIDE DEF C, L
<1>3. CallOK(C, L)
  BY <1>1, <1>2, NoLegTyped DEF CallOK, LegOK, NotDialling, LoneOK, RaceOK, Legs
<1> QED BY <1>1, <1>2, <1>3 DEF C, L

LEMMA ForgetKeeps ==
  ASSUME IInv, NEW k \in Calls, Forget(k)
  PROVE  IInv'
BY ForgottenOK, CallStepKeeps DEF Forget

-----------------------------------------------------------------------------
(***************************************************************************)
(* The options, the worker and the cache.                                  *)
(***************************************************************************)

LEMMA DialSame ==
  ASSUME IInv, UNCHANGED <<call, leg>>
  PROVE  DialType' /\ DialInv'
BY DEF IInv, DialType, DialInv

LEMMA OptionsTyped ==
  ASSUME ResolverType, CidInv, NEW i \in 0 .. Loads
  PROVE  /\ Options(i).cid \in Nat /\ Options(i).cid <= i
         /\ Options(i).conf.types \in Seq(STRING)
         /\ Loads \in Nat /\ Loads <= MaxLoads /\ Loads \in 0 .. Loads
<1>0. Loads \in Nat /\ Loads <= MaxLoads /\ Loads \in 0 .. Loads
  BY DEF ResolverType, Loads
<1>1. CASE i = 0
  <2>1. Options(i) = ZeroOptions
    BY <1>1 DEF Options
  <2>2. ZeroOptions.cid = 0 /\ ZeroOptions.conf.types = <<>>
    BY DEF ZeroOptions
  <2>3. <<>> \in Seq(STRING)
    OBVIOUS
  <2>4. Options(i).conf.types \in Seq(STRING)
    BY <2>1, <2>2, <2>3, Zenon
  <2>5. Options(i).cid \in Nat /\ Options(i).cid <= i
    BY <1>1, <2>1, <2>2
  <2> QED BY <1>0, <2>4, <2>5
<1>2. CASE i # 0
  <2>1. i \in 1 .. Len(hist) /\ Options(i) = hist[i]
    BY <1>0, <1>2 DEF Options, Loads
  <2>2. hist[i] \in OptionsType
    BY <2>1, ElementOfSeq DEF ResolverType
  <2>3. PICK c \in Configs : hist[i].conf = Normalized(c)
    BY <2>2 DEF OptionsType
  <2>4. hist[i].conf.types \in Seq(STRING)
    BY <2>3, TypesAssumption
  <2> QED BY <1>0, <2>1, <2>2, <2>4 DEF OptionsType, CidInv, Loads
<1> QED BY <1>1, <1>2

LEMMA CachedTyped ==
  ASSUME IInv
  PROVE  Cached(Current) # None => Cached(Current) \in [found : SUBSET STRING, again : BOOLEAN]
<1>1. Loads \in 0 .. Loads
  BY DEF IInv, ResolverType, Loads
<1>2. Current.cid \in Nat /\ Current.cid <= Loads /\ Loads <= MaxLoads /\ Loads \in Nat
  BY <1>1, OptionsTyped DEF IInv, ResolverInv, Current
<1>3. Current.cid # 0 => Current.cid \in 1 .. MaxLoads
  BY <1>2, LoadsAssumption
<1> QED BY <1>3 DEF Cached, IInv, ResolverType

LEMMA LoadKeeps ==
  ASSUME IInv, NEW c \in Configs, Load(c)
  PROVE  IInv'
<1> DEFINE new == Normalized(c)
           old == Current
           renew == new.servers # {} /\ (old.cid = 0 \/ shouldResetDNSCache(old.conf, new))
           o == [conf |-> new, cid |-> IF renew THEN Loads + 1 ELSE old.cid]
<1>1. hist' = Append(hist, o) /\ Loads < MaxLoads /\ UNCHANGED <<dnsCache, w, call, leg>>
  BY DEF Load
<1>2. hist \in Seq(OptionsType) /\ Loads = Len(hist) /\ Loads \in Nat /\ MaxLoads \in Nat
  BY LoadsAssumption DEF IInv, ResolverType, Loads
<1>3. old.cid \in Nat /\ old.cid <= Loads
  <2>1. Loads \in 0 .. Loads
    BY <1>2
  <2> QED BY <2>1, OptionsTyped DEF IInv, ResolverInv, Current
<1>4. o \in OptionsType /\ o.conf = new /\ o.cid = IF renew THEN Loads + 1 ELSE old.cid
  BY <1>2, <1>3 DEF OptionsType
<1> HIDE DEF o
<1>5. /\ hist' \in Seq(OptionsType) /\ Loads' = Loads + 1 /\ hist'[Loads + 1] = o
      /\ \A i \in 1 .. Loads : hist'[i] = hist[i]
  <2>1. /\ hist' \in Seq(OptionsType) /\ Len(hist') = Len(hist) + 1
        /\ \A i \in 1 .. (Len(hist) + 1) : hist'[i] = IF i <= Len(hist) THEN hist[i] ELSE o
    BY <1>1, <1>2, <1>4, AppendProperties
  <2> QED BY <1>2, <2>1 DEF Loads
<1>6. Current' = o
  <2>1. Loads + 1 # 0
    BY <1>2
  <2> QED BY <1>5, <2>1 DEF Current, Options
<1>7. \A i \in 0 .. Loads : Options(i)' = Options(i)
  BY <1>2, <1>5 DEF Options
<1>8. ResolverType'
  <2>1. Loads' <= MaxLoads
    BY <1>1, <1>2, <1>5
  <2> QED BY <1>1, <1>5, <2>1 DEF IInv, ResolverType
<1>9. o.cid <= Loads + 1 /\ o.cid \in Nat
  BY <1>2, <1>3, <1>4
<1> HIDE DEF new, renew
<1>10. CidInv'
  <2>1. \A i \in 1 .. Loads' : hist'[i].cid <= i
    <3>1. \A i \in 1 .. Loads : hist[i].cid <= i
      BY DEF IInv, ResolverInv, CidInv
    <3> QED BY <1>2, <1>5, <1>9, <3>1
  <2>2. ASSUME o.conf.servers # {}, NEW i \in 1 .. Loads', hist'[i].cid = o.cid, o.cid # 0
        PROVE  hist'[i].conf.types = o.conf.types
    <3>1. CASE i = Loads + 1
      BY <1>5, <3>1
    <3>2. CASE i # Loads + 1
      <4>1. i \in 1 .. Loads /\ hist'[i] = hist[i]
        BY <1>2, <1>5, <3>2
      <4>2. hist[i].cid <= i /\ hist[i].cid = o.cid
        BY <2>2, <4>1 DEF IInv, ResolverInv, CidInv
      <4>3. ~renew /\ o.cid = old.cid
        BY <1>2, <1>4, <1>9, <4>1, <4>2
      <4>4. old.cid # 0 /\ ~shouldResetDNSCache(old.conf, new)
        BY <1>4, <2>2, <4>3 DEF renew
      <4>5. old.conf.types = o.conf.types /\ old.conf.servers = o.conf.servers
        BY <1>4, <4>4 DEF shouldResetDNSCache
      <4> QED BY <2>2, <4>1, <4>2, <4>3, <4>5 DEF IInv, ResolverInv, CidInv
    <3> QED BY <3>1, <3>2
  <2> QED BY <1>6, <2>1, <2>2 DEF CidInv
<1>11. CacheInv'
  BY <1>1, <1>2, <1>5 DEF IInv, ResolverInv, CacheInv
<1>12. WorkInv'
  <2>1. w.pc = "ask" => w.q.opts \in 0 .. Loads
    BY <1>2 DEF IInv, ResolverType, ResolverInv, WorkInv, QueryType
  <2>2. w.pc = "ask" => w.q.opts <= Loads'
    BY <1>2, <1>5, <2>1
  <2> QED BY <1>1, <1>7, <2>1, <2>2 DEF IInv, ResolverInv, WorkInv
<1>13. CacheFits'
  <2>1. Cached(Current)' = IF o.cid = 0 THEN None ELSE dnsCache[o.cid]
    BY <1>1, <1>6 DEF Cached
  <2>2. CASE renew
    <3>1. o.cid = Loads + 1 /\ Loads + 1 \in 1 .. MaxLoads /\ Loads + 1 > Loads
      BY <1>1, <1>2, <1>4, <2>2
    <3>2. dnsCache[o.cid] = None
      BY <3>1 DEF IInv, ResolverInv, CacheInv
    <3> QED BY <2>1, <3>2 DEF CacheFits
  <2>3. CASE ~renew /\ o.conf.servers # {} /\ o.cid # 0
    <3>1. o.cid = old.cid /\ old.cid # 0 /\ ~shouldResetDNSCache(old.conf, new)
      BY <1>4, <2>3 DEF renew
    <3>2. old.conf.types = o.conf.types /\ old.conf.servers = o.conf.servers
      BY <1>4, <3>1 DEF shouldResetDNSCache
    <3>3. Cached(Current)' = Cached(Current)
      BY <2>1, <3>1 DEF Cached
    <3> QED BY <1>6, <2>3, <3>2, <3>3 DEF IInv, ResolverInv, CacheFits
  <2>4. CASE o.conf.servers = {} \/ o.cid = 0
    BY <1>6, <2>1, <2>4 DEF CacheFits
  <2> QED BY <2>2, <2>3, <2>4
<1>14. DialType' /\ DialInv'
  BY <1>1, DialSame
<1> QED BY <1>8, <1>10, <1>11, <1>12, <1>13, <1>14 DEF IInv, ResolverInv

\* A result is handed to the call that asked for it, whatever that call is doing
\* by now.
LEMMA AnswerDial ==
  ASSUME IInv, NEW k \in Calls, NEW found \in SUBSET STRING, Answer(k, found), UNCHANGED leg
  PROVE  DialType' /\ DialInv'
<1> DEFINE c == call[k]
<1>0. c \in CallType /\ call \in [Calls -> CallType]
  BY CallTyped DEF IInv, DialType
<1>1. PICK r \in (IF c.gone THEN {found, {}} ELSE {found}) :
        call' = [call EXCEPT ![k].pc = IF @ = "offer" THEN "wait" ELSE @, ![k].res = r]
  BY DEF Answer
<1>2. r \in SUBSET STRING
  BY <1>1
<1> DEFINE C == [c EXCEPT !.pc = IF c.pc = "offer" THEN "wait" ELSE c.pc, !.res = r]
<1>3. call' = [call EXCEPT ![k] = C]
  BY <1>0, <1>1 DEF CallType
<1>4. C \in CallType /\ C.pc = (IF c.pc = "offer" THEN "wait" ELSE c.pc)
      /\ C.gone = c.gone /\ C.ret = c.ret /\ C.n = c.n /\ C.closed = c.closed /\ C.err = c.err
  BY <1>0, <1>2 DEF CallType
<1> HIDE DEF C
<1> QED BY <1>3, <1>4, WaitingDial

WorkerType == [pc : {"select", "ask", "gone"}, conn : BOOLEAN, q : QueryType]

\* A step of the worker that leaves the options and the cache alone.
LEMMA WorkerKeeps ==
  ASSUME IInv, UNCHANGED <<hist, dnsCache>>, w' \in WorkerType, WorkInv'
  PROVE  ResolverType' /\ ResolverInv'
<1>1. ResolverType' /\ CidInv' /\ CacheInv'
  BY DEF IInv, ResolverType, ResolverInv, CidInv, CacheInv, Current, Loads, Options, WorkerType
<1>2. CacheFits'
  BY DEF IInv, ResolverInv, CacheFits, Cached, Current, Loads, Options
<1> QED BY <1>1, <1>2 DEF ResolverInv

LEMMA AskedTyped == Asked \in QueryType
<1>1. <<>> \in Seq(STRING)
  OBVIOUS
<1> QED BY <1>1 DEF Asked, QueryType

LEMMA WorkerTakesKeeps ==
  ASSUME IInv, NEW k \in Calls, WorkerTakes(k)
  PROVE  IInv'
<1>0. call[k] \in CallType /\ call \in [Calls -> CallType] /\ w \in WorkerType
  BY CallTyped DEF IInv, DialType, ResolverType, WorkerType
<1>1. UNCHANGED <<hist, dnsCache, leg>> /\ call[k].pc = "offer"
  BY DEF WorkerTakes
<1>2. CASE Cached(Current) # None
  <2>1. Answer(k, Cached(Current).found) /\ UNCHANGED w
    BY <1>2 DEF WorkerTakes
  <2>2. Cached(Current).found \in SUBSET STRING
    BY <1>2, CachedTyped
  <2> QED BY <1>1, <2>1, <2>2, AnswerDial, ResolverSame DEF IInv
<1>3. CASE Cached(Current) = None
  <2> DEFINE C == [call[k] EXCEPT !.pc = "wait"]
             Q == [Asked EXCEPT !.for = k, !.opts = Loads, !.left = Current.conf.types]
  <2>1. call' = [call EXCEPT ![k].pc = "wait"] /\ w' = [w EXCEPT !.pc = "ask", !.q = Q]
    BY <1>3 DEF WorkerTakes
  <2>2. C \in CallType /\ C.pc = "wait" /\ C.ret = call[k].ret /\ C.n = call[k].n
        /\ C.closed = call[k].closed /\ C.err = call[k].err
    BY <1>0 DEF CallType
  <2>3. call' = [call EXCEPT ![k] = C]
    BY <1>0, <2>1 DEF CallType
  <2> HIDE DEF C
  <2>4. DialType' /\ DialInv'
    BY <1>1, <2>2, <2>3, WaitingDial
  <2>5. Loads \in Nat /\ Current.conf.types \in Seq(STRING)
    <3>1. Loads \in 0 .. Loads
      BY DEF IInv, ResolverType, Loads
    <3> QED BY <3>1, OptionsTyped DEF IInv, ResolverInv, Current
  <2>6. Q \in QueryType /\ Q.for = k /\ Q.opts = Loads /\ Q.left = Current.conf.types /\ Q.found = {}
    BY <2>5, AskedTyped DEF Asked, QueryType
  <2> HIDE DEF Q
  <2>7. w' \in WorkerType /\ w'.q = Q
    BY <1>0, <2>1, <2>6 DEF WorkerType
  <2>8. Loads' = Loads /\ Options(Loads)' = Current
    BY <1>1 DEF Loads, Options, Current
  <2>9. WorkInv'
    BY <2>5, <2>6, <2>7, <2>8 DEF WorkInv
  <2> QED BY <1>1, <2>4, <2>7, <2>9, WorkerKeeps DEF IInv
<1> QED BY <1>2, <1>3

LEMMA QueryKeeps ==
  ASSUME IInv,
         \/ Connect \/ RoundTripFails \/ IdleTimeout \/ WorkerReturns
         \/ \E some \in BOOLEAN : RoundTrip(some)
  PROVE  IInv'
<1>0. w \in WorkerType /\ w.q \in QueryType /\ Loads \in Nat
  BY DEF IInv, ResolverType, WorkerType, Loads
<1>1. UNCHANGED <<hist, dnsCache, call, leg>>
  BY DEF Connect, RoundTripFails, IdleTimeout, WorkerReturns, RoundTrip
<1>2. Loads' = Loads /\ \A i : Options(i)' = Options(i)
  BY <1>1 DEF Loads, Options
<1>3. ASSUME w' \in WorkerType, w'.pc = "ask" => w.pc = "ask" /\ w'.q = w.q
      PROVE  IInv'
  <2>1. WorkInv'
    BY <1>2, <1>3 DEF IInv, ResolverInv, WorkInv
  <2> QED BY <1>1, <1>3, <2>1, WorkerKeeps, DialSame DEF IInv
<1>4. CASE UNCHANGED w
  BY <1>0, <1>3, <1>4
<1>5. ASSUME RoundTripFails \/ IdleTimeout PROVE IInv'
  <2>1. w' = [w EXCEPT !.conn = FALSE]
    BY <1>5 DEF RoundTripFails, IdleTimeout
  <2>2. w' \in WorkerType /\ w'.pc = w.pc /\ w'.q = w.q
    BY <1>0, <2>1 DEF WorkerType
  <2> QED BY <1>3, <2>2
<1>6. ASSUME WorkerReturns PROVE IInv'
  <2>1. w' = [Idle EXCEPT !.pc = "gone"]
    BY <1>6 DEF WorkerReturns
  <2>2. w' \in WorkerType /\ w'.pc = "gone"
    BY <2>1, AskedTyped DEF Idle, WorkerType
  <2> QED BY <1>3, <2>2
<1>7. ASSUME Connect, ~UNCHANGED w PROVE IInv'
  <2> DEFINE Q == [w.q EXCEPT !.again = w.q.again \/ w.q.opts # Loads, !.opts = Loads]
  <2>1. w' = [w EXCEPT !.conn = TRUE, !.q = Q] /\ w.pc = "ask"
    BY <1>0, <1>7 DEF Connect, Asking, WorkerType, QueryType
  <2>2. Q \in QueryType /\ Q.for = w.q.for /\ Q.left = w.q.left /\ Q.found = w.q.found /\ Q.opts = Loads
        /\ (~Q.again => ~w.q.again /\ w.q.opts = Loads)
    BY <1>0 DEF QueryType
  <2> HIDE DEF Q
  <2>3. w' \in WorkerType /\ w'.q = Q
    BY <1>0, <2>1, <2>2 DEF WorkerType
  <2>4. WorkInv'
    BY <1>0, <1>2, <2>1, <2>2, <2>3 DEF IInv, ResolverInv, WorkInv
  <2> QED BY <1>1, <2>3, <2>4, WorkerKeeps, DialSame DEF IInv
<1>8. ASSUME NEW some \in BOOLEAN, RoundTrip(some) PROVE IInv'
  <2> DEFINE F == IF some THEN w.q.found \cup {Head(w.q.left)} ELSE w.q.found
             Q == [w.q EXCEPT !.left = Tail(w.q.left), !.found = F]
  <2>1. w' = [w EXCEPT !.q = Q] /\ w.pc = "ask" /\ w.q.left # <<>>
    BY <1>0, <1>8 DEF RoundTrip, Asking, WorkerType, QueryType
  <2>2. w.q.left \in Seq(STRING) /\ w.q.found \in SUBSET STRING
    BY <1>0 DEF QueryType
  <2>3. Head(w.q.left) \in STRING /\ Tail(w.q.left) \in Seq(STRING)
    BY <2>1, <2>2, HeadTailProperties
  <2>4. Head(w.q.left) \in ToSet(w.q.left) /\ ToSet(Tail(w.q.left)) \subseteq ToSet(w.q.left)
    BY <2>1, <2>2 DEF ToSet
  <2>5. F \in SUBSET STRING /\ F \subseteq w.q.found \cup ToSet(w.q.left)
    BY <2>2, <2>3, <2>4
  <2> HIDE DEF F
  <2>6. Q \in QueryType /\ Q.for = w.q.for /\ Q.left = Tail(w.q.left) /\ Q.found = F
        /\ Q.opts = w.q.opts /\ Q.again = w.q.again
    BY <1>0, <2>3, <2>5 DEF QueryType
  <2> HIDE DEF Q
  <2>7. w' \in WorkerType /\ w'.q = Q
    BY <1>0, <2>1, <2>6 DEF WorkerType
  <2>8. WorkInv'
    BY <1>2, <2>1, <2>4, <2>5, <2>6, <2>7 DEF IInv, ResolverInv, WorkInv
  <2> QED BY <1>1, <2>7, <2>8, WorkerKeeps, DialSame DEF IInv
<1> QED BY <1>4, <1>5, <1>6, <1>7, <1>8

\* What was found is stored in the cache of the options the query was made under.
LEMMA WorkerAnswersKeeps ==
  ASSUME IInv, WorkerAnswers
  PROVE  IInv'
<1> DEFINE q == w.q
           cid == Options(q.opts).cid
           e == [found |-> q.found, again |-> q.again]
<1>0. w \in WorkerType /\ q \in QueryType /\ Loads \in Nat /\ Loads <= MaxLoads /\ MaxLoads \in Nat
  BY LoadsAssumption DEF IInv, ResolverType, WorkerType, Loads
<1>1. w.pc = "ask" /\ Answer(q.for, q.found) /\ UNCHANGED <<hist, leg>>
      /\ w' = [w EXCEPT !.pc = "select", !.q = Asked]
      /\ dnsCache' = IF q.found = {} \/ cid = 0 THEN dnsCache ELSE [dnsCache EXCEPT ![cid] = e]
  BY DEF WorkerAnswers
<1>2. q.for \in Calls /\ q.opts \in 0 .. Loads /\ q.found \in SUBSET STRING /\ q.again \in BOOLEAN
  BY <1>0, <1>1 DEF IInv, ResolverInv, WorkInv, QueryType
<1>3. DialType' /\ DialInv'
  BY <1>1, <1>2, AnswerDial
<1>4. w' \in WorkerType /\ w'.pc = "select"
  BY <1>0, <1>1, AskedTyped DEF WorkerType
<1>5. WorkInv'
  BY <1>4 DEF WorkInv
<1>6. cid \in Nat /\ cid <= q.opts /\ cid <= Loads
  BY <1>0, <1>2, OptionsTyped DEF IInv, ResolverInv
<1>7. e \in [found : SUBSET STRING, again : BOOLEAN] /\ e.found = q.found /\ e.again = q.again
  BY <1>2
<1> HIDE DEF e
<1>8. dnsCache \in [1 .. MaxLoads -> {None} \cup [found : SUBSET STRING, again : BOOLEAN]]
  BY DEF IInv, ResolverType
<1>9. \A c \in 1 .. MaxLoads : dnsCache'[c] = dnsCache[c] \/ (c = cid /\ cid # 0 /\ dnsCache'[c] = e)
  BY <1>1, <1>8
<1>10. dnsCache' \in [1 .. MaxLoads -> {None} \cup [found : SUBSET STRING, again : BOOLEAN]]
  BY <1>1, <1>7, <1>8
<1> HIDE DEF cid
<1>11. ResolverType'
  BY <1>1, <1>4, <1>10 DEF IInv, ResolverType, Loads, WorkerType
<1>12. CidInv'
  BY <1>1 DEF IInv, ResolverInv, CidInv, Current, Loads, Options
<1>13. CacheInv'
  <2>1. Loads' = Loads
    BY <1>1 DEF Loads
  <2> QED BY <1>0, <1>6, <1>9, <2>1 DEF IInv, ResolverInv, CacheInv
<1>14. CacheFits'
  <2>1. Current' = Current
    BY <1>1 DEF Current, Options, Loads
  <2>2. Current.cid \in Nat /\ Current.cid <= Loads
    <3>1. Loads \in 0 .. Loads
      BY <1>0
    <3> QED BY <3>1, OptionsTyped DEF IInv, ResolverInv, Current
  <2>3. CASE Current.cid = 0
    BY <2>1, <2>3 DEF CacheFits, Cached
  <2>4. CASE Current.cid # 0 /\ dnsCache'[Current.cid] = dnsCache[Current.cid]
    <3>1. Cached(Current)' = Cached(Current)
      BY <2>1, <2>4 DEF Cached
    <3> QED BY <2>1, <3>1 DEF IInv, ResolverInv, CacheFits
  <2>5. CASE Current.cid = cid /\ cid # 0 /\ dnsCache'[cid] = e
    <3>1. Cached(Current)' = e
      BY <2>1, <2>5 DEF Cached
    <3>2. SUFFICES ASSUME ~q.again, Current.conf.servers # {}
                   PROVE  q.found \subseteq ToSet(Current.conf.types)
      BY <1>7, <2>1, <3>1 DEF CacheFits
    <3>3. q.found \subseteq ToSet(Options(q.opts).conf.types)
      BY <1>1, <3>2 DEF IInv, ResolverInv, WorkInv
    <3>4. q.opts \in 1 .. Loads /\ Options(q.opts) = hist[q.opts]
      BY <1>0, <1>2, <1>6, <2>5 DEF Options
    <3>5. hist[q.opts].cid = Current.cid
      BY <2>5, <3>4 DEF cid
    <3>6. hist[q.opts].conf.types = Current.conf.types
      BY <2>5, <3>2, <3>4, <3>5 DEF IInv, ResolverInv, CidInv
    <3> QED BY <3>3, <3>4, <3>6
  <2>6. Current.cid # 0 => Current.cid \in 1 .. MaxLoads
    BY <1>0, <2>2
  <2> QED BY <1>9, <2>3, <2>4, <2>5, <2>6
<1> QED BY <1>3, <1>5, <1>11, <1>12, <1>13, <1>14 DEF IInv, ResolverInv

LEMMA ExpireKeeps ==
  ASSUME IInv, NEW c \in 1 .. MaxLoads, Expire(c)
  PROVE  IInv'
<1>1. dnsCache' = [dnsCache EXCEPT ![c] = None] /\ UNCHANGED <<hist, w, call, leg>>
  BY DEF Expire
<1>2. DialType' /\ DialInv'
  BY <1>1, DialSame
<1>3. ResolverType' /\ CidInv' /\ WorkInv'
  BY <1>1 DEF IInv, ResolverType, ResolverInv, CidInv, WorkInv, Current, Loads, Options
<1>4. CacheInv'
  BY <1>1 DEF IInv, ResolverType, ResolverInv, CacheInv, Loads
<1>5. CacheFits'
  <2>1. Current' = Current
    BY <1>1 DEF Current, Options, Loads
  <2>2. Cached(Current)' = Cached(Current) \/ Cached(Current)' = None
    BY <1>1, <2>1 DEF Cached, IInv, ResolverType
  <2> QED BY <2>1, <2>2 DEF IInv, ResolverInv, CacheFits
<1> QED BY <1>2, <1>3, <1>4, <1>5 DEF IInv, ResolverInv

-----------------------------------------------------------------------------
LEMMA InitIInv == Init => IInv
<1> SUFFICES ASSUME Init PROVE IInv
  OBVIOUS
<1>1. DialType /\ DialInv
  BY ForgottenOK DEF Init, DialType, DialInv
<1>2. hist = <<>> /\ Loads = 0 /\ Current = ZeroOptions
  BY DEF Init, Loads, Current, Options
<1>3. hist \in Seq(OptionsType)
  BY <1>2
<1>4. w \in WorkerType /\ w.pc = "select"
  BY AskedTyped DEF Init, Idle, WorkerType
<1>5. ResolverType
  BY <1>2, <1>3, <1>4, LoadsAssumption DEF Init, ResolverType, WorkerType
<1>6. CidInv /\ CacheInv /\ WorkInv
  BY <1>2, <1>4 DEF Init, CidInv, CacheInv, WorkInv
<1>7. CacheFits
  BY <1>2 DEF CacheFits, Cached, ZeroOptions
<1> QED BY <1>1, <1>5, <1>6, <1>7 DEF IInv, ResolverInv

LEMMA StepIInv ==
  ASSUME IInv, [Next]_vars
  PROVE  IInv'
<1>1. CASE UNCHANGED vars
  BY <1>1, DialSame, ResolverSame DEF vars, IInv
<1>2. CASE RunReturns
  BY <1>2, DialSame, ResolverSame DEF RunReturns, IInv
<1>3. ASSUME NEW k \in Calls, CallStep(k) PROVE IInv'
  BY <1>3, ResolveKeeps, LoneReturnsKeeps, NobodyWinsKeeps, ReturnsErrorKeeps DEF CallStep
<1>4. ASSUME NEW k \in Calls, NEW i \in Legs, LegStep(k, i) PROVE IInv'
  BY <1>4, DialKeeps, LegFailsKeeps, WinsKeeps, AbandonsKeeps, LegEndsKeeps DEF LegStep
<1>5. CASE Next
  BY <1>2, <1>3, <1>4, <1>5, LoadKeeps, ResolveKeeps, ForgetKeeps, DialKeeps, WorkerTakesKeeps, QueryKeeps,
     WorkerAnswersKeeps, ExpireKeeps
  DEF Next
<1> QED BY <1>1, <1>5

LEMMA SpecIInv == Spec => []IInv
<1>1. Init => IInv
  BY InitIInv
<1>2. IInv /\ [Next]_vars => IInv'
  BY StepIInv
<1> QED BY <1>1, <1>2, PTL DEF Spec

\* For any number of calls: no connection that proxy.Dial or a leg of the race
\* has made is lost, whichever of the goroutines and contexts comes first, and
\* the only race without a winner and without an error is the one whose call was
\* cancelled as both dials succeeded.
THEOREM RaceAlwaysSettles == Spec => []RaceSettles
<1>1. ASSUME IInv PROVE RaceSettles
  <2>1. ASSUME NEW k \in Calls
        PROVE  /\ \A i \in Legs :
                     /\ call[k].ret = i => leg[k][i].c = "open"
                     /\ (leg[k][i].at = "done" /\ leg[k][i].inner = "over" /\ leg[k][i].c = "open") =>
                           call[k].ret = i
               /\ (call[k].pc = "error" /\ ~call[k].err) =>
                     call[k].gone /\ \A i \in Legs : leg[k][i].c = "closed"
    <3>1. CallOK(call[k], leg[k])
      BY <1>1, CallTyped
    <3>2. \A i \in Legs : LegOK(call[k], leg[k][i], i)
      BY <3>1 DEF CallOK
    <3>3. RaceOK(call[k], leg[k])
      BY <3>1 DEF CallOK
    <3> QED BY <3>2, <3>3 DEF LegOK, RaceOK, Legs
  <2> QED BY <2>1 DEF RaceSettles
<1> QED BY <1>1, SpecIInv, PTL

\* For any options and any number of reloads: what a call finds in the cache was
\* asked for under the query types in force, with the exception that CacheFits
\* names.
THEOREM CacheAlwaysFits == Spec => []CacheFits
<1>1. IInv => CacheFits
  BY DEF IInv, ResolverInv
<1> QED BY <1>1, SpecIInv, PTL
=============================================================================
