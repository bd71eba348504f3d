----------------------------- MODULE DNS_proofs -----------------------------
(***************************************************************************)
(* For any connections, questions, options and exchanges, and any number   *)
(* of reloads: what is cached fits the options that lead to it, a result   *)
(* answers its question under options in force since it was asked, and no  *)
(* question is lost between the worker and the exchanges.                  *)
(***************************************************************************)
EXTENDS DNS, SequenceTheorems, TLAPS

Entry == [conf : Configs, rid : Nat, cid : Nat]
Results == [q : Questions, by : Nat]

ClientType == [pc : {"none", "read", "offer", "wait", "closed"}, opts : Nat,
               q : Questions \cup {None}, from : Nat, res : Results \cup {None, Closed},
               gone : BOOLEAN, asked : Nat, unserved : BOOLEAN]

\* Routes and servers are only passed on, so that nothing is asked of them.
IsWorker(x) ==
    /\ DOMAIN x = {"pc", "for", "q", "route", "to", "fresh"}
    /\ x.pc \in {"select", "send", "gone"}
    /\ x.fresh \in BOOLEAN

IsExchange(x) ==
    /\ DOMAIN x = {"pc", "route", "server", "opts", "for", "q"}
    /\ x.pc \in {"none", "select", "busy", "done"}

OptionsType ==
    /\ hist \in Seq(Entry)
    /\ Loads <= MaxLoads
    /\ routeCache = [r \in 1 .. MaxLoads |-> [d \in Domains |-> routeCache[r][d]]]
    /\ dnsCache \in [1 .. MaxLoads -> [Questions -> Results \cup {None}]]

-----------------------------------------------------------------------------
(***************************************************************************)
(* The options and the caches.                                             *)
(***************************************************************************)

\* What two options that share a cache of results agree about.
Alike(x, y) == x.v4 = y.v4 /\ x.ttl = y.ttl /\ x.redirects = y.redirects

\* Routes and caches are named by the load that made them, and the options
\* that share them are like the options of that load.
HistInv ==
    \A i \in 1 .. Loads :
        /\ hist[i].rid <= i
        /\ hist[i].rid # 0 => /\ hist[hist[i].rid].rid = hist[i].rid
                              /\ hist[hist[i].rid].conf.routes = hist[i].conf.routes
        /\ hist[i].cid <= i
        /\ hist[i].conf.cache <=> hist[i].cid # 0
        /\ hist[i].cid # 0 => /\ hist[hist[i].cid].cid = hist[i].cid
                              /\ Alike(hist[hist[i].cid].conf, hist[i].conf)

\* A route was searched under options that have this routeCache, and a result
\* was asked for under options that have this dnsCache.
RouteInv ==
    \A r \in 1 .. MaxLoads, d \in Domains :
        routeCache[r][d] # None =>
            \E j \in 1 .. Loads :
                /\ hist[j].rid = r
                /\ routeCache[r][d] =
                      FirstMatch(r, hist[j].conf.routes, hist[j].conf.redirects[d])

CacheInv ==
    \A c \in 1 .. MaxLoads, q \in Questions :
        dnsCache[c][q] # None =>
            /\ dnsCache[c][q].q = q
            /\ dnsCache[c][q].by \in 1 .. Loads
            /\ hist[dnsCache[c][q].by].cid = c

OptionsInv == HistInv /\ RouteInv /\ CacheInv

-----------------------------------------------------------------------------
(***************************************************************************)
(* Questions on their way, for handlers c, a worker v and exchanges x: a   *)
(* step of two of them is taken apart into a step of each.                 *)
(***************************************************************************)

HandType(c, v, x) ==
    /\ c \in [Clients -> ClientType]
    /\ IsWorker(v)
    /\ x = [e \in Slots |-> x[e]]
    /\ \A e \in Slots : IsExchange(x[e])

\* A result answers its question under options in force since it was asked.
ResultOK(C) ==
    C.res \notin {None, Closed} =>
        /\ C.res.q = C.q
        /\ C.res.by \in 1 .. Loads
        /\ \E i \in C.from .. Loads : SameShape(Options(C.res.by).conf, Options(i).conf, C.q)

\* Only a handler that waits has a result.
ClientOK(C) ==
    /\ C.pc = "read" => Loads > 0
    /\ C.pc \in {"offer", "wait"} => C.q \in Questions /\ C.from \in 1 .. Loads
    /\ C.res # None => C.pc = "wait"
    /\ ResultOK(C)

\* Whoever holds a question holds the one its handler waits for, unless the
\* handler has returned.
Awaits(c, h, q) ==
    /\ h \in Clients /\ q \in Questions
    /\ \/ c[h].pc = "wait" /\ c[h].q = q /\ c[h].res = None
       \/ c[h].pc = "closed"

WorkerOK(c, v) == v.pc = "send" => v.to \in Slots /\ Loads > 0 /\ Awaits(c, v.for, v.q)

ExchangeOK(c, X) ==
    /\ X.pc = "busy" => /\ Awaits(c, X.for, X.q)
                        /\ X.opts \in 1 .. Loads
                        /\ c[X.for].pc = "wait" => c[X.for].from <= X.opts
    /\ X.pc # "busy" => X.for = None

\* Nobody else holds it.
WorkerAlone(c, v, x) ==
    \A e \in Slots : (v.pc = "send" /\ x[e].pc = "busy" /\ x[e].for = v.for) =>
                         c[v.for].pc = "closed"

ExchangeAlone(c, x) ==
    \A e, f \in Slots :
        (x[e].pc = "busy" /\ x[f].pc = "busy" /\ x[e].for = x[f].for /\ e # f) =>
            c[x[e].for].pc = "closed"

HandOK(c, v, x) ==
    /\ \A h \in Clients : ClientOK(c[h])
    /\ WorkerOK(c, v)
    /\ \A e \in Slots : ExchangeOK(c, x[e])
    /\ WorkerAlone(c, v, x)
    /\ ExchangeAlone(c, x)

Hand(c, v, x) == HandType(c, v, x) /\ HandOK(c, v, x)

\* A new exchange is there to take the question it was made for.
FreshInv == (w.pc = "send" /\ w.fresh /\ job = "up") => ex[w.to].pc = "select"

ProcessInv ==
    /\ job \in {"up", "down"}
    /\ Hand(cl, w, ex)
    /\ FreshInv
    /\ NoQueryLost

IInv == OptionsType /\ OptionsInv /\ ProcessInv

-----------------------------------------------------------------------------
(***************************************************************************)
(* What a step of one process leaves intact.                               *)
(***************************************************************************)

NotHeld(h, v, x) ==
    /\ ~(v.pc = "send" /\ v.for = h)
    /\ \A e \in Slots : ~(x[e].pc = "busy" /\ x[e].for = h)

LEMMA NobodyHolds ==
  ASSUME NEW c, NEW v, NEW x, Hand(c, v, x), NEW h \in Clients,
         c[h].pc \in {"none", "read", "offer"} \/ c[h].res # None
  PROVE  NotHeld(h, v, x)
<1>1. c[h].pc # "closed" /\ ~(c[h].pc = "wait" /\ c[h].res = None)
  BY DEF Hand, HandOK, ClientOK
<1> QED BY <1>1 DEF Hand, HandOK, WorkerOK, ExchangeOK, Awaits, NotHeld

LEMMA ClientStep ==
  ASSUME NEW c, NEW v, NEW x, Hand(c, v, x), NEW h \in Clients,
         NEW C \in ClientType, ClientOK(C),
         \/ C.pc = "closed"
         \/ C.pc = c[h].pc /\ C.q = c[h].q /\ C.res = c[h].res /\ C.from = c[h].from
         \/ NotHeld(h, v, x)
  PROVE  Hand([c EXCEPT ![h] = C], v, x)
<1> DEFINE d == [c EXCEPT ![h] = C]
<1>1. c \in [Clients -> ClientType]
  BY DEF Hand, HandType
<1>2. d \in [Clients -> ClientType] /\ d[h] = C /\ \A k \in Clients \ {h} : d[k] = c[k]
  BY <1>1
<1> HIDE DEF d
<1>3. HandType(d, v, x)
  BY <1>2 DEF Hand, HandType
<1>4. \A k \in Clients : ClientOK(d[k])
  BY <1>2 DEF Hand, HandOK
<1>5. WorkerOK(d, v)
  BY <1>2 DEF Hand, HandOK, WorkerOK, Awaits, NotHeld
<1>6. ASSUME NEW e \in Slots PROVE ExchangeOK(d, x[e])
  <2>1. ExchangeOK(c, x[e])
    BY DEF Hand, HandOK
  <2>2. CASE x[e].pc # "busy"
    BY <2>1, <2>2 DEF ExchangeOK
  <2>3. CASE x[e].pc = "busy" /\ x[e].for # h
    BY <1>2, <2>1, <2>3 DEF ExchangeOK, Awaits
  <2>4. CASE x[e].pc = "busy" /\ x[e].for = h
    <3>1. CASE C.pc = "closed"
      BY <1>2, <2>1, <2>4, <3>1 DEF ExchangeOK, Awaits
    <3>2. CASE C.pc = c[h].pc /\ C.q = c[h].q /\ C.res = c[h].res /\ C.from = c[h].from
      BY <1>2, <2>1, <2>4, <3>2 DEF ExchangeOK, Awaits
    <3>3. ~NotHeld(h, v, x)
      BY <2>4 DEF NotHeld
    <3> QED BY <3>1, <3>2, <3>3
  <2> QED BY <2>2, <2>3, <2>4
<1>7. WorkerAlone(d, v, x)
  BY <1>2 DEF Hand, HandOK, WorkerOK, Awaits, WorkerAlone, NotHeld
<1>8. ExchangeAlone(d, x)
  <2>1. ASSUME NEW e \in Slots, x[e].pc = "busy" PROVE x[e].for \in Clients
    BY <2>1 DEF Hand, HandOK, ExchangeOK, Awaits
  <2> QED BY <1>2, <2>1 DEF Hand, HandOK, ExchangeAlone, NotHeld
<1> QED BY <1>3, <1>4, <1>5, <1>6, <1>7, <1>8 DEF Hand, HandOK, d

LEMMA WorkerStep ==
  ASSUME NEW c, NEW v, NEW x, Hand(c, v, x), NEW V, IsWorker(V),
         WorkerOK(c, V), WorkerAlone(c, V, x)
  PROVE  Hand(c, V, x)
BY DEF Hand, HandType, HandOK

\* Exchanges that end, are made or are done with their question.
LEMMA ExchangesFree ==
  ASSUME NEW c, NEW v, NEW x, Hand(c, v, x), NEW y,
         y = [e \in Slots |-> y[e]],
         \A e \in Slots : y[e] = x[e] \/ (IsExchange(y[e]) /\ y[e].pc # "busy" /\ y[e].for = None)
  PROVE  Hand(c, v, y)
<1>1. HandType(c, v, y)
  BY DEF Hand, HandType
<1>2. \A e \in Slots : ExchangeOK(c, y[e])
  BY DEF Hand, HandOK, ExchangeOK
<1>3. WorkerAlone(c, v, y)
  BY DEF Hand, HandOK, WorkerAlone
<1>4. ExchangeAlone(c, y)
  BY DEF Hand, HandOK, ExchangeAlone
<1> QED BY <1>1, <1>2, <1>3, <1>4 DEF Hand, HandOK

LEMMA ExchangeBusy ==
  ASSUME NEW c, NEW v, NEW x, Hand(c, v, x), NEW e \in Slots, NEW X, IsExchange(X),
         X.pc = "busy", ExchangeOK(c, X),
         c[X.for].pc # "closed" =>
             /\ ~(v.pc = "send" /\ v.for = X.for)
             /\ \A f \in Slots \ {e} : ~(x[f].pc = "busy" /\ x[f].for = X.for)
  PROVE  Hand(c, v, [x EXCEPT ![e] = X])
<1> DEFINE y == [x EXCEPT ![e] = X]
<1>1. y = [f \in Slots |-> y[f]] /\ y[e] = X /\ \A f \in Slots \ {e} : y[f] = x[f]
  BY DEF Hand, HandType
<1> HIDE DEF y
<1>2. HandType(c, v, y)
  BY <1>1 DEF Hand, HandType
<1>3. \A f \in Slots : ExchangeOK(c, y[f])
  BY <1>1 DEF Hand, HandOK
<1>4. WorkerAlone(c, v, y)
  BY <1>1 DEF Hand, HandOK, WorkerAlone
<1>5. ExchangeAlone(c, y)
  BY <1>1 DEF Hand, HandOK, ExchangeAlone
<1> QED BY <1>2, <1>3, <1>4, <1>5 DEF Hand, HandOK, y

-----------------------------------------------------------------------------
(***************************************************************************)
(* Options and caches.                                                     *)
(***************************************************************************)

LEMMA OptionsTyped ==
  ASSUME OptionsType, OptionsInv
  PROVE  /\ Loads \in 0 .. MaxLoads
         /\ Options(0) = ZeroOptions
         /\ \A i \in 1 .. Loads : Options(i) = hist[i] /\ hist[i] \in Entry
         /\ \A i \in 0 .. Loads : /\ Options(i).rid \in 0 .. MaxLoads
                                  /\ Options(i).cid \in 0 .. MaxLoads
<1>1. Loads \in 0 .. MaxLoads
  BY LoadsAssumption DEF OptionsType, Loads
<1>2. \A i \in 1 .. Loads : Options(i) = hist[i] /\ hist[i] \in Entry
  BY <1>1 DEF OptionsType, Loads, Options
<1>3. \A i \in 1 .. Loads : hist[i].rid \in 0 .. MaxLoads /\ hist[i].cid \in 0 .. MaxLoads
  BY <1>1, <1>2, LoadsAssumption DEF OptionsInv, HistInv, Entry
<1>4. Options(0) = ZeroOptions
  BY DEF Options
<1>5. ZeroOptions.rid = 0 /\ ZeroOptions.cid = 0
  BY DEF ZeroOptions
<1>6. ASSUME NEW i \in 0 .. Loads
      PROVE  Options(i).rid \in 0 .. MaxLoads /\ Options(i).cid \in 0 .. MaxLoads
  BY <1>1, <1>2, <1>3, <1>4, <1>5, LoadsAssumption
<1> QED BY <1>1, <1>2, <1>4, <1>6

\* Options that share a cache of results or a cache of routes.
LEMMA SharedAlike ==
  ASSUME OptionsType, OptionsInv, NEW i \in 1 .. Loads, NEW j \in 1 .. Loads
  PROVE  /\ hist[i].cid = hist[j].cid /\ hist[i].cid # 0 => Alike(hist[i].conf, hist[j].conf)
         /\ hist[i].rid = hist[j].rid /\ hist[i].rid # 0 =>
                hist[i].conf.routes = hist[j].conf.routes
<1>1. hist[i].cid # 0 => Alike(hist[hist[i].cid].conf, hist[i].conf)
  BY DEF OptionsInv, HistInv
<1>2. hist[j].cid # 0 => Alike(hist[hist[j].cid].conf, hist[j].conf)
  BY DEF OptionsInv, HistInv
<1>3. hist[i].rid # 0 => hist[hist[i].rid].conf.routes = hist[i].conf.routes
  BY DEF OptionsInv, HistInv
<1>4. hist[j].rid # 0 => hist[hist[j].rid].conf.routes = hist[j].conf.routes
  BY DEF OptionsInv, HistInv
<1> QED BY <1>1, <1>2, <1>3, <1>4 DEF Alike

\* A result found in the cache of options answers the question as they would.
LEMMA CachedFresh ==
  ASSUME OptionsType, OptionsInv, NEW i \in 1 .. Loads, NEW q \in Questions,
         Cached(hist[i], q) # None
  PROVE  /\ Cached(hist[i], q) \in Results
         /\ Cached(hist[i], q).q = q
         /\ Cached(hist[i], q).by \in 1 .. Loads
         /\ SameShape(Options(Cached(hist[i], q).by).conf, hist[i].conf, q)
<1> DEFINE r == Cached(hist[i], q)
<1>1. hist[i].cid # 0 /\ r = dnsCache[hist[i].cid][q]
  BY DEF Cached
<1>2. hist[i].cid \in 1 .. MaxLoads
  BY <1>1, OptionsTyped, LoadsAssumption
<1>3. r \in Results
  BY <1>1, <1>2 DEF OptionsType
<1>4. r.q = q /\ r.by \in 1 .. Loads /\ hist[r.by].cid = hist[i].cid
  BY <1>1, <1>2 DEF OptionsInv, CacheInv
<1>5. Options(r.by) = hist[r.by]
  BY <1>4, OptionsTyped
<1>6. Alike(hist[r.by].conf, hist[i].conf)
  BY <1>1, <1>4, SharedAlike
<1> QED BY <1>3, <1>4, <1>5, <1>6 DEF Alike, SameShape

LEMMA OptionsSame ==
  ASSUME OptionsType, OptionsInv, UNCHANGED <<hist, routeCache, dnsCache>>
  PROVE  OptionsType' /\ OptionsInv'
<1>1. OptionsType' /\ HistInv'
  BY DEF OptionsType, OptionsInv, HistInv, Loads
<1>2. RouteInv' /\ CacheInv'
  BY DEF OptionsInv, RouteInv, CacheInv, Loads
<1> QED BY <1>1, <1>2 DEF OptionsInv

LEMMA AppendOptions ==
  ASSUME OptionsType, NEW o \in Entry, Loads < MaxLoads, hist' = Append(hist, o)
  PROVE  /\ hist' \in Seq(Entry) /\ Loads' = Loads + 1 /\ Loads \in Nat
         /\ hist'[Loads + 1] = o
         /\ \A i \in 1 .. Loads : hist'[i] = hist[i]
BY DEF OptionsType, Loads

\* case LoadEvent: the options keep what did not change, and what they make is
\* new.
LEMMA LoadOptions ==
  ASSUME OptionsType, OptionsInv, NEW c \in Configs, Load(c)
  PROVE  OptionsType' /\ OptionsInv'
<1> DEFINE n == Loads + 1
           o == [conf |-> c, rid |-> NewRoutes(Current, c), cid |-> NewCache(Current, c)]
<1>0. Loads \in 0 .. MaxLoads /\ Loads < MaxLoads /\ hist' = Append(hist, o)
      /\ UNCHANGED <<routeCache, dnsCache>>
  BY OptionsTyped DEF Load
<1>1. Current.rid \in 0 .. Loads /\ Current.cid \in 0 .. Loads
  <2>1. CASE Loads = 0
    BY <2>1 DEF Current, Options, ZeroOptions
  <2>2. CASE Loads # 0
    <3>1. Loads \in 1 .. Loads
      BY <1>0, <2>2
    <3>2. Current = hist[Loads] /\ hist[Loads] \in Entry
      BY <2>2, <3>1, OptionsTyped DEF Current
    <3> QED BY <1>0, <3>1, <3>2 DEF OptionsInv, HistInv, Entry
  <2> QED BY <2>1, <2>2
<1>2. \/ o.rid = 0 \/ o.rid = n
      \/ o.rid = Current.rid /\ c.routes = Current.conf.routes
  BY DEF NewRoutes
<1>3. Current.conf.cache \in BOOLEAN /\ (Current.conf.cache <=> Current.cid # 0)
  <2>1. CASE Loads = 0
    BY <2>1 DEF Current, Options, ZeroOptions
  <2>2. CASE Loads # 0
    <3>1. Loads \in 1 .. Loads
      BY <1>0, <2>2
    <3>2. Current = hist[Loads] /\ hist[Loads] \in Entry
      BY <2>2, <3>1, OptionsTyped DEF Current
    <3> QED BY <1>0, <3>1, <3>2, ConfigsAssumption DEF OptionsInv, HistInv, Entry
  <2> QED BY <2>1, <2>2
<1>4. c.cache \in BOOLEAN
  BY ConfigsAssumption
<1>5. \/ o.cid = 0 /\ ~c.cache
      \/ o.cid = n /\ c.cache
      \/ o.cid = Current.cid /\ Current.cid # 0 /\ c.cache /\ Alike(Current.conf, c)
  BY <1>3, <1>4 DEF NewCache, shouldResetDNSCache, Alike
<1>6. o.conf = c /\ o.rid \in 0 .. n /\ o.cid \in 0 .. n /\ n \in Nat \ {0}
  BY <1>0, <1>1, <1>2, <1>5
<1>7. o \in Entry
  BY <1>6 DEF Entry
<1> HIDE DEF o
<1>8. hist' \in Seq(Entry) /\ Loads' = n /\ hist'[n] = o /\ \A i \in 1 .. Loads : hist'[i] = hist[i]
  BY <1>0, <1>7, AppendOptions
<1>15. Loads \in Nat /\ n \in Nat /\ n = Loads + 1 /\ \A i \in 1 .. Loads : hist'[i] = hist[i]
  <2>1. Loads \in Nat /\ n \in Nat /\ n = Loads + 1
    BY <1>0, LoadsAssumption
  <2> QED BY <1>8, <2>1
<1>9. Current.rid # 0 => /\ hist[Current.rid].rid = Current.rid
                         /\ hist[Current.rid].conf.routes = Current.conf.routes
  BY <1>0 DEF OptionsInv, HistInv, Current, Options, ZeroOptions
<1>10. Current.cid # 0 => /\ hist[Current.cid].cid = Current.cid
                          /\ Alike(hist[Current.cid].conf, Current.conf)
  BY <1>0 DEF OptionsInv, HistInv, Current, Options, ZeroOptions
<1> HIDE DEF n
<1>11. OptionsType'
  BY <1>0, <1>8, LoadsAssumption DEF OptionsType, n
<1>12. HistInv'
  <2> SUFFICES ASSUME NEW i \in 1 .. n
               PROVE  /\ hist'[i].rid <= i
                      /\ hist'[i].rid # 0 =>
                            /\ hist'[hist'[i].rid].rid = hist'[i].rid
                            /\ hist'[hist'[i].rid].conf.routes = hist'[i].conf.routes
                      /\ hist'[i].cid <= i
                      /\ hist'[i].conf.cache <=> hist'[i].cid # 0
                      /\ hist'[i].cid # 0 =>
                            /\ hist'[hist'[i].cid].cid = hist'[i].cid
                            /\ Alike(hist'[hist'[i].cid].conf, hist'[i].conf)
    BY <1>8 DEF HistInv
  <2>1. CASE i # n
    <3>1. i \in 1 .. Loads /\ hist'[i] = hist[i] /\ hist[i] \in Entry
      BY <1>15, <2>1, OptionsTyped
    <3>2. /\ hist[i].rid <= i /\ hist[i].cid <= i /\ hist[i].rid \in Nat /\ hist[i].cid \in Nat
          /\ hist[i].conf.cache <=> hist[i].cid # 0
          /\ hist[i].rid # 0 => /\ hist[hist[i].rid].rid = hist[i].rid
                                /\ hist[hist[i].rid].conf.routes = hist[i].conf.routes
          /\ hist[i].cid # 0 => /\ hist[hist[i].cid].cid = hist[i].cid
                                /\ Alike(hist[hist[i].cid].conf, hist[i].conf)
      BY <3>1 DEF OptionsInv, HistInv, Entry
    <3>3. /\ hist[i].rid # 0 => hist'[hist[i].rid] = hist[hist[i].rid]
          /\ hist[i].cid # 0 => hist'[hist[i].cid] = hist[hist[i].cid]
      BY <1>15, <3>1, <3>2
    <3> QED BY <3>1, <3>2, <3>3
  <2>2. CASE i = n
    <3>1. hist'[i] = o
      BY <1>8, <2>2
    <3>2. o.rid <= i /\ o.cid <= i
      BY <1>6, <2>2
    <3>3. o.rid # 0 => hist'[o.rid].rid = o.rid /\ hist'[o.rid].conf.routes = o.conf.routes
      <4>1. CASE o.rid = n
        BY <1>8, <4>1
      <4>2. CASE o.rid = Current.rid /\ c.routes = Current.conf.routes /\ o.rid # 0
        <5>1. hist'[Current.rid] = hist[Current.rid]
          BY <1>1, <1>15, <4>2
        <5> QED BY <1>6, <1>9, <4>2, <5>1
      <4> QED BY <1>2, <4>1, <4>2
    <3>4. o.conf.cache <=> o.cid # 0
      BY <1>4, <1>5, <1>6
    <3>5. o.cid # 0 => hist'[o.cid].cid = o.cid /\ Alike(hist'[o.cid].conf, o.conf)
      <4>1. CASE o.cid = n
        BY <1>8, <4>1 DEF Alike
      <4>2. CASE o.cid = Current.cid /\ Current.cid # 0 /\ Alike(Current.conf, c)
        <5>1. hist'[Current.cid] = hist[Current.cid]
          BY <1>1, <1>15, <4>2
        <5> QED BY <1>6, <1>10, <4>2, <5>1 DEF Alike
      <4> QED BY <1>5, <4>1, <4>2
    <3> QED BY <3>1, <3>2, <3>3, <3>4, <3>5
  <2> QED BY <2>1, <2>2
<1>13. RouteInv'
  <2> SUFFICES ASSUME NEW r \in 1 .. MaxLoads, NEW d \in Domains, routeCache[r][d] # None
               PROVE  \E j \in 1 .. n :
                         /\ hist'[j].rid = r
                         /\ routeCache[r][d] =
                               FirstMatch(r, hist'[j].conf.routes, hist'[j].conf.redirects[d])
    BY <1>0, <1>8 DEF RouteInv
  <2>1. PICK j \in 1 .. Loads :
            /\ hist[j].rid = r
            /\ routeCache[r][d] = FirstMatch(r, hist[j].conf.routes, hist[j].conf.redirects[d])
    BY DEF OptionsInv, RouteInv
  <2>2. j \in 1 .. n /\ hist'[j] = hist[j]
    BY <1>15
  <2> QED BY <2>1, <2>2
<1>14. CacheInv'
  <2> SUFFICES ASSUME NEW k \in 1 .. MaxLoads, NEW q \in Questions, dnsCache[k][q] # None
               PROVE  /\ dnsCache[k][q].q = q
                      /\ dnsCache[k][q].by \in 1 .. n
                      /\ hist'[dnsCache[k][q].by].cid = k
    BY <1>0, <1>8 DEF CacheInv
  <2>1. /\ dnsCache[k][q].q = q
        /\ dnsCache[k][q].by \in 1 .. Loads
        /\ hist[dnsCache[k][q].by].cid = k
    BY DEF OptionsInv, CacheInv
  <2> QED BY <1>15, <2>1
<1> QED BY <1>11, <1>12, <1>13, <1>14 DEF OptionsInv

\* The worker stores the route it has found.
LEMMA StoresRouteOptions ==
  ASSUME OptionsType, OptionsInv, Loads > 0, NEW d \in Domains,
         StoresRoute(Current, d), UNCHANGED <<hist, dnsCache>>
  PROVE  OptionsType' /\ OptionsInv'
<1> DEFINE o == Current
<1>0. Loads \in 1 .. Loads /\ o = hist[Loads] /\ o \in Entry /\ o.rid \in 0 .. MaxLoads
  BY OptionsTyped DEF Current
<1>1. HistInv' /\ CacheInv'
  BY DEF OptionsInv, HistInv, CacheInv, Loads
<1>2. CASE routeCache' = routeCache
  BY <1>2, OptionsSame
<1>3. CASE o.rid # 0 /\ routeCache' = [routeCache EXCEPT ![o.rid][d] = RouteOf(o, d)]
  <2>0. o.rid \in 1 .. MaxLoads
    BY <1>0, <1>3, LoadsAssumption
  <2>1. routeCache = [r \in 1 .. MaxLoads |-> [k \in Domains |-> routeCache[r][k]]]
    BY DEF OptionsType
  <2>2. /\ routeCache' = [r \in 1 .. MaxLoads |-> [k \in Domains |-> routeCache'[r][k]]]
        /\ routeCache'[o.rid][d] = RouteOf(o, d)
        /\ \A r \in 1 .. MaxLoads, k \in Domains :
              r # o.rid \/ k # d => routeCache'[r][k] = routeCache[r][k]
    BY <1>3, <2>0, <2>1
  <2>3. OptionsType'
    BY <2>2 DEF OptionsType, Loads
  <2>4. RouteInv'
    <3> SUFFICES ASSUME NEW r \in 1 .. MaxLoads, NEW k \in Domains, routeCache'[r][k] # None
                 PROVE  \E j \in 1 .. Loads :
                           /\ hist[j].rid = r
                           /\ routeCache'[r][k] =
                                 FirstMatch(r, hist[j].conf.routes, hist[j].conf.redirects[k])
      BY DEF RouteInv, Loads
    <3>1. CASE routeCache'[r][k] = routeCache[r][k]
      BY <3>1 DEF OptionsInv, RouteInv
    <3>2. CASE r = o.rid /\ k = d /\ routeCache[r][k] = None
      <4>1. routeCache'[r][k] = FirstMatch(r, o.conf.routes, o.conf.redirects[k])
        BY <1>3, <2>2, <3>2 DEF RouteOf
      <4> QED BY <1>0, <3>2, <4>1
    <3>3. CASE r = o.rid /\ k = d /\ routeCache[r][k] # None
      <4>1. routeCache'[r][k] = routeCache[r][k]
        BY <1>3, <2>2, <3>3 DEF RouteOf
      <4> QED BY <3>1, <4>1
    <3> QED BY <2>2, <3>1, <3>2, <3>3
  <2> QED BY <1>1, <2>3, <2>4 DEF OptionsInv
<1> QED BY <1>2, <1>3 DEF StoresRoute

\* A result is stored in the cache of the options it was asked for under.
LEMMA StoresResultOptions ==
  ASSUME OptionsType, OptionsInv, NEW i \in 1 .. Loads, NEW q \in Questions,
         LET c == Options(i).cid
             r == Result(i, q)
         IN dnsCache' = IF c # 0 THEN [dnsCache EXCEPT ![c][r.q] = r] ELSE dnsCache,
         UNCHANGED <<hist, routeCache>>
  PROVE  OptionsType' /\ OptionsInv'
<1> DEFINE c == hist[i].cid
           r == Result(i, q)
<1>0. Options(i) = hist[i] /\ c \in 0 .. MaxLoads /\ Loads \in Nat /\ i \in Nat
  BY OptionsTyped
<1>1. r \in Results /\ r.q = q /\ r.by = i
  BY <1>0 DEF Result, Results
<1>2. dnsCache' = IF c # 0 THEN [dnsCache EXCEPT ![c][q] = r] ELSE dnsCache
  BY <1>0, <1>1
<1> HIDE DEF r
<1>3. CASE c = 0
  BY <1>2, <1>3, OptionsSame
<1>4. CASE c # 0
  <2>1. c \in 1 .. MaxLoads
    BY <1>0, <1>4, LoadsAssumption
  <2>2. dnsCache \in [1 .. MaxLoads -> [Questions -> Results \cup {None}]]
    BY DEF OptionsType
  <2>3. /\ dnsCache' \in [1 .. MaxLoads -> [Questions -> Results \cup {None}]]
        /\ \A k \in 1 .. MaxLoads, p \in Questions :
              dnsCache'[k][p] = IF k = c /\ p = q THEN r ELSE dnsCache[k][p]
    <3> HIDE DEF c
    <3>1. dnsCache' = [dnsCache EXCEPT ![c][q] = r]
      BY <1>2, <1>4
    <3>2. dnsCache' \in [1 .. MaxLoads -> [Questions -> Results \cup {None}]]
      <4> DEFINE row == [dnsCache[c] EXCEPT ![q] = r]
      <4>1. row \in [Questions -> Results \cup {None}]
        BY <1>1, <2>1, <2>2
      <4>2. dnsCache' = [dnsCache EXCEPT ![c] = row]
        BY <2>1, <2>2, <3>1
      <4> HIDE DEF row
      <4> QED BY <2>1, <2>2, <4>1, <4>2
    <3>3. ASSUME NEW k \in 1 .. MaxLoads, NEW p \in Questions
          PROVE  dnsCache'[k][p] = IF k = c /\ p = q THEN r ELSE dnsCache[k][p]
      <4>1. CASE k = c
        BY <2>1, <2>2, <3>1, <4>1
      <4>2. CASE k # c
        BY <2>1, <2>2, <3>1, <4>2
      <4> QED BY <4>1, <4>2
    <3> QED BY <3>2, <3>3
  <2>4. OptionsType'
    BY <2>3 DEF OptionsType, Loads
  <2>5. HistInv' /\ RouteInv'
    BY DEF OptionsInv, HistInv, RouteInv, Loads
  <2>6. CacheInv'
    BY <1>1, <2>3 DEF OptionsInv, CacheInv, Loads
  <2> QED BY <2>4, <2>5, <2>6 DEF OptionsInv
<1> QED BY <1>3, <1>4

LEMMA ExpireOptions ==
  ASSUME OptionsType, OptionsInv, NEW c \in 1 .. MaxLoads, NEW q \in Questions, Expire(c, q)
  PROVE  OptionsType' /\ OptionsInv'
<1>1. dnsCache \in [1 .. MaxLoads -> [Questions -> Results \cup {None}]]
  BY DEF OptionsType
<1>2. /\ dnsCache' \in [1 .. MaxLoads -> [Questions -> Results \cup {None}]]
      /\ \A k \in 1 .. MaxLoads, p \in Questions :
            dnsCache'[k][p] = IF k = c /\ p = q THEN None ELSE dnsCache[k][p]
  BY <1>1 DEF Expire
<1>3. OptionsType'
  BY <1>2 DEF OptionsType, Loads, Expire
<1>4. HistInv' /\ RouteInv'
  BY DEF OptionsInv, HistInv, RouteInv, Loads, Expire
<1>5. CacheInv'
  BY <1>2 DEF OptionsInv, CacheInv, Loads, Expire
<1> QED BY <1>3, <1>4, <1>5 DEF OptionsInv

-----------------------------------------------------------------------------
(***************************************************************************)
(* The handlers.                                                           *)
(***************************************************************************)

\* The options did not change, so that the next state is judged by this one's.
LEMMA HandNext ==
  ASSUME UNCHANGED hist, Hand(cl', w', ex')
  PROVE  Hand(cl, w, ex)'
<1>1. Loads' = Loads /\ \A i : Options(i)' = Options(i)
  BY DEF Loads, Options
<1>2. HandType(cl, w, ex)'
  BY DEF Hand, HandType
<1>3. (\A h \in Clients : ClientOK(cl[h]))'
  BY <1>1 DEF Hand, HandOK, ClientOK, ResultOK
<1>4. WorkerOK(cl, w)' /\ (\A e \in Slots : ExchangeOK(cl, ex[e]))'
  BY <1>1 DEF Hand, HandOK, WorkerOK, ExchangeOK, Awaits
<1>5. WorkerAlone(cl, w, ex)' /\ ExchangeAlone(cl, ex)'
  BY DEF Hand, HandOK, WorkerAlone, ExchangeAlone
<1> QED BY <1>2, <1>3, <1>4, <1>5 DEF Hand, HandOK

LEMMA ProcessTyped ==
  ASSUME IInv
  PROVE  /\ cl \in [Clients -> ClientType]
         /\ \A h \in Clients : cl[h] \in ClientType /\ ClientOK(cl[h])
         /\ ex = [e \in Slots |-> ex[e]]
         /\ \A e \in Slots : IsExchange(ex[e]) /\ ExchangeOK(cl, ex[e])
         /\ Loads \in 0 .. MaxLoads /\ Loads \in Nat
<1>1. /\ cl \in [Clients -> ClientType] /\ ex = [e \in Slots |-> ex[e]]
      /\ \A e \in Slots : IsExchange(ex[e])
  BY DEF IInv, ProcessInv, Hand, HandType
<1>2. /\ \A h \in Clients : ClientOK(cl[h])
      /\ \A e \in Slots : ExchangeOK(cl, ex[e])
  BY DEF IInv, ProcessInv, Hand, HandOK
<1>3. Loads \in 0 .. MaxLoads /\ Loads \in Nat
  BY OptionsTyped, LoadsAssumption DEF IInv
<1> QED BY <1>1, <1>2, <1>3

LEMMA ProcessSame ==
  ASSUME IInv, UNCHANGED <<job, hist, cl, w, ex>>
  PROVE  ProcessInv'
<1>1. Hand(cl', w', ex')
  BY DEF IInv, ProcessInv
<1>2. Hand(cl, w, ex)'
  BY <1>1, HandNext
<1>3. FreshInv' /\ NoQueryLost'
  BY DEF IInv, ProcessInv, FreshInv, NoQueryLost, Held
<1> QED BY <1>2, <1>3 DEF IInv, ProcessInv

LEMMA ClientKeeps ==
  ASSUME IInv, NEW h \in Clients, NEW C \in ClientType, ClientOK(C),
         cl' = [cl EXCEPT ![h] = C], UNCHANGED <<job, hist, w, ex>>,
         \/ C.pc = "closed"
         \/ C.pc = cl[h].pc /\ C.q = cl[h].q /\ C.res = cl[h].res /\ C.from = cl[h].from
         \/ NotHeld(h, w, ex),
         C.pc = "wait" =>
            \/ C.res # None
            \/ /\ cl[h].pc = "wait" /\ C.res = cl[h].res /\ C.unserved = cl[h].unserved
               /\ cl[h].gone => C.gone
  PROVE  ProcessInv'
<1>1. Hand(cl', w', ex')
  BY ClientStep DEF IInv, ProcessInv
<1>2. Hand(cl, w, ex)'
  BY <1>1, HandNext
<1>3. cl'[h] = C /\ \A k \in Clients \ {h} : cl'[k] = cl[k]
  BY ProcessTyped
<1>4. NoQueryLost'
  BY <1>3 DEF IInv, ProcessInv, NoQueryLost, Held
<1>5. FreshInv'
  BY DEF IInv, ProcessInv, FreshInv
<1> QED BY <1>2, <1>4, <1>5 DEF IInv, ProcessInv

LEMMA NoClientTyped ==
  /\ NoClient \in ClientType /\ NoClient.pc = "none" /\ NoClient.res = None
  /\ Returned \in ClientType /\ Returned.pc = "closed" /\ Returned.res = None
BY DEF NoClient, Returned, ClientType

LEMMA HandlerKeeps ==
  ASSUME IInv, NEW h \in Clients,
         \/ Accept(h) \/ (\E q \in Questions : Read(h, q))
         \/ Receive(h) \/ ClientLeaves(h) \/ HandlerReturns(h)
  PROVE  ProcessInv'
<1> DEFINE c == cl[h]
<1>0. c \in ClientType /\ ClientOK(c) /\ cl \in [Clients -> ClientType] /\ Loads \in Nat
      /\ Hand(cl, w, ex)
  BY ProcessTyped DEF IInv, ProcessInv
<1>1. ASSUME Accept(h) PROVE ProcessInv'
  <2> DEFINE C == [c EXCEPT !.pc = "read", !.opts = Loads]
  <2>1. C \in ClientType /\ C.pc = "read" /\ C.res = c.res /\ C.q = c.q /\ C.from = c.from
    BY <1>0 DEF ClientType
  <2>2. cl' = [cl EXCEPT ![h] = C] /\ c.pc = "none" /\ Loads > 0 /\ UNCHANGED <<job, hist, w, ex>>
    BY <1>0, <1>1 DEF Accept, ClientType
  <2> HIDE DEF C
  <2>3. C.res = None
    BY <1>0, <2>1, <2>2 DEF ClientOK
  <2>4. ClientOK(C)
    BY <2>1, <2>2, <2>3 DEF ClientOK, ResultOK
  <2>5. NotHeld(h, w, ex)
    BY <1>0, <2>2, NobodyHolds
  <2> QED BY <2>1, <2>2, <2>4, <2>5, ClientKeeps
<1>2. ASSUME NEW q \in Questions, Read(h, q) PROVE ProcessInv'
  <2> DEFINE a == AnswersItself(h, q)
             C == [c EXCEPT !.asked = c.asked + 1, !.pc = IF a THEN "read" ELSE "offer",
                            !.q = IF a THEN None ELSE q, !.from = IF a THEN 0 ELSE Loads]
  <2>1. cl' = [cl EXCEPT ![h] = C] /\ c.pc = "read" /\ UNCHANGED <<job, hist, w, ex>>
    BY <1>0, <1>2 DEF Read, ClientType
  <2> HIDE DEF a
  <2>2. C \in ClientType /\ C.pc \in {"read", "offer"} /\ C.res = c.res
        /\ (C.pc = "offer" => C.q = q /\ C.from = Loads)
    <3> DEFINE m == c.asked + 1
    <3>0. m \in Nat
      BY <1>0 DEF ClientType
    <3>1. CASE a
      <4>1. C = [c EXCEPT !.asked = m, !.pc = "read", !.q = None, !.from = 0]
        BY <3>1
      <4> HIDE DEF C, m
      <4> QED BY <1>0, <3>0, <4>1 DEF ClientType
    <3>2. CASE ~a
      <4>1. C = [c EXCEPT !.asked = m, !.pc = "offer", !.q = q, !.from = Loads]
        BY <3>2
      <4> HIDE DEF C, m
      <4> QED BY <1>0, <3>0, <4>1 DEF ClientType
    <3> QED BY <3>1, <3>2
  <2> HIDE DEF C
  <2>3. C.res = None /\ Loads > 0
    BY <1>0, <2>1, <2>2 DEF ClientOK
  <2>4. ClientOK(C)
    BY <1>0, <2>2, <2>3 DEF ClientOK, ResultOK
  <2>5. NotHeld(h, w, ex)
    BY <1>0, <2>1, NobodyHolds
  <2> QED BY <2>1, <2>2, <2>4, <2>5, ClientKeeps
<1>3. ASSUME cl' = [cl EXCEPT ![h] = Returned], UNCHANGED <<job, hist, w, ex>> PROVE ProcessInv'
  <2>1. ClientOK(Returned)
    BY NoClientTyped DEF ClientOK, ResultOK
  <2> QED BY <1>3, <2>1, NoClientTyped, ClientKeeps
<1>4. ASSUME Receive(h) PROVE ProcessInv'
  <2> DEFINE C == [c EXCEPT !.pc = "read", !.res = None, !.q = None, !.from = 0]
  <2>1. c.pc = "wait" /\ c.res # None /\ UNCHANGED <<job, hist, w, ex>>
    BY <1>4 DEF Receive
  <2>2. CASE c.res = Closed
    BY <1>0, <1>3, <1>4, <2>2 DEF Receive
  <2>3. CASE c.res # Closed
    <3>1. cl' = [cl EXCEPT ![h] = C]
      BY <1>0, <1>4, <2>3 DEF Receive
    <3>2. C \in ClientType /\ C.pc = "read" /\ C.res = None
      BY <1>0 DEF ClientType
    <3> HIDE DEF C
    <3>3. Loads > 0
      BY <1>0, <2>1 DEF ClientOK
    <3>4. ClientOK(C)
      BY <3>2, <3>3 DEF ClientOK, ResultOK
    <3>5. NotHeld(h, w, ex)
      BY <1>0, <2>1, NobodyHolds
    <3> QED BY <2>1, <3>1, <3>2, <3>4, <3>5, ClientKeeps
  <2> QED BY <2>2, <2>3
<1>5. ASSUME ClientLeaves(h) PROVE ProcessInv'
  <2> DEFINE C == [c EXCEPT !.gone = TRUE]
  <2>1. cl' = [cl EXCEPT ![h] = C] /\ UNCHANGED <<job, hist, w, ex>>
    BY <1>0, <1>5 DEF ClientLeaves, ClientType
  <2>2. C \in ClientType /\ C.pc = c.pc /\ C.q = c.q /\ C.res = c.res /\ C.from = c.from
        /\ C.gone /\ C.unserved = c.unserved
    BY <1>0 DEF ClientType
  <2> HIDE DEF C
  <2>3. ClientOK(C)
    BY <1>0, <2>2 DEF ClientOK, ResultOK
  <2> QED BY <2>1, <2>2, <2>3, ClientKeeps
<1>6. ASSUME HandlerReturns(h) PROVE ProcessInv'
  BY <1>3, <1>6 DEF HandlerReturns
<1> QED BY <1>1, <1>2, <1>4, <1>5, <1>6

-----------------------------------------------------------------------------
(***************************************************************************)
(* The worker and the exchanges.                                           *)
(***************************************************************************)

\* A result that is sent leaves the handler waiting with it, or goes nowhere.
LEMMA DeliverStep ==
  ASSUME IInv, NEW h \in Clients, cl[h].pc \in {"offer", "wait", "closed"},
         NEW r \in Results \cup {Closed}, Deliver(h, r),
         NEW v, NEW x, Hand(cl, v, x), cl[h].pc # "closed" => NotHeld(h, v, x),
         (r # Closed /\ cl[h].pc # "closed") =>
            /\ r.q = cl[h].q
            /\ r.by \in 1 .. Loads
            /\ \E i \in cl[h].from .. Loads :
                  SameShape(Options(r.by).conf, Options(i).conf, cl[h].q)
  PROVE  /\ Hand(cl', v, x)
         /\ cl'[h].pc = "wait" => cl'[h].res # None
         /\ \A k \in Clients \ {h} : cl'[k] = cl[k]
<1> DEFINE c == cl[h]
           C == [c EXCEPT !.pc = IF c.pc = "offer" THEN "wait" ELSE c.pc,
                          !.res = IF c.pc = "closed" THEN None ELSE r]
<1>0. c \in ClientType /\ ClientOK(c) /\ cl \in [Clients -> ClientType] /\ Loads \in Nat
  BY ProcessTyped
<1>1. cl' = [cl EXCEPT ![h] = C]
  BY <1>0 DEF Deliver, ClientType
<1>2. C \in ClientType /\ C.q = c.q /\ C.from = c.from
      /\ C.pc = (IF c.pc = "offer" THEN "wait" ELSE c.pc)
      /\ C.res = (IF c.pc = "closed" THEN None ELSE r)
  BY <1>0 DEF ClientType
<1> HIDE DEF C
<1>3. r # None
  BY NoneAssumption DEF Results
<1>4. cl'[h] = C /\ \A k \in Clients \ {h} : cl'[k] = cl[k]
  BY <1>0, <1>1
<1>5. CASE c.pc = "closed"
  <2>1. c.res = None
    BY <1>0, <1>5 DEF ClientOK
  <2>2. ClientOK(C)
    BY <1>2, <1>5 DEF ClientOK, ResultOK
  <2>3. Hand(cl', v, x)
    BY <1>1, <1>2, <1>5, <2>1, <2>2, ClientStep
  <2> QED BY <1>2, <1>4, <1>5, <2>3
<1>6. CASE c.pc # "closed"
  <2>1. C.pc = "wait" /\ C.res = r
    BY <1>2, <1>6
  <2>2. ResultOK(C)
    BY <1>2, <1>6, <2>1 DEF ResultOK
  <2>3. ClientOK(C)
    BY <1>0, <1>2, <1>6, <2>1, <2>2 DEF ClientOK
  <2>4. Hand(cl', v, x)
    BY <1>1, <1>2, <1>6, <2>3, ClientStep
  <2> QED BY <1>3, <1>4, <2>1, <2>4
<1> QED BY <1>5, <1>6

\* A result from the cache of the current options may be sent.
LEMMA CachedMayBeSent ==
  ASSUME IInv, Loads > 0, NEW q \in Questions, Cached(Current, q) # None,
         NEW h \in Clients, NEW o \in Outcomes(h, Cached(Current, q)),
         cl[h].pc \in {"offer", "wait", "closed"}, cl[h].pc # "closed" => cl[h].q = q
  PROVE  /\ o \in Results \cup {Closed}
         /\ (o # Closed /\ cl[h].pc # "closed") =>
               /\ o.q = cl[h].q
               /\ o.by \in 1 .. Loads
               /\ \E i \in cl[h].from .. Loads :
                     SameShape(Options(o.by).conf, Options(i).conf, cl[h].q)
<1> DEFINE r == Cached(Current, q)
<1>1. Loads \in 1 .. Loads /\ Current = hist[Loads] /\ Options(Loads) = hist[Loads]
  BY ProcessTyped, OptionsTyped DEF Current, IInv
<1>2. /\ r \in Results /\ r.q = q /\ r.by \in 1 .. Loads
      /\ SameShape(Options(r.by).conf, hist[Loads].conf, q)
  BY <1>1, CachedFresh DEF IInv
<1> HIDE DEF r
<1>3. o = r \/ o = Closed
  BY DEF Outcomes, r
<1>4. ASSUME o # Closed, cl[h].pc # "closed"
      PROVE  Loads \in cl[h].from .. Loads
  <2>1. cl[h].pc \in {"offer", "wait"} /\ ClientOK(cl[h])
    BY <1>4, ProcessTyped
  <2>2. cl[h].from \in 1 .. Loads
    BY <2>1 DEF ClientOK
  <2> QED BY <2>2, ProcessTyped
<1> QED BY <1>1, <1>2, <1>3, <1>4

LEMMA WorkerAnswersKeeps ==
  ASSUME IInv, NEW h \in Clients, WorkerAnswers(h)
  PROVE  ProcessInv'
<1>0. cl[h].pc = "offer" /\ Cached(Current, cl[h].q) # None /\ UNCHANGED <<job, hist, w, ex>>
  BY DEF WorkerAnswers
<1>1. cl[h].q \in Questions /\ Loads > 0
  BY <1>0, ProcessTyped DEF ClientOK
<1>2. PICK o \in Outcomes(h, Cached(Current, cl[h].q)) : Deliver(h, o)
  BY DEF WorkerAnswers
<1>3. Hand(cl, w, ex) /\ NotHeld(h, w, ex)
  BY <1>0, NobodyHolds DEF IInv, ProcessInv
<1>4. /\ o \in Results \cup {Closed}
      /\ (o # Closed /\ cl[h].pc # "closed") =>
               /\ o.q = cl[h].q
               /\ o.by \in 1 .. Loads
               /\ \E i \in cl[h].from .. Loads :
                     SameShape(Options(o.by).conf, Options(i).conf, cl[h].q)
  BY <1>0, <1>1, CachedMayBeSent
<1>5. /\ Hand(cl', w, ex)
      /\ cl'[h].pc = "wait" => cl'[h].res # None
      /\ \A k \in Clients \ {h} : cl'[k] = cl[k]
  BY <1>0, <1>2, <1>3, <1>4, DeliverStep
<1>6. Hand(cl, w, ex)'
  BY <1>0, <1>5, HandNext
<1>7. NoQueryLost'
  BY <1>0, <1>5 DEF IInv, ProcessInv, NoQueryLost, Held
<1>8. FreshInv'
  BY <1>0 DEF IInv, ProcessInv, FreshInv
<1> QED BY <1>0, <1>6, <1>7, <1>8 DEF IInv, ProcessInv

LEMMA NoExchangeTyped ==
  IsExchange(NoExchange) /\ NoExchange.pc = "none" /\ NoExchange.for = None
BY DEF IsExchange, NoExchange

\* A new exchange takes a free slot, and the question is on its way to it.
LEMMA StartExchangeStep ==
  ASSUME NEW c, Hand(c, w, ex), Loads > 0, NEW h, NEW q, NEW r,
         Awaits(c, h, q),
         \A e \in Slots : (ex[e].pc = "busy" /\ ex[e].for = h) => c[h].pc = "closed",
         StartExchange(h, q, r)
  PROVE  /\ Hand(c, w', ex')
         /\ w'.pc = "send" /\ w'.for = h /\ ex'[w'.to].pc = "select"
         /\ \A e \in Slots : ex'[e].for = ex[e].for
<1> DEFINE free == {e \in Slots : ex[e].pc \in {"none", "done"}}
           e == CHOOSE y \in free : TRUE
           X == [NoExchange EXCEPT !.pc = "select", !.route = r]
           V == [pc |-> "send", for |-> h, q |-> q, route |-> r, to |-> e, fresh |-> TRUE]
<1>1. free # {} /\ ex' = WithNew(e, r) /\ w' = V
  BY DEF StartExchange
<1>2. e \in Slots /\ ex[e].pc \in {"none", "done"}
  BY <1>1
<1> HIDE DEF e, free
<1>3. IsExchange(X) /\ X.pc = "select" /\ X.for = None
  BY NoExchangeTyped DEF IsExchange
<1>4. IsExchange(NoExchange) /\ NoExchange.pc = "none" /\ NoExchange.for = None
  BY NoExchangeTyped
<1>5. IsWorker(V) /\ V.pc = "send" /\ V.for = h /\ V.q = q /\ V.to = e
  BY DEF IsWorker
<1>6. ex' = [y \in Slots |-> IF y = e THEN X ELSE IF ex[y].pc = "done" THEN NoExchange ELSE ex[y]]
  BY <1>1 DEF WithNew
<1> HIDE DEF X, V
<1>7. /\ ex' = [y \in Slots |-> ex'[y]] /\ ex'[e] = X
      /\ \A y \in Slots : ex'[y] = ex[y] \/ (ex[y].pc # "busy" /\ ex'[y] \in {X, NoExchange})
  BY <1>2, <1>6
<1>8. Hand(c, w, ex')
  BY <1>3, <1>4, <1>7, ExchangesFree
<1>9. WorkerOK(c, V)
  BY <1>2, <1>5 DEF WorkerOK
<1>10. WorkerAlone(c, V, ex')
  BY <1>3, <1>4, <1>5, <1>7 DEF WorkerAlone
<1>11. Hand(c, V, ex')
  BY <1>5, <1>8, <1>9, <1>10, WorkerStep
<1>12. \A y \in Slots : ex'[y].for = ex[y].for
  BY <1>3, <1>4, <1>7 DEF Hand, HandOK, ExchangeOK
<1> QED BY <1>1, <1>3, <1>5, <1>7, <1>11, <1>12

LEMMA WorkerRoutesKeeps ==
  ASSUME IInv, NEW h \in Clients, WorkerRoutes(h)
  PROVE  ProcessInv' /\ OptionsType' /\ OptionsInv'
<1> DEFINE q == cl[h].q
           r == RouteOf(Current, q.domain)
           known == {e \in Slots : ex[e].pc # "none" /\ ex[e].route = r}
           C == [cl[h] EXCEPT !.pc = "wait"]
<1>0. /\ job = "up" /\ w.pc = "select" /\ cl[h].pc = "offer"
      /\ StoresRoute(Current, q.domain) /\ cl' = [cl EXCEPT ![h].pc = "wait"]
      /\ UNCHANGED <<job, hist, dnsCache>>
  BY DEF WorkerRoutes
<1>1. q \in Questions /\ Loads > 0 /\ cl[h].res = None /\ cl[h] \in ClientType
      /\ cl \in [Clients -> ClientType] /\ ClientOK(cl[h])
  BY <1>0, ProcessTyped DEF ClientOK
<1>2. OptionsType' /\ OptionsInv'
  <2>1. q.domain \in Domains
    BY <1>1 DEF Domains
  <2> QED BY <1>0, <1>1, <2>1, StoresRouteOptions DEF IInv
<1>3. C \in ClientType /\ C.pc = "wait" /\ C.q = q /\ C.res = None /\ C.from = cl[h].from
  BY <1>1 DEF ClientType
<1>4. cl' = [cl EXCEPT ![h] = C]
  BY <1>0, <1>1 DEF ClientType
<1> HIDE DEF C
<1>5. ClientOK(C)
  BY <1>0, <1>1, <1>3 DEF ClientOK, ResultOK
<1>6. Hand(cl, w, ex) /\ NotHeld(h, w, ex)
  BY <1>0, NobodyHolds DEF IInv, ProcessInv
<1>7. Hand(cl', w, ex)
  BY <1>3, <1>4, <1>5, <1>6, ClientStep
<1>8. cl'[h] = C /\ \A k \in Clients \ {h} : cl'[k] = cl[k]
  BY <1>1, <1>4
<1>9. Awaits(cl', h, q)
  BY <1>1, <1>3, <1>8 DEF Awaits
<1>10. \A e \in Slots : ~(ex[e].pc = "busy" /\ ex[e].for = h)
  BY <1>6 DEF NotHeld
<1>11. /\ Hand(cl', w', ex')
       /\ w'.pc = "send" /\ w'.for = h
       /\ w'.fresh => ex'[w'.to].pc = "select"
       /\ \A e \in Slots : ex'[e].for = ex[e].for
  <2>1. CASE known = {}
    <3>1. StartExchange(h, q, r)
      BY <2>1 DEF WorkerRoutes
    <3> HIDE DEF q, r
    <3> QED BY <1>1, <1>7, <1>9, <1>10, <3>1, StartExchangeStep
  <2>2. CASE known # {}
    <3> DEFINE e == CHOOSE y \in known : TRUE
               V == [pc |-> "send", for |-> h, q |-> q, route |-> r, to |-> e, fresh |-> FALSE]
    <3>1. w' = V /\ ex' = ex
      BY <2>2 DEF WorkerRoutes
    <3>2. e \in Slots
      BY <2>2
    <3> HIDE DEF e, r, q
    <3>3. IsWorker(V) /\ V.pc = "send" /\ V.for = h /\ V.q = q /\ V.to = e /\ ~V.fresh
      BY DEF IsWorker
    <3> HIDE DEF V
    <3>4. WorkerOK(cl', V) /\ WorkerAlone(cl', V, ex)
      BY <1>1, <1>9, <1>10, <3>2, <3>3 DEF WorkerOK, WorkerAlone
    <3>5. Hand(cl', V, ex)
      BY <1>7, <3>3, <3>4, WorkerStep
    <3> QED BY <3>1, <3>3, <3>5
  <2> QED BY <2>1, <2>2
<1>12. Hand(cl, w, ex)'
  BY <1>0, <1>11, HandNext
<1>13. NoQueryLost'
  BY <1>0, <1>8, <1>11 DEF IInv, ProcessInv, NoQueryLost, Held
<1>14. FreshInv'
  BY <1>11 DEF FreshInv
<1> QED BY <1>0, <1>2, <1>12, <1>13, <1>14 DEF IInv, ProcessInv

LEMMA IdleTyped == IsWorker(Idle) /\ Idle.pc = "select"
BY DEF Idle, IsWorker

\* The worker lets go of a question.
LEMMA WorkerLetsGo ==
  ASSUME NEW c, NEW x, Hand(c, w, x), NEW V, IsWorker(V), V.pc # "send"
  PROVE  Hand(c, V, x)
<1>1. WorkerOK(c, V) /\ WorkerAlone(c, V, x)
  BY DEF WorkerOK, WorkerAlone
<1> QED BY <1>1, WorkerStep

LEMMA WorkerKeeps ==
  ASSUME IInv, WorkerFindsDone \/ WorkerGivesUp \/ WorkerReturns
  PROVE  ProcessInv'
<1>0. Hand(cl, w, ex) /\ IsWorker(w) /\ WorkerOK(cl, w) /\ WorkerAlone(cl, w, ex)
  BY DEF IInv, ProcessInv, Hand, HandType, HandOK
<1>1. ASSUME WorkerFindsDone, ~w.fresh PROVE ProcessInv'
  <2>1. /\ w.pc = "send" /\ StartExchange(w.for, w.q, w.route)
        /\ UNCHANGED <<job, hist, cl>>
    BY <1>1 DEF WorkerFindsDone
  <2>2. Awaits(cl, w.for, w.q) /\ Loads > 0
    BY <1>0, <2>1 DEF WorkerOK
  <2>3. \A e \in Slots : (ex[e].pc = "busy" /\ ex[e].for = w.for) => cl[w.for].pc = "closed"
    BY <1>0, <2>1 DEF WorkerAlone
  <2>4. /\ Hand(cl, w', ex')
        /\ w'.pc = "send" /\ w'.for = w.for /\ ex'[w'.to].pc = "select"
        /\ \A e \in Slots : ex'[e].for = ex[e].for
    BY <1>0, <2>1, <2>2, <2>3, StartExchangeStep
  <2>5. Hand(cl, w, ex)'
    BY <2>1, <2>4, HandNext
  <2>6. NoQueryLost' /\ FreshInv'
    BY <2>1, <2>4 DEF IInv, ProcessInv, NoQueryLost, Held, FreshInv
  <2> QED BY <2>1, <2>5, <2>6 DEF IInv, ProcessInv
<1>2. ASSUME NEW V, IsWorker(V), V.pc # "send", w' = V, UNCHANGED <<job, hist, cl, ex>>,
             w.pc = "send" => job = "down" \/ cl[w.for].gone
      PROVE  ProcessInv'
  <2>1. Hand(cl, V, ex)
    BY <1>0, <1>2, WorkerLetsGo
  <2>2. Hand(cl, w, ex)'
    BY <1>2, <2>1, HandNext
  <2>3. NoQueryLost' /\ FreshInv'
    BY <1>2 DEF IInv, ProcessInv, NoQueryLost, Held, FreshInv
  <2> QED BY <1>2, <2>2, <2>3 DEF IInv, ProcessInv
<1>3. ASSUME WorkerFindsDone, w.fresh PROVE ProcessInv'
  <2>1. w.pc = "send" /\ ex[w.to].pc = "done" /\ w' = Idle /\ UNCHANGED <<job, hist, cl, ex>>
    BY <1>3 DEF WorkerFindsDone
  <2>2. job = "down"
    BY <1>3, <2>1 DEF IInv, ProcessInv, FreshInv
  <2> QED BY <1>2, <2>1, <2>2, IdleTyped
<1>4. ASSUME WorkerGivesUp PROVE ProcessInv'
  BY <1>2, <1>4, IdleTyped DEF WorkerGivesUp
<1>5. ASSUME WorkerReturns PROVE ProcessInv'
  <2> DEFINE V == [w EXCEPT !.pc = "gone"]
  <2>1. IsWorker(V) /\ V.pc = "gone"
    BY <1>0 DEF IsWorker
  <2>2. w' = V /\ w.pc = "select" /\ UNCHANGED <<job, hist, cl, ex>>
    BY <1>5 DEF WorkerReturns
  <2> HIDE DEF V
  <2> QED BY <1>2, <2>1, <2>2
<1> QED BY <1>1, <1>3, <1>4, <1>5

\* One exchange is done with its question, or has none.
LEMMA ExchangeFreed ==
  ASSUME NEW c, NEW v, Hand(c, v, ex), NEW e \in Slots, NEW X, IsExchange(X),
         X.pc # "busy", X.for = None
  PROVE  Hand(c, v, [ex EXCEPT ![e] = X])
<1> DEFINE y == [ex EXCEPT ![e] = X]
<1>1. y = [f \in Slots |-> y[f]] /\ \A f \in Slots : y[f] = ex[f] \/ y[f] = X
  BY DEF Hand, HandType
<1> HIDE DEF y
<1> QED BY <1>1, ExchangesFree DEF y

LEMMA ReadyDoneTyped ==
  ASSUME NEW x, IsExchange(x)
  PROVE  /\ IsExchange(Ready(x)) /\ Ready(x).pc = "select" /\ Ready(x).for = None
         /\ IsExchange(Done(x)) /\ Done(x).pc = "done" /\ Done(x).for = None
<1>1. IsExchange(Ready(x)) /\ Ready(x).pc = "select" /\ Ready(x).for = None
  BY DEF IsExchange, Ready
<1>2. IsExchange(Done(x)) /\ Done(x).pc = "done" /\ Done(x).for = None
  BY NoExchangeTyped DEF IsExchange, Done
<1> QED BY <1>1, <1>2

LEMMA ExchangeTakesKeeps ==
  ASSUME IInv, NEW e \in Slots, ExchangeTakes(e)
  PROVE  ProcessInv'
<1> DEFINE h == w.for
           r == Cached(Current, w.q)
<1>0. /\ w.pc = "send" /\ w.to = e /\ ex[e].pc = "select" /\ w' = Idle
      /\ UNCHANGED <<job, hist>>
  BY DEF ExchangeTakes
<1>1. Hand(cl, w, ex) /\ WorkerOK(cl, w) /\ WorkerAlone(cl, w, ex)
  BY DEF IInv, ProcessInv, Hand, HandOK
<1>2. Awaits(cl, h, w.q) /\ Loads > 0 /\ h \in Clients /\ w.q \in Questions
  BY <1>0, <1>1 DEF WorkerOK, Awaits
<1>3. cl[h].pc \in {"wait", "closed"} /\ (cl[h].pc # "closed" => cl[h].q = w.q)
  BY <1>2 DEF Awaits
<1>4. Hand(cl, Idle, ex)
  BY <1>1, IdleTyped, WorkerLetsGo
<1>5. \A f \in Slots : (ex[f].pc = "busy" /\ ex[f].for = h) => cl[h].pc = "closed"
  BY <1>0, <1>1 DEF WorkerAlone
<1>6. cl[h].pc # "closed" => NotHeld(h, Idle, ex)
  BY <1>5, IdleTyped DEF NotHeld
<1>7. FreshInv'
  BY <1>0, IdleTyped DEF FreshInv
<1>8. CASE r # None /\ (\E o \in Outcomes(h, r) : Deliver(h, o)) /\ UNCHANGED ex
  <2>1. PICK o \in Outcomes(h, r) : Deliver(h, o)
    BY <1>8
  <2>2. /\ o \in Results \cup {Closed}
        /\ (o # Closed /\ cl[h].pc # "closed") =>
               /\ o.q = cl[h].q
               /\ o.by \in 1 .. Loads
               /\ \E i \in cl[h].from .. Loads :
                     SameShape(Options(o.by).conf, Options(i).conf, cl[h].q)
    BY <1>2, <1>3, <1>8, CachedMayBeSent
  <2> HIDE DEF r
  <2>3. /\ Hand(cl', Idle, ex)
        /\ cl'[h].pc = "wait" => cl'[h].res # None
        /\ \A k \in Clients \ {h} : cl'[k] = cl[k]
    BY <1>2, <1>3, <1>4, <1>6, <2>1, <2>2, DeliverStep
  <2>4. Hand(cl, w, ex)'
    BY <1>0, <1>8, <2>3, HandNext
  <2>5. NoQueryLost'
    BY <1>0, <1>8, <2>3 DEF IInv, ProcessInv, NoQueryLost, Held
  <2> QED BY <1>0, <1>7, <2>4, <2>5 DEF IInv, ProcessInv
<1>9. CASE /\ ex' = [ex EXCEPT ![e].pc = "busy", ![e].for = h, ![e].q = w.q, ![e].opts = Loads]
           /\ UNCHANGED cl
  <2> DEFINE X == [ex[e] EXCEPT !.pc = "busy", !.for = h, !.q = w.q, !.opts = Loads]
  <2>0. ex = [f \in Slots |-> ex[f]] /\ IsExchange(ex[e]) /\ \A f \in Slots : ExchangeOK(cl, ex[f])
    BY ProcessTyped
  <2>1. ex' = [ex EXCEPT ![e] = X]
    BY <1>9, <2>0 DEF IsExchange
  <2>2. IsExchange(X) /\ X.pc = "busy" /\ X.for = h /\ X.q = w.q /\ X.opts = Loads
    BY <2>0 DEF IsExchange
  <2> HIDE DEF X
  <2>3. Loads \in 1 .. Loads /\ (cl[h].pc = "wait" => cl[h].from <= Loads)
    BY <1>2, ProcessTyped DEF ClientOK
  <2>4. ExchangeOK(cl, X)
    BY <1>2, <2>2, <2>3 DEF ExchangeOK
  <2>5. Hand(cl, Idle, ex')
    BY <1>4, <1>5, <2>1, <2>2, <2>4, IdleTyped, ExchangeBusy
  <2>6. Hand(cl, w, ex)'
    BY <1>0, <1>9, <2>5, HandNext
  <2>7. ex'[e] = X /\ \A f \in Slots \ {e} : ex'[f] = ex[f]
    BY <2>0, <2>1
  <2>8. ex[e].for = None
    BY <1>0, <2>0 DEF ExchangeOK
  <2>9. \A k \in Clients : Held(k) => Held(k)'
    BY <1>0, <2>2, <2>7, <2>8, NoneAssumption DEF Held
  <2>10. NoQueryLost'
    BY <1>0, <1>9, <2>9 DEF IInv, ProcessInv, NoQueryLost
  <2> QED BY <1>0, <1>7, <2>6, <2>10 DEF IInv, ProcessInv
<1> QED BY <1>8, <1>9 DEF ExchangeTakes

\* The exchange moves, and keeps the question it has.
LEMMA ExchangeMoves ==
  ASSUME IInv, NEW e \in Slots, NEW X, IsExchange(X), ex[e].pc = "busy",
         X.pc = "busy", X.for = ex[e].for, X.q = ex[e].q,
         X.opts \in 1 .. Loads, ex[e].opts <= X.opts,
         ex' = [ex EXCEPT ![e] = X], UNCHANGED <<job, hist, cl, w>>
  PROVE  ProcessInv'
<1>0. Hand(cl, w, ex) /\ WorkerAlone(cl, w, ex) /\ ExchangeAlone(cl, ex) /\ ExchangeOK(cl, ex[e])
      /\ ex = [f \in Slots |-> ex[f]] /\ cl \in [Clients -> ClientType]
  BY DEF IInv, ProcessInv, Hand, HandOK, HandType
<1>1. ExchangeOK(cl, X)
  <2>1. Awaits(cl, X.for, X.q)
    BY <1>0 DEF ExchangeOK
  <2>2. cl[X.for].pc = "wait" => cl[X.for].from <= X.opts
    <3>1. X.for \in Clients /\ ex[e].opts \in 1 .. Loads /\ Loads \in Nat
      BY <1>0, <2>1, ProcessTyped DEF Awaits, ExchangeOK
    <3>2. cl[X.for].from \in Nat
      BY <1>0, <3>1 DEF ClientType
    <3>3. cl[X.for].pc = "wait" => cl[X.for].from <= ex[e].opts
      BY <1>0 DEF ExchangeOK
    <3> QED BY <3>1, <3>2, <3>3
  <2> QED BY <2>1, <2>2 DEF ExchangeOK
<1>2. Hand(cl, w, ex')
  BY <1>0, <1>1, ExchangeBusy DEF WorkerAlone, ExchangeAlone
<1>3. Hand(cl, w, ex)'
  BY <1>2, HandNext
<1>4. ex'[e] = X /\ \A f \in Slots \ {e} : ex'[f] = ex[f]
  BY <1>0
<1>5. NoQueryLost'
  BY <1>4 DEF IInv, ProcessInv, NoQueryLost, Held
<1>6. FreshInv'
  <2>1. (w.pc = "send" /\ w.fresh /\ job = "up") => w.to \in Slots /\ w.to # e
    BY DEF IInv, ProcessInv, FreshInv, Hand, HandOK, WorkerOK
  <2> QED BY <1>4, <2>1 DEF IInv, ProcessInv, FreshInv
<1> QED BY <1>3, <1>5, <1>6 DEF IInv, ProcessInv

LEMMA DialKeeps ==
  ASSUME IInv, NEW e \in Slots, Connect(e) \/ RoundTripFails(e)
  PROVE  ProcessInv'
<1>0. ex[e].pc = "busy" /\ UNCHANGED <<job, hist, cl, w>> /\ IsExchange(ex[e])
      /\ ex[e].opts \in 1 .. Loads /\ Loads \in Nat /\ ex = [f \in Slots |-> ex[f]]
  BY ProcessTyped DEF Connect, RoundTripFails, ExchangeOK
<1>1. ASSUME NEW s, ex' = [ex EXCEPT ![e].server = s, ![e].opts = Loads] PROVE ProcessInv'
  <2> DEFINE X == [ex[e] EXCEPT !.server = s, !.opts = Loads]
  <2>1. ex' = [ex EXCEPT ![e] = X]
    BY <1>0, <1>1 DEF IsExchange
  <2>2. IsExchange(X) /\ X.pc = ex[e].pc /\ X.for = ex[e].for /\ X.q = ex[e].q /\ X.opts = Loads
    BY <1>0 DEF IsExchange
  <2> HIDE DEF X
  <2>3. X.opts \in 1 .. Loads /\ ex[e].opts <= X.opts
    BY <1>0, <2>2
  <2> QED BY <1>0, <2>1, <2>2, <2>3, ExchangeMoves
<1>2. ASSUME ex' = [ex EXCEPT ![e].server = None] PROVE ProcessInv'
  <2> DEFINE X == [ex[e] EXCEPT !.server = None]
  <2>1. ex' = [ex EXCEPT ![e] = X]
    BY <1>0, <1>2 DEF IsExchange
  <2>2. IsExchange(X) /\ X.pc = ex[e].pc /\ X.for = ex[e].for /\ X.q = ex[e].q
        /\ X.opts = ex[e].opts
    BY <1>0 DEF IsExchange
  <2> HIDE DEF X
  <2>3. X.opts \in 1 .. Loads /\ ex[e].opts <= X.opts
    BY <1>0, <2>2
  <2> QED BY <1>0, <2>1, <2>2, <2>3, ExchangeMoves
<1> QED BY <1>1, <1>2 DEF Connect, RoundTripFails

\* The exchange lets go of its question, and the question is answered for.
LEMMA ExchangeLetsGo ==
  ASSUME IInv, NEW e \in Slots, NEW X, IsExchange(X), X.pc # "busy", X.for = None,
         ex' = [ex EXCEPT ![e] = X], UNCHANGED <<job, hist, w>>, Hand(cl', w, ex'),
         job = "up" => (w.pc = "send" /\ w.fresh /\ w.to = e => X.pc = "select"),
         \A k \in Clients : (cl'[k].pc = "wait" /\ ~cl'[k].gone /\ job = "up") =>
            \/ cl'[k] = cl[k] /\ ex[e].for # k
            \/ cl'[k].res # None \/ cl'[k].unserved
  PROVE  ProcessInv'
<1>1. Hand(cl, w, ex)'
  BY HandNext
<1>2. ex'[e] = X /\ \A f \in Slots \ {e} : ex'[f] = ex[f]
  BY ProcessTyped
<1>3. NoQueryLost'
  BY <1>2 DEF IInv, ProcessInv, NoQueryLost, Held
<1>4. FreshInv'
  <2>1. w.pc = "send" => w.to \in Slots
    BY DEF IInv, ProcessInv, Hand, HandOK, WorkerOK
  <2> QED BY <1>2, <2>1 DEF IInv, ProcessInv, FreshInv
<1> QED BY <1>1, <1>3, <1>4 DEF IInv, ProcessInv

LEMMA ExchangeEndsKeeps ==
  ASSUME IInv, NEW e \in Slots, IdleTimeout(e) \/ ExchangeReturns(e)
  PROVE  ProcessInv'
<1> DEFINE X == Done(ex[e])
<1>0. IsExchange(ex[e]) /\ ExchangeOK(cl, ex[e]) /\ ex = [f \in Slots |-> ex[f]] /\ Hand(cl, w, ex)
  BY ProcessTyped DEF IInv, ProcessInv
<1>1. IsExchange(X) /\ X.pc = "done" /\ X.for = None
  BY <1>0, ReadyDoneTyped
<1>2. ex' = [ex EXCEPT ![e] = X] /\ UNCHANGED <<job, hist, cl, w>>
  BY <1>0 DEF IdleTimeout, ExchangeReturns
<1> HIDE DEF X
<1>3. Hand(cl', w, ex')
  BY <1>0, <1>1, <1>2, ExchangeFreed
<1>4. job = "up" => (ex[e].for = None /\ ~(w.pc = "send" /\ w.fresh /\ w.to = e))
  BY <1>0 DEF IdleTimeout, ExchangeReturns, ExchangeOK
<1> QED BY <1>1, <1>2, <1>3, <1>4, NoneAssumption, ExchangeLetsGo

LEMMA NoServersKeeps ==
  ASSUME IInv, NEW e \in Slots, NoServers(e)
  PROVE  ProcessInv'
<1> DEFINE X == Done(ex[e])
           h == ex[e].for
           C == [cl[h] EXCEPT !.unserved = TRUE]
<1>0. IsExchange(ex[e]) /\ ExchangeOK(cl, ex[e]) /\ ex = [f \in Slots |-> ex[f]] /\ Hand(cl, w, ex)
      /\ cl \in [Clients -> ClientType]
  BY ProcessTyped DEF IInv, ProcessInv
<1>1. IsExchange(X) /\ X.pc = "done" /\ X.for = None
  BY <1>0, ReadyDoneTyped
<1>2. /\ ex' = [ex EXCEPT ![e] = X] /\ ex[e].pc = "busy"
      /\ cl' = [cl EXCEPT ![h].unserved = TRUE] /\ UNCHANGED <<job, hist, w>>
  BY <1>0 DEF NoServers
<1> HIDE DEF X
<1>3. h \in Clients
  BY <1>0, <1>2 DEF ExchangeOK, Awaits
<1>4. cl[h] \in ClientType /\ ClientOK(cl[h])
  BY <1>3, ProcessTyped
<1>5. /\ C \in ClientType /\ C.pc = cl[h].pc /\ C.q = cl[h].q /\ C.res = cl[h].res
      /\ C.from = cl[h].from /\ C.unserved
  BY <1>4 DEF ClientType
<1>6. cl' = [cl EXCEPT ![h] = C]
  BY <1>0, <1>2, <1>3 DEF ClientType
<1> HIDE DEF C
<1>7. ClientOK(C)
  BY <1>4, <1>5 DEF ClientOK, ResultOK
<1>8. Hand(cl, w, ex')
  BY <1>0, <1>1, <1>2, ExchangeFreed
<1>9. Hand(cl', w, ex')
  BY <1>3, <1>5, <1>6, <1>7, <1>8, ClientStep
<1>10. cl'[h] = C /\ \A k \in Clients \ {h} : cl'[k] = cl[k]
  BY <1>0, <1>3, <1>6
<1>11. ~(w.pc = "send" /\ w.fresh /\ w.to = e /\ job = "up")
  BY <1>2 DEF IInv, ProcessInv, FreshInv
<1>12. \A k \in Clients : (cl'[k] = cl[k] /\ ex[e].for # k) \/ cl'[k].unserved
  BY <1>5, <1>10
<1> QED BY <1>1, <1>2, <1>9, <1>11, <1>12, ExchangeLetsGo

\* The exchange sends a result, or closes the channel, and is ready again.
LEMMA ExchangeAnswers ==
  ASSUME IInv, NEW e \in Slots, ex[e].pc = "busy", NEW r \in Results \cup {Closed},
         Deliver(ex[e].for, r), ex' = [ex EXCEPT ![e] = Ready(ex[e])], UNCHANGED <<job, hist, w>>,
         r # Closed => r = Result(ex[e].opts, ex[e].q)
  PROVE  ProcessInv'
<1> DEFINE X == Ready(ex[e])
           h == ex[e].for
<1>0. IsExchange(ex[e]) /\ ExchangeOK(cl, ex[e]) /\ ex = [f \in Slots |-> ex[f]] /\ Hand(cl, w, ex)
      /\ WorkerAlone(cl, w, ex) /\ ExchangeAlone(cl, ex)
  BY ProcessTyped DEF IInv, ProcessInv, Hand, HandOK
<1>1. IsExchange(X) /\ X.pc = "select" /\ X.for = None /\ ex' = [ex EXCEPT ![e] = X]
  BY <1>0, ReadyDoneTyped
<1> HIDE DEF X
<1>2. Hand(cl, w, ex')
  BY <1>0, <1>1, ExchangeFreed
<1>3. ex'[e] = X /\ \A f \in Slots \ {e} : ex'[f] = ex[f]
  BY <1>0, <1>1
<1>4. /\ h \in Clients /\ Awaits(cl, h, ex[e].q) /\ ex[e].opts \in 1 .. Loads
      /\ cl[h].pc = "wait" => cl[h].from <= ex[e].opts
  BY <1>0 DEF ExchangeOK, Awaits
<1>5. cl[h].pc # "closed" => NotHeld(h, w, ex')
  <2>1. cl[h].pc # "closed" => ~(w.pc = "send" /\ w.for = h)
    BY <1>0 DEF WorkerAlone
  <2>2. ASSUME cl[h].pc # "closed", NEW f \in Slots PROVE ~(ex'[f].pc = "busy" /\ ex'[f].for = h)
    <3>1. CASE f = e
      BY <1>1, <1>3, <3>1
    <3>2. CASE f # e
      BY <1>0, <1>3, <2>2, <3>2 DEF ExchangeAlone
    <3> QED BY <3>1, <3>2
  <2> QED BY <2>1, <2>2 DEF NotHeld
<1>6. cl[h].pc \in {"wait", "closed"} /\ (cl[h].pc # "closed" => cl[h].q = ex[e].q)
  BY <1>4 DEF Awaits
<1>7. (r # Closed /\ cl[h].pc # "closed") =>
            /\ r.q = cl[h].q
            /\ r.by \in 1 .. Loads
            /\ \E i \in cl[h].from .. Loads :
                  SameShape(Options(r.by).conf, Options(i).conf, cl[h].q)
  <2> SUFFICES ASSUME r # Closed, cl[h].pc # "closed"
               PROVE  /\ r.q = cl[h].q
                      /\ r.by \in 1 .. Loads
                      /\ \E i \in cl[h].from .. Loads :
                            SameShape(Options(r.by).conf, Options(i).conf, cl[h].q)
    OBVIOUS
  <2>1. r.q = ex[e].q /\ r.by = ex[e].opts
    BY DEF Result
  <2>2. cl[h].from \in Nat /\ Loads \in Nat
    BY <1>4, ProcessTyped DEF ClientType
  <2>3. ex[e].opts \in cl[h].from .. Loads
    BY <1>4, <1>6, <2>2
  <2>4. SameShape(Options(r.by).conf, Options(ex[e].opts).conf, cl[h].q)
    BY <2>1 DEF SameShape
  <2> QED BY <1>4, <1>6, <2>1, <2>3, <2>4
<1>8. /\ Hand(cl', w, ex')
      /\ cl'[h].pc = "wait" => cl'[h].res # None
      /\ \A k \in Clients \ {h} : cl'[k] = cl[k]
  BY <1>2, <1>4, <1>5, <1>6, <1>7, DeliverStep
<1> QED BY <1>1, <1>8, ExchangeLetsGo

LEMMA RoundTripKeeps ==
  ASSUME IInv, NEW e \in Slots, RoundTrip(e)
  PROVE  ProcessInv' /\ OptionsType' /\ OptionsInv'
<1> DEFINE r == Result(ex[e].opts, ex[e].q)
<1>0. /\ ex[e].pc = "busy" /\ ex' = [ex EXCEPT ![e] = Ready(ex[e])]
      /\ UNCHANGED <<job, hist, routeCache, w>>
  BY ProcessTyped DEF RoundTrip
<1>1. ex[e].opts \in 1 .. Loads /\ ex[e].q \in Questions /\ ex[e].for \in Clients
  BY <1>0, ProcessTyped DEF ExchangeOK, Awaits
<1>2. OptionsType' /\ OptionsInv'
  BY <1>0, <1>1, StoresResultOptions DEF IInv, RoundTrip
<1>3. PICK o \in Outcomes(ex[e].for, r) : Deliver(ex[e].for, o)
  BY DEF RoundTrip
<1>4. r \in Results
  BY <1>1, ProcessTyped DEF Result, Results
<1>5. o = r \/ o = Closed
  BY <1>3 DEF Outcomes
<1>6. ProcessInv'
  BY <1>0, <1>3, <1>4, <1>5, ExchangeAnswers
<1> QED BY <1>2, <1>6

LEMMA ExchangeGivesUpKeeps ==
  ASSUME IInv, NEW e \in Slots, ExchangeGivesUp(e)
  PROVE  ProcessInv'
<1>1. /\ ex[e].pc = "busy" /\ ex' = [ex EXCEPT ![e] = Ready(ex[e])]
      /\ Deliver(ex[e].for, Closed) /\ UNCHANGED <<job, hist, w>>
  BY ProcessTyped DEF ExchangeGivesUp
<1> QED BY <1>1, ExchangeAnswers

-----------------------------------------------------------------------------
(***************************************************************************)
(* The event loop, and every step.                                         *)
(***************************************************************************)

\* Loading options disturbs no question: what was asked before is judged by
\* the options of its time.
LEMMA LoadKeeps ==
  ASSUME IInv, NEW c \in Configs, Load(c)
  PROVE  IInv'
<1>0. OptionsType' /\ OptionsInv'
  BY LoadOptions DEF IInv
<1>1. UNCHANGED <<job, cl, w, ex>>
  BY DEF Load
<1>2. /\ Loads \in Nat /\ Loads' = Loads + 1
      /\ \A i \in 0 .. Loads : Options(i)' = Options(i)
  <2>1. hist \in Seq(Entry) /\ hist' = Append(hist, [conf |-> c, rid |-> NewRoutes(Current, c),
                                                      cid |-> NewCache(Current, c)])
    BY DEF IInv, OptionsType, Load
  <2>2. Loads \in Nat /\ Loads' = Loads + 1 /\ \A i \in 1 .. Loads : hist'[i] = hist[i]
    BY <2>1 DEF Loads
  <2> QED BY <2>2 DEF Options
<1>3. HandType(cl, w, ex)'
  BY <1>1 DEF IInv, ProcessInv, Hand, HandType
<1>4. ASSUME NEW h \in Clients PROVE ClientOK(cl[h])'
  <2> DEFINE C == cl[h]
  <2>1. ClientOK(C) /\ C \in ClientType /\ cl'[h] = C
    BY <1>1, ProcessTyped
  <2> HIDE DEF C
  <2>2. C.from \in Nat
    BY <2>1 DEF ClientType
  <2>3. ResultOK(C)'
    <3> SUFFICES ASSUME C' = C, C.res \notin {None, Closed}
                 PROVE  /\ C.res.q = C.q
                        /\ C.res.by \in 1 .. Loads'
                        /\ \E i \in C.from .. Loads' :
                              SameShape(Options(C.res.by)'.conf, Options(i)'.conf, C.q)
      BY <2>1 DEF ResultOK, C, SameShape
    <3>1. /\ C.res.q = C.q /\ C.res.by \in 1 .. Loads
      BY <2>1 DEF ClientOK, ResultOK
    <3>2. PICK i \in C.from .. Loads : SameShape(Options(C.res.by).conf, Options(i).conf, C.q)
      BY <2>1 DEF ClientOK, ResultOK
    <3>3. i \in C.from .. Loads' /\ i \in 0 .. Loads /\ C.res.by \in 0 .. Loads
      BY <1>2, <2>2, <3>1, <3>2
    <3> QED BY <1>2, <3>1, <3>2, <3>3
  <2> QED BY <1>2, <2>1, <2>2, <2>3 DEF ClientOK, C
<1>5. WorkerOK(cl, w)' /\ (\A e \in Slots : ExchangeOK(cl, ex[e]))'
  <2>1. WorkerOK(cl, w)'
    BY <1>1, <1>2 DEF IInv, ProcessInv, Hand, HandOK, WorkerOK, Awaits
  <2>2. ASSUME NEW e \in Slots PROVE ExchangeOK(cl, ex[e])'
    BY <1>1, <1>2, ProcessTyped DEF ExchangeOK, Awaits
  <2> QED BY <2>1, <2>2
<1>6. WorkerAlone(cl, w, ex)' /\ ExchangeAlone(cl, ex)'
  BY <1>1 DEF IInv, ProcessInv, Hand, HandOK, WorkerAlone, ExchangeAlone
<1>7. Hand(cl, w, ex)'
  BY <1>3, <1>4, <1>5, <1>6 DEF Hand, HandOK
<1>8. FreshInv' /\ NoQueryLost'
  BY <1>1 DEF IInv, ProcessInv, FreshInv, NoQueryLost, Held
<1> QED BY <1>0, <1>1, <1>7, <1>8 DEF IInv, ProcessInv

LEMMA RunReturnsKeeps ==
  ASSUME IInv, RunReturns
  PROVE  IInv'
<1>0. job' = "down" /\ UNCHANGED <<hist, routeCache, dnsCache, cl, w, ex>>
  BY DEF RunReturns
<1>1. OptionsType' /\ OptionsInv'
  BY <1>0, OptionsSame DEF IInv
<1>2. Hand(cl', w', ex')
  BY <1>0 DEF IInv, ProcessInv
<1>3. Hand(cl, w, ex)'
  BY <1>0, <1>2, HandNext
<1>4. FreshInv' /\ NoQueryLost'
  BY <1>0 DEF FreshInv, NoQueryLost
<1> QED BY <1>0, <1>1, <1>3, <1>4 DEF IInv, ProcessInv

LEMMA InitHolds == Init => IInv
<1> SUFFICES ASSUME Init PROVE IInv
  OBVIOUS
<1>1. Loads = 0 /\ hist = <<>>
  BY DEF Init, Loads
<1>2. /\ routeCache = [r \in 1 .. MaxLoads |-> [d \in Domains |-> None]]
      /\ dnsCache = [c \in 1 .. MaxLoads |-> [q \in Questions |-> None]]
  BY DEF Init
<1>3. OptionsType
  BY <1>1, <1>2, LoadsAssumption DEF OptionsType
<1>4. HistInv
  BY <1>1 DEF HistInv
<1>5. RouteInv /\ CacheInv
  BY <1>2 DEF RouteInv, CacheInv
<1>6. /\ \A h \in Clients : cl[h] = NoClient
      /\ cl \in [Clients -> ClientType] /\ w = Idle
      /\ ex = [e \in Slots |-> ex[e]] /\ \A e \in Slots : ex[e] = NoExchange
  BY NoClientTyped DEF Init
<1>7. HandType(cl, w, ex)
  BY <1>6, IdleTyped, NoExchangeTyped DEF HandType
<1>8. \A h \in Clients : ClientOK(cl[h])
  BY <1>6, NoClientTyped DEF ClientOK, ResultOK
<1>9. /\ WorkerOK(cl, w) /\ \A e \in Slots : ExchangeOK(cl, ex[e])
      /\ WorkerAlone(cl, w, ex) /\ ExchangeAlone(cl, ex)
  BY <1>6, IdleTyped, NoExchangeTyped DEF WorkerOK, ExchangeOK, WorkerAlone, ExchangeAlone
<1>10. Hand(cl, w, ex)
  BY <1>7, <1>8, <1>9 DEF Hand, HandOK
<1>11. FreshInv /\ NoQueryLost
  BY <1>6, IdleTyped, NoClientTyped DEF FreshInv, NoQueryLost
<1>12. job = "up"
  BY DEF Init
<1> QED BY <1>3, <1>4, <1>5, <1>10, <1>11, <1>12 DEF IInv, OptionsInv, ProcessInv

LEMMA NextKeeps == IInv /\ [Next]_vars => IInv'
<1> SUFFICES ASSUME IInv, [Next]_vars PROVE IInv'
  OBVIOUS
<1>1. ASSUME NEW c \in Configs, Load(c) PROVE IInv'
  BY <1>1, LoadKeeps
<1>2. ASSUME RunReturns PROVE IInv'
  BY <1>2, RunReturnsKeeps
<1>3. ASSUME NEW h \in Clients,
             \/ Accept(h) \/ (\E q \in Questions : Read(h, q))
             \/ Receive(h) \/ ClientLeaves(h) \/ HandlerReturns(h)
      PROVE  IInv'
  <2>1. ProcessInv'
    BY <1>3, HandlerKeeps
  <2>2. UNCHANGED <<hist, routeCache, dnsCache>>
    BY <1>3 DEF Accept, Read, Receive, ClientLeaves, HandlerReturns
  <2> QED BY <2>1, <2>2, OptionsSame DEF IInv
<1>4. ASSUME NEW h \in Clients, WorkerAnswers(h) PROVE IInv'
  <2>1. UNCHANGED <<hist, routeCache, dnsCache>>
    BY <1>4 DEF WorkerAnswers
  <2> QED BY <1>4, <2>1, WorkerAnswersKeeps, OptionsSame DEF IInv
<1>5. ASSUME NEW h \in Clients, WorkerRoutes(h) PROVE IInv'
  BY <1>5, WorkerRoutesKeeps DEF IInv
<1>6. ASSUME WorkerFindsDone \/ WorkerGivesUp \/ WorkerReturns PROVE IInv'
  <2>1. UNCHANGED <<hist, routeCache, dnsCache>>
    BY <1>6 DEF WorkerFindsDone, WorkerGivesUp, WorkerReturns
  <2> QED BY <1>6, <2>1, WorkerKeeps, OptionsSame DEF IInv
<1>7. ASSUME NEW e \in Slots, ExchangeTakes(e) PROVE IInv'
  <2>1. UNCHANGED <<hist, routeCache, dnsCache>>
    BY <1>7 DEF ExchangeTakes
  <2> QED BY <1>7, <2>1, ExchangeTakesKeeps, OptionsSame DEF IInv
<1>8. ASSUME NEW e \in Slots, Connect(e) \/ RoundTripFails(e) PROVE IInv'
  <2>1. UNCHANGED <<hist, routeCache, dnsCache>>
    BY <1>8 DEF Connect, RoundTripFails
  <2> QED BY <1>8, <2>1, DialKeeps, OptionsSame DEF IInv
<1>9. ASSUME NEW e \in Slots, NoServers(e) PROVE IInv'
  <2>1. UNCHANGED <<hist, routeCache, dnsCache>>
    BY <1>9 DEF NoServers
  <2> QED BY <1>9, <2>1, NoServersKeeps, OptionsSame DEF IInv
<1>10. ASSUME NEW e \in Slots, RoundTrip(e) PROVE IInv'
  BY <1>10, RoundTripKeeps DEF IInv
<1>11. ASSUME NEW e \in Slots, ExchangeGivesUp(e) PROVE IInv'
  <2>1. UNCHANGED <<hist, routeCache, dnsCache>>
    BY <1>11 DEF ExchangeGivesUp
  <2> QED BY <1>11, <2>1, ExchangeGivesUpKeeps, OptionsSame DEF IInv
<1>12. ASSUME NEW e \in Slots, IdleTimeout(e) \/ ExchangeReturns(e) PROVE IInv'
  <2>1. UNCHANGED <<hist, routeCache, dnsCache>>
    BY <1>12 DEF IdleTimeout, ExchangeReturns
  <2> QED BY <1>12, <2>1, ExchangeEndsKeeps, OptionsSame DEF IInv
<1>13. ASSUME NEW c \in 1 .. MaxLoads, NEW q \in Questions, Expire(c, q) PROVE IInv'
  <2>1. UNCHANGED <<job, hist, cl, w, ex>>
    BY <1>13 DEF Expire
  <2> QED BY <1>13, <2>1, ExpireOptions, ProcessSame DEF IInv
<1>14. ASSUME UNCHANGED vars PROVE IInv'
  <2>1. UNCHANGED <<job, hist, routeCache, dnsCache, cl, w, ex>>
    BY <1>14 DEF vars
  <2> QED BY <2>1, OptionsSame, ProcessSame DEF IInv
<1> QED BY <1>1, <1>2, <1>3, <1>4, <1>5, <1>6, <1>7, <1>8, <1>9, <1>10, <1>11, <1>12, <1>13, <1>14
       DEF Next

LEMMA Inductive == Spec => []IInv
BY InitHolds, NextKeeps, PTL DEF Spec

-----------------------------------------------------------------------------
LEMMA CachesFreshFollows == IInv => CachesFresh
<1> SUFFICES ASSUME IInv PROVE CachesFresh
  OBVIOUS
<1>0. OptionsType /\ OptionsInv
  BY DEF IInv
<1>1. ASSUME NEW i \in 1 .. Loads, NEW q \in Questions, Cached(hist[i], q) # None
      PROVE  /\ Cached(hist[i], q).q = q
             /\ SameShape(Options(Cached(hist[i], q).by).conf, hist[i].conf, q)
  BY <1>0, <1>1, CachedFresh
<1>2. ASSUME NEW i \in 1 .. Loads, NEW d \in Domains,
             hist[i].rid # 0, routeCache[hist[i].rid][d] # None
      PROVE  \E j \in 1 .. Loads :
                  /\ hist[j].rid = hist[i].rid
                  /\ routeCache[hist[i].rid][d] =
                        FirstMatch(hist[i].rid, hist[i].conf.routes, hist[j].conf.redirects[d])
  <2>1. hist[i].rid \in 1 .. MaxLoads
    BY <1>0, <1>2, OptionsTyped, LoadsAssumption
  <2>2. PICK j \in 1 .. Loads :
            /\ hist[j].rid = hist[i].rid
            /\ routeCache[hist[i].rid][d] =
                  FirstMatch(hist[i].rid, hist[j].conf.routes, hist[j].conf.redirects[d])
    BY <1>0, <1>2, <2>1 DEF OptionsInv, RouteInv
  <2>3. hist[j].conf.routes = hist[i].conf.routes
    BY <1>0, <1>2, <2>2, SharedAlike
  <2> QED BY <2>2, <2>3
<1> QED BY <1>1, <1>2 DEF CachesFresh

\* Whatever is loaded, in whichever order and while whichever queries are under
\* way, options never lead to a result that other options shaped (LoadEvent of
\* dnstun.go resets or keeps dnsCache, startExchange stores into the cache of
\* the options it took), nor to a route of other routes.
THEOREM CachesAlwaysFresh == Spec => []CachesFresh
BY Inductive, CachesFreshFollows, PTL

\* A handler is only sent a result of the question it waits for, shaped by
\* options that were in force since it was asked, whichever of the worker's
\* cache, the exchange's cache and a round trip it comes from.
THEOREM AnswersAlwaysFresh == Spec => []AnswerFresh
<1>1. IInv => AnswerFresh
  <2> SUFFICES ASSUME IInv, NEW h \in Clients, cl[h].res \notin {None, Closed}
               PROVE  /\ cl[h].res.q = cl[h].q
                      /\ \E i \in cl[h].from .. Loads :
                            SameShape(Options(cl[h].res.by).conf, Options(i).conf, cl[h].q)
    BY DEF AnswerFresh
  <2> QED BY ProcessTyped DEF ClientOK, ResultOK
<1> QED BY <1>1, Inductive, PTL

\* A question that waits is held by the worker or by one exchange until it has
\* its result: an exchange that ends between being found and being sent to is
\* replaced by a new one, which does not end before it has taken the question.
THEOREM QueriesNeverLost == Spec => []NoQueryLost
<1>1. IInv => NoQueryLost
  BY DEF IInv, ProcessInv
<1> QED BY <1>1, Inductive, PTL
=============================================================================
