---------------------------- MODULE Routes_proofs ----------------------------
(***************************************************************************)
(* Proofs about the routes of the HTTP proxy: through every sequence of    *)
(* reloads, with files that are written to in between and any number of    *)
(* lookups under way, the routes, lists, cached routes and redirects in    *)
(* use are the ones of the options. What a list reads and allows may be    *)
(* anything here.                                                          *)
(***************************************************************************)
EXTENDS Routes, RangeSet, FiniteSetTheorems, SequenceTheorems, WellFoundedInduction, TLAPS

-----------------------------------------------------------------------------
(***************************************************************************)
(* Sequences, whatever they are of, and numbers.                           *)
(***************************************************************************)

IsSequence(s) == \E S : s \in Seq(S)

LEMMA EmptyIsSequence == IsSequence(<<>>) /\ Len(<<>>) = 0
<1>1. <<>> \in Seq({})
  OBVIOUS
<1> QED BY <1>1 DEF IsSequence

LEMMA SequenceShape ==
  ASSUME NEW s, IsSequence(s)
  PROVE  Len(s) \in Nat /\ DOMAIN s = 1 .. Len(s) /\ (Len(s) = 0 => s = <<>>)
<1>1. PICK S : s \in Seq(S)
  BY DEF IsSequence
<1> QED BY <1>1

LEMMA AppendShape ==
  ASSUME NEW s, NEW x, IsSequence(s)
  PROVE  /\ IsSequence(Append(s, x))
         /\ Len(Append(s, x)) = Len(s) + 1
         /\ \A i \in 1 .. Len(s) : Append(s, x)[i] = s[i]
         /\ Append(s, x)[Len(s) + 1] = x
<1>1. PICK S : s \in Seq(S)
  BY DEF IsSequence
<1>2. PICK T : T = S \cup {x}
  OBVIOUS
<1>3. s \in Seq(T) /\ x \in T
  BY <1>1, <1>2
<1>4. Append(s, x) \in Seq(T)
  BY <1>3
<1>5. IsSequence(Append(s, x))
  BY <1>4 DEF IsSequence
<1> QED BY <1>3, <1>5

LEMMA Least ==
  ASSUME NEW T \in SUBSET Nat, T # {}
  PROVE  \E n \in T : \A m \in T : n <= m
<1>1. PICK n \in T : \A m \in T : ~(<<m, n>> \in OpToRel(<, Nat))
  BY WFMin, NatLessThanWellFounded
<1>2. \A m \in T : ~(m < n)
  BY <1>1 DEF OpToRel
<1> QED BY <1>2

LEMMA MinIsLeast ==
  ASSUME NEW T \in SUBSET Nat, T # {}
  PROVE  Min(T) \in T /\ \A m \in T : Min(T) <= m
<1>1. \E n \in T : \A m \in T : n <= m
  BY Least
<1> QED BY <1>1 DEF Min

-----------------------------------------------------------------------------
(***************************************************************************)
(* The inductive invariant.                                                *)
(***************************************************************************)

ConfOf(c) == c \in Confs \cup {ZeroOptions.conf}

OptionsShape(o) ==
    /\ DOMAIN o = {"conf", "sums", "routes", "lists", "gen"}
    /\ ConfOf(o.conf)
    /\ IsSequence(o.sums)
    /\ IsSequence(o.routes)
    /\ o.gen \in Nat

\* What a list was made from is what its checksum was made from, unless a
\* file was written in between.
ListFits(l) == ~l.torn => l.read = l.sum
ListsFit(lists) == \A x \in DOMAIN lists : ListFits(lists[x])

\* The first n routes are the ones of the configuration and of its checksums.
Made(o, n) ==
    \A i \in 1 .. n :
        /\ o.routes[i].proxy = o.conf.routes[i].proxy
        /\ o.routes[i].list.sum = o.sums[i].sum
        /\ ListFits(o.routes[i].list)

\* Options that a load has brought to its end.
OptionsInv(o) ==
    /\ OptionsShape(o)
    /\ Len(o.sums) = Len(o.conf.routes)
    /\ Len(o.routes) = Len(o.conf.routes)
    /\ Made(o, Len(o.routes))
    /\ ListsFit(o.lists)
    /\ o.gen = 0 => o.routes = <<>>

LoadShape(l, p) ==
    /\ DOMAIN l = {"pc", "n", "new", "at"}
    /\ l.pc \in {"idle", "sums", "lists", "handler", "send"}
    /\ l.n \in 0 .. Len(p)
    /\ l.pc # "idle" => l.n > 0
    /\ OptionsShape(l.new)

\* The checksums of a load. at[i] is how often files had been written by then:
\* as long as that has not changed, the i-th is that of the files as they are.
SumsInv(l, fs, w) ==
    /\ l.at \in Seq(Nat)
    /\ Len(l.at) = Len(l.new.sums)
    /\ Len(l.new.sums) <= Len(l.new.conf.routes)
    /\ \A i \in 1 .. Len(l.at) :
          /\ l.at[i] <= w
          /\ l.at[i] = w => l.new.sums[i].sum = Lines(fs, l.new.conf.routes[i].what)

SameRoutes(x, y) == x.routes = y.routes /\ x.gen = y.gen

\* The options that are loaded, in each phase; o are the ones in use.
LoadInv(l, o, fs, w) ==
    /\ l.pc \in {"sums", "lists"} => SumsInv(l, fs, w)
    /\ l.pc = "sums" => SameRoutes(l.new, o) /\ l.new.lists = o.lists
    /\ l.pc = "lists" =>
          /\ Len(l.new.sums) = Len(l.new.conf.routes)
          /\ Len(l.new.routes) <= Len(l.new.conf.routes)
          /\ Made(l.new, Len(l.new.routes))
          /\ ListsFit(l.new.lists)
          /\ l.new.gen = IF l.new.conf.routes = <<>> THEN 0 ELSE l.n
    /\ l.pc = "handler" => OptionsInv(l.new) /\ SameRoutes(l.new, o)
    /\ l.pc = "send" => OptionsInv(l.new) /\ (l.new.gen \in {0, l.n} \/ SameRoutes(l.new, o))

\* Options in use are of an earlier load than the one that is under way ...
Before(g, l) == g <= l.n /\ (l.pc # "idle" => g < l.n)

CacheShape(cache, p) ==
    /\ DOMAIN cache = 1 .. Len(p)
    /\ \A g \in DOMAIN cache : DOMAIN cache[g] = Asked

\* ... and nothing is stored for the ones that are not in use yet.
Unused(cache, l) ==
    \A g \in DOMAIN cache : ~Before(g, l) => \A a \in Asked : cache[g][a] = None

\* What is stored for options is what they would find anew.
CacheFits(cache, o) ==
    o.gen # 0 => \A a \in Asked : cache[o.gen][a] \in {None, FirstRoute(o.routes, a)}

InUse(l, cache, o) == OptionsInv(o) /\ Before(o.gen, l) /\ CacheFits(cache, o)

\* Options with the same cache have the same routes.
Shared(x, y) == x.gen = y.gen => x.routes = y.routes

LookShape(k) ==
    /\ DOMAIN k = {"pc", "opts", "a", "ans"}
    /\ k.pc = "took" => k.a \in Asked

LooksInv(l, cache, o, lk) ==
    /\ DOMAIN lk = Lookups
    /\ \A k \in Lookups :
          /\ LookShape(lk[k])
          /\ InUse(l, cache, lk[k].opts)
          /\ Shared(lk[k].opts, o)
          /\ \A j \in Lookups : Shared(lk[k].opts, lk[j].opts)
          /\ LookupFits(lk[k])

Settled(l, o) == IF l.pc = "send" THEN l.new.conf ELSE o.conf
HandlerInv(h, c) ==
    /\ DOMAIN h = Maps
    /\ \A m \in Maps : (\A x \in DOMAIN c[m] : c[m][x] # "") => h[m] = c[m]

IInv ==
    /\ plan \in Plans /\ writes \in Nat
    /\ LoadShape(ld, plan) /\ LoadInv(ld, opts, files, writes)
    /\ CacheShape(routeCache, plan) /\ Unused(routeCache, ld)
    /\ InUse(ld, routeCache, opts)
    /\ LooksInv(ld, routeCache, opts, look)
    /\ HandlerInv(handler, Settled(ld, opts))

-----------------------------------------------------------------------------
(***************************************************************************)
(* Configurations, maps and routes.                                        *)
(***************************************************************************)

LEMMA ConfShape ==
  ASSUME NEW c, ConfOf(c)
  PROVE  /\ IsSequence(c.routes)
         /\ \A i \in DOMAIN c.routes : c.routes[i].proxy # None
         /\ \A m \in Maps : c[m] \in [DOMAIN c[m] -> STRING] /\ IsFiniteSet(DOMAIN c[m])
<1>1. CASE c \in Confs
  <2>1. /\ c.routes \in Seq(RouteConfs)
        /\ \A m \in Maps : c[m] \in [DOMAIN c[m] -> STRING] /\ IsFiniteSet(DOMAIN c[m])
    BY <1>1, PlansAssumption
  <2>2. \A i \in DOMAIN c.routes : c.routes[i] \in RouteConfs
    BY <2>1
  <2>3. \A i \in DOMAIN c.routes : c.routes[i].proxy # None
    BY <2>2, PlansAssumption
  <2> QED BY <2>1, <2>3 DEF IsSequence
<1>2. CASE c = ZeroOptions.conf
  <2>1. c.routes = <<>> /\ c.redirects = NoMap /\ c.rwhosts = NoMap
    BY <1>2 DEF ZeroOptions
  <2>2. NoMap \in [DOMAIN NoMap -> STRING] /\ DOMAIN NoMap = {}
    BY DEF NoMap
  <2>3. IsFiniteSet(DOMAIN NoMap)
    BY <2>2, FS_EmptySet
  <2>4. \A m \in Maps : c[m] = NoMap
    BY <2>1 DEF Maps
  <2>5. DOMAIN c.routes = {}
    BY <2>1
  <2> QED BY <2>1, <2>2, <2>3, <2>4, <2>5, EmptyIsSequence
<1> QED BY <1>1, <1>2 DEF ConfOf

LEMMA ZeroInv == OptionsInv(ZeroOptions) /\ ZeroOptions.gen = 0
<1>1. ZeroOptions.gen = 0 /\ ZeroOptions.sums = <<>> /\ ZeroOptions.routes = <<>>
      /\ ZeroOptions.conf.routes = <<>> /\ ZeroOptions.lists = [x \in {} |-> None]
      /\ DOMAIN ZeroOptions = {"conf", "sums", "routes", "lists", "gen"}
  BY DEF ZeroOptions
<1>2. OptionsShape(ZeroOptions)
  BY <1>1, EmptyIsSequence DEF OptionsShape, ConfOf
<1>3. Made(ZeroOptions, 0)
  BY DEF Made
<1>4. ListsFit(ZeroOptions.lists)
  BY <1>1 DEF ListsFit
<1> QED BY <1>1, <1>2, <1>3, <1>4, EmptyIsSequence DEF OptionsInv

\* A map without an empty value equals another only if it is the same: what
\* mapEqual reads as empty for a missing key is then no value of the map.
LEMMA MapsEqual ==
  ASSUME NEW S, NEW R, NEW T, NEW a \in [S -> T], NEW b \in [R -> T],
         IsFiniteSet(S), IsFiniteSet(R),
         \A x \in S : a[x] # "",
         mapEqual(a, b)
  PROVE  a = b
<1>1. \A k \in S : k \in R /\ b[k] = a[k]
  BY DEF mapEqual
<1>2. S \subseteq R /\ Cardinality(S) = Cardinality(R)
  BY <1>1 DEF mapEqual
<1>3. S = R
  BY <1>2, FS_Subset
<1>4. a = [k \in S |-> a[k]] /\ b = [k \in S |-> b[k]]
  BY <1>3
<1>5. [k \in S |-> a[k]] = [k \in S |-> b[k]]
  BY <1>1, Zenon
<1> QED BY <1>4, <1>5

\* The first route found is that of the least index with a list that allows it.
LEMMA FirstRouteIs ==
  ASSUME NEW o, NEW a, OptionsInv(o)
  PROVE  \/ /\ FirstRoute(o.routes, a) = None
            /\ \A i \in DOMAIN o.routes : ~Allows(o.routes[i].list.read, a)
         \/ /\ FirstRoute(o.routes, a) # None
            /\ \E i \in DOMAIN o.routes :
                  /\ FirstRoute(o.routes, a) = o.conf.routes[i].proxy
                  /\ Allows(o.routes[i].list.read, a)
                  /\ \A j \in 1 .. i - 1 : ~Allows(o.routes[j].list.read, a)
<1>1. PICK T : T = {i \in DOMAIN o.routes : Allows(o.routes[i].list.read, a)}
  OBVIOUS
<1>2. FirstRoute(o.routes, a) = IF T = {} THEN None ELSE o.routes[Min(T)].proxy
  BY <1>1 DEF FirstRoute
<1>3. CASE T = {}
  BY <1>1, <1>2, <1>3
<1>4. CASE T # {}
  <2>1. DOMAIN o.routes = 1 .. Len(o.routes) /\ Len(o.routes) \in Nat
    BY SequenceShape DEF OptionsInv, OptionsShape
  <2>2. T \in SUBSET Nat
    BY <1>1, <2>1
  <2>3. PICK i : i = Min(T)
    OBVIOUS
  <2>4. i \in T /\ \A j \in T : i <= j
    BY <1>4, <2>2, <2>3, MinIsLeast
  <2>5. i \in 1 .. Len(o.routes) /\ o.routes[i].proxy = o.conf.routes[i].proxy
    BY <1>1, <2>1, <2>4 DEF OptionsInv, Made
  <2>6. IsSequence(o.conf.routes) /\ Len(o.routes) = Len(o.conf.routes)
        /\ \A j \in DOMAIN o.conf.routes : o.conf.routes[j].proxy # None
    BY ConfShape DEF OptionsInv, OptionsShape
  <2>7. o.conf.routes[i].proxy # None
    BY <2>5, <2>6, SequenceShape
  <2>8. \A j \in 1 .. i - 1 : ~Allows(o.routes[j].list.read, a)
    BY <1>1, <2>1, <2>4
  <2> QED BY <1>1, <1>2, <1>4, <2>1, <2>3, <2>4, <2>5, <2>7, <2>8
<1> QED BY <1>3, <1>4

-----------------------------------------------------------------------------
(***************************************************************************)
(* What holds from one step of a load to the next.                         *)
(***************************************************************************)

LEMMA LaterKeeps ==
  ASSUME NEW l, NEW m, NEW cache, NEW o, NEW lk, NEW p \in Plans,
         \A g \in Nat : Before(g, l) => Before(g, m),
         CacheShape(cache, p), Unused(cache, l), InUse(l, cache, o), LooksInv(l, cache, o, lk)
  PROVE  Unused(cache, m) /\ InUse(m, cache, o) /\ LooksInv(m, cache, o, lk)
<1>1. Unused(cache, m)
  <2>1. DOMAIN cache \subseteq Nat
    <3>1. Len(p) \in Nat
      BY PlansAssumption
    <3> QED BY <3>1 DEF CacheShape
  <2> QED BY <2>1 DEF Unused
<1>2. ASSUME NEW q, InUse(l, cache, q) PROVE InUse(m, cache, q)
  <2>1. q.gen \in Nat
    BY <1>2 DEF InUse, OptionsInv, OptionsShape
  <2> QED BY <1>2, <2>1 DEF InUse
<1>3. InUse(m, cache, o)
  BY <1>2
<1>4. LooksInv(m, cache, o, lk)
  BY <1>2 DEF LooksInv
<1> QED BY <1>1, <1>3, <1>4

LEMMA InitInv == Init => IInv
<1> SUFFICES ASSUME Init PROVE IInv
  OBVIOUS
<1>1. plan \in Plans /\ writes = 0 /\ opts = ZeroOptions /\ ld = Idle
      /\ look = [k \in Lookups |-> NoLookup]
      /\ handler = [m \in Maps |-> NoMap]
      /\ routeCache = [g \in 1 .. Len(plan) |-> [a \in Asked |-> None]]
  BY DEF Init
<1>2. OptionsInv(ZeroOptions) /\ ZeroOptions.gen = 0 /\ OptionsShape(ZeroOptions)
  BY ZeroInv DEF OptionsInv
<1>3. Idle.pc = "idle" /\ Idle.n = 0 /\ Idle.new = ZeroOptions
      /\ DOMAIN Idle = {"pc", "n", "new", "at"}
  BY DEF Idle
<1>4. Len(plan) \in Nat
  BY <1>1, PlansAssumption
<1>5. LoadShape(Idle, plan)
  BY <1>2, <1>3, <1>4 DEF LoadShape
<1>6. LoadInv(Idle, opts, files, writes)
  BY <1>3 DEF LoadInv
<1>7. CacheShape(routeCache, plan)
  BY <1>1 DEF CacheShape
<1>8. Unused(routeCache, Idle)
  BY <1>1 DEF Unused
<1>9. InUse(Idle, routeCache, ZeroOptions)
  BY <1>2, <1>3 DEF InUse, Before, CacheFits
<1>10. LooksInv(Idle, routeCache, ZeroOptions, look)
  <2>1. NoLookup.opts = ZeroOptions /\ NoLookup.pc = "none"
        /\ DOMAIN NoLookup = {"pc", "opts", "a", "ans"}
    BY DEF NoLookup
  <2>2. LookShape(NoLookup) /\ LookupFits(NoLookup)
    BY <2>1 DEF LookShape, LookupFits
  <2> QED BY <1>1, <1>9, <2>1, <2>2 DEF LooksInv, Shared
<1>11. HandlerInv(handler, Settled(Idle, ZeroOptions))
  <2>1. Settled(Idle, ZeroOptions) = ZeroOptions.conf
    BY <1>3 DEF Settled
  <2>2. ZeroOptions.conf.redirects = NoMap /\ ZeroOptions.conf.rwhosts = NoMap
    BY DEF ZeroOptions
  <2>3. DOMAIN handler = Maps /\ \A m \in Maps : handler[m] = NoMap
    BY <1>1
  <2>4. \A m \in Maps : ZeroOptions.conf[m] = NoMap
    BY <2>2 DEF Maps
  <2> QED BY <2>1, <2>3, <2>4 DEF HandlerInv
<1> QED BY <1>1, <1>5, <1>6, <1>7, <1>8, <1>9, <1>10, <1>11 DEF IInv

LEMMA WriteFileKeeps ==
  ASSUME IInv, NEW f, NEW c, WriteFile(f, c)
  PROVE  IInv'
<1>1. UNCHANGED <<plan, opts, ld, handler, routeCache, look>> /\ writes' = writes + 1
  BY DEF WriteFile
<1>2. writes \in Nat /\ LoadInv(ld, opts, files, writes) /\ LoadShape(ld, plan)
  BY DEF IInv
<1>3. ASSUME SumsInv(ld, files, writes) PROVE SumsInv(ld, files', writes')
  BY <1>1, <1>2, <1>3 DEF SumsInv
<1>4. LoadInv(ld, opts, files', writes')
  BY <1>2, <1>3 DEF LoadInv
<1> QED BY <1>1, <1>2, <1>4 DEF IInv

LEMMA LoadEventKeeps ==
  ASSUME IInv, LoadEvent
  PROVE  IInv'
<1>1. UNCHANGED <<plan, files, writes, opts, handler, routeCache, look>>
      /\ ld.pc = "idle" /\ ld.n < Len(plan)
      /\ ld' = [pc |-> "sums", n |-> ld.n + 1, at |-> <<>>,
                new |-> [opts EXCEPT !.conf = plan[ld.n + 1], !.sums = <<>>]]
  BY DEF LoadEvent
<1>2. plan \in Plans /\ LoadShape(ld, plan) /\ InUse(ld, routeCache, opts) /\ OptionsInv(opts)
  BY DEF IInv, InUse
<1>3. PICK m : m = ld'
  OBVIOUS
<1>4. PICK new : new = [opts EXCEPT !.conf = plan[ld.n + 1], !.sums = <<>>]
  OBVIOUS
<1>5. m.pc = "sums" /\ m.n = ld.n + 1 /\ m.at = <<>> /\ m.new = new
      /\ DOMAIN m = {"pc", "n", "new", "at"}
  BY <1>1, <1>3, <1>4
<1>6. OptionsShape(opts)
  BY <1>2 DEF OptionsInv
<1>7. new.conf = plan[ld.n + 1] /\ new.sums = <<>> /\ SameRoutes(new, opts) /\ new.lists = opts.lists
      /\ DOMAIN new = DOMAIN opts
  BY <1>4, <1>6 DEF OptionsShape, SameRoutes
<1>8. ld.n \in Nat /\ ld.n + 1 \in 1 .. Len(plan)
  <2>1. Len(plan) \in Nat
    BY <1>2, PlansAssumption
  <2> QED BY <1>1, <1>2, <2>1 DEF LoadShape
<1>9. ConfOf(new.conf)
  <2>1. plan \in Seq(Confs)
    BY <1>2, PlansAssumption
  <2>2. plan[ld.n + 1] \in Confs
    BY <1>8, <2>1
  <2> QED BY <1>7, <2>2 DEF ConfOf
<1>10. OptionsShape(new)
  BY <1>6, <1>7, <1>9, EmptyIsSequence DEF OptionsShape, SameRoutes
<1>11. LoadShape(m, plan)
  BY <1>5, <1>8, <1>10 DEF LoadShape
<1>12. SumsInv(m, files, writes)
  <2>1. Len(new.conf.routes) \in Nat
    BY <1>9, ConfShape, SequenceShape
  <2> QED BY <1>5, <1>7, <2>1, EmptyIsSequence DEF SumsInv
<1>13. LoadInv(m, opts, files, writes)
  BY <1>5, <1>7, <1>12 DEF LoadInv
<1>14. \A g \in Nat : Before(g, ld) => Before(g, m)
  BY <1>1, <1>5, <1>8 DEF Before
<1>15. Unused(routeCache, m) /\ InUse(m, routeCache, opts) /\ LooksInv(m, routeCache, opts, look)
  BY <1>14, LaterKeeps DEF IInv
<1>16. Settled(m, opts) = Settled(ld, opts)
  BY <1>1, <1>5 DEF Settled
<1> QED BY <1>1, <1>3, <1>11, <1>13, <1>15, <1>16 DEF IInv

LEMMA RoutesAre ==
  ASSUME IInv
  PROVE  IsSequence(Routes) /\ ConfOf(ld.new.conf) /\ OptionsShape(ld.new) /\ ld.n \in Nat
         /\ IsSequence(ld.new.sums) /\ IsSequence(ld.new.routes)
         /\ Len(ld.new.sums) \in Nat /\ Len(ld.new.routes) \in Nat /\ Len(Routes) \in Nat
<1>1. OptionsShape(ld.new) /\ plan \in Plans /\ LoadShape(ld, plan)
  BY DEF IInv, LoadShape
<1>2. IsSequence(ld.new.sums) /\ IsSequence(ld.new.routes) /\ ConfOf(ld.new.conf)
  BY <1>1 DEF OptionsShape
<1>3. IsSequence(Routes)
  BY <1>2, ConfShape DEF Routes
<1>4. ld.n \in Nat
  <2>1. Len(plan) \in Nat
    BY <1>1, PlansAssumption
  <2> QED BY <1>1, <2>1 DEF LoadShape
<1> QED BY <1>1, <1>2, <1>3, <1>4, SequenceShape

\* A step that only changes ld, within a load, needs no more than this.
LEMMA WithinLoad ==
  ASSUME IInv, UNCHANGED <<plan, files, writes, opts, handler, routeCache, look>>,
         ld'.n = ld.n, ld.pc # "idle", ld'.pc \notin {"idle", "send"}, ld.pc # "send",
         LoadShape(ld', plan), LoadInv(ld', opts, files, writes)
  PROVE  IInv'
<1>1. PICK m : m = ld'
  OBVIOUS
<1>2. \A g \in Nat : Before(g, ld) => Before(g, m)
  BY <1>1 DEF Before
<1>3. Unused(routeCache, m) /\ InUse(m, routeCache, opts) /\ LooksInv(m, routeCache, opts, look)
  BY <1>2, LaterKeeps DEF IInv
<1>4. Settled(m, opts) = Settled(ld, opts)
  BY <1>1 DEF Settled
<1> QED BY <1>1, <1>3, <1>4 DEF IInv

LEMMA LoadFailsKeeps ==
  ASSUME IInv, LoadFails, UNCHANGED <<plan, files, writes, handler, routeCache, look>>
  PROVE  IInv'
BY DEF IInv, LoadFails

LEMMA ChecksumKeeps ==
  ASSUME IInv, Checksum
  PROVE  IInv'
<1>1. PICK i : i = Len(ld.new.sums) + 1
  OBVIOUS
<1>2. PICK sum : sum = Lines(files, Routes[i].what)
  OBVIOUS
<1>3. ld.pc = "sums" /\ i <= Len(Routes)
      /\ UNCHANGED <<plan, files, writes, handler, routeCache, look>>
  BY <1>1 DEF Checksum
<1>4. CASE LoadFails
  BY <1>3, <1>4, LoadFailsKeeps
<1>5. CASE ~LoadFails
  <2>1. PICK entry : entry = [name |-> Name(Routes[i], i), sum |-> sum]
    OBVIOUS
  <2>2. entry.sum = sum
    BY <2>1
  <2>3. ld' = [ld EXCEPT !.new.sums = Append(@, entry), !.at = Append(@, writes)]
        /\ UNCHANGED opts
    BY <1>1, <1>2, <1>5, <2>1 DEF Checksum
  <2>4. PICK new : new = [ld.new EXCEPT !.sums = Append(@, entry)]
    OBVIOUS
  <2>5. DOMAIN ld = {"pc", "n", "new", "at"} /\ LoadShape(ld, plan) /\ writes \in Nat
    BY DEF IInv, LoadShape
  <2>6. PICK m : m = ld'
    OBVIOUS
  <2>7. m.pc = ld.pc /\ m.n = ld.n /\ m.new = new /\ m.at = Append(ld.at, writes)
        /\ DOMAIN m = DOMAIN ld
    BY <2>3, <2>4, <2>5, <2>6
  <2>8. OptionsShape(ld.new) /\ DOMAIN ld.new = {"conf", "sums", "routes", "lists", "gen"}
    BY RoutesAre DEF OptionsShape
  <2>9. new.sums = Append(ld.new.sums, entry) /\ new.conf = ld.new.conf /\ new.routes = ld.new.routes
        /\ new.lists = ld.new.lists /\ new.gen = ld.new.gen /\ DOMAIN new = DOMAIN ld.new
    BY <2>4, <2>8
  <2>10. IsSequence(new.sums) /\ Len(new.sums) = i /\ new.sums[i] = entry
         /\ (\A j \in 1 .. i - 1 : new.sums[j] = ld.new.sums[j]) /\ i \in Nat
    BY <1>1, <2>9, RoutesAre, AppendShape
  <2>11. OptionsShape(new)
    BY <2>8, <2>9, <2>10 DEF OptionsShape
  <2>12. SumsInv(ld, files, writes) /\ SameRoutes(ld.new, opts) /\ ld.new.lists = opts.lists
    BY <1>3 DEF IInv, LoadInv
  <2>13. ld.at \in Seq(Nat) /\ Len(ld.at) = i - 1
         /\ \A j \in 1 .. i - 1 :
               /\ ld.at[j] <= writes
               /\ ld.at[j] = writes => ld.new.sums[j].sum = Lines(files, ld.new.conf.routes[j].what)
    <3>1. ld.at \in Seq(Nat) /\ Len(ld.at) = Len(ld.new.sums) /\ Len(ld.new.sums) \in Nat
      BY <2>12, RoutesAre DEF SumsInv
    <3>2. i - 1 = Len(ld.at)
      BY <1>1, <3>1
    <3> QED BY <2>12, <3>1, <3>2 DEF SumsInv
  <2>14. SumsInv(m, files, writes)
    <3>1. m.at \in Seq(Nat) /\ Len(m.at) = i /\ m.at[i] = writes
          /\ \A j \in 1 .. i - 1 : m.at[j] = ld.at[j]
      BY <2>5, <2>7, <2>10, <2>13
    <3>2. m.new.sums[i].sum = Lines(files, m.new.conf.routes[i].what)
      BY <1>2, <2>2, <2>7, <2>9, <2>10 DEF Routes
    <3>3. \A j \in 1 .. i : j = i \/ j \in 1 .. i - 1
      BY <2>10
    <3>4. Len(m.new.sums) = i /\ i <= Len(m.new.conf.routes)
      BY <1>3, <2>7, <2>9, <2>10 DEF Routes
    <3>5. ASSUME NEW j \in 1 .. i
          PROVE  /\ m.at[j] <= writes
                 /\ m.at[j] = writes => m.new.sums[j].sum = Lines(files, m.new.conf.routes[j].what)
      <4>1. CASE j = i
        BY <2>5, <3>1, <3>2, <4>1
      <4>2. CASE j \in 1 .. i - 1
        BY <2>7, <2>9, <2>10, <2>13, <3>1, <4>2
      <4> QED BY <3>3, <4>1, <4>2
    <3> QED BY <3>1, <3>4, <3>5 DEF SumsInv
  <2>15. LoadInv(m, opts, files, writes)
    BY <1>3, <2>7, <2>9, <2>12, <2>14 DEF LoadInv, SameRoutes
  <2>16. LoadShape(m, plan)
    BY <2>5, <2>7, <2>11 DEF LoadShape
  <2> QED BY <1>3, <2>3, <2>6, <2>7, <2>15, <2>16, WithinLoad
<1> QED BY <1>4, <1>5

LEMMA CompareRoutesKeeps ==
  ASSUME IInv, CompareRoutes
  PROVE  IInv'
<1>1. ld.pc = "sums" /\ Len(ld.new.sums) = Len(Routes)
      /\ UNCHANGED <<plan, files, writes, opts, handler, routeCache, look>>
  BY DEF CompareRoutes
<1>2. DOMAIN ld = {"pc", "n", "new", "at"} /\ LoadShape(ld, plan) /\ OptionsInv(opts)
  BY DEF IInv, LoadShape, InUse
<1>3. SumsInv(ld, files, writes) /\ SameRoutes(ld.new, opts) /\ ld.new.lists = opts.lists
  BY <1>1 DEF IInv, LoadInv
<1>4. PICK m : m = ld'
  OBVIOUS
<1>5. OptionsShape(ld.new) /\ DOMAIN ld.new = {"conf", "sums", "routes", "lists", "gen"}
  BY RoutesAre DEF OptionsShape
<1>6. CASE routesEqual(ld.new, opts)
  <2>1. m = [ld EXCEPT !.pc = "handler"]
    BY <1>4, <1>6 DEF CompareRoutes
  <2>2. m.pc = "handler" /\ m.n = ld.n /\ m.new = ld.new /\ m.at = ld.at /\ DOMAIN m = DOMAIN ld
    BY <1>2, <2>1
  <2>3. ld.new.sums = opts.sums /\ ld.new.routes = opts.routes /\ ld.new.gen = opts.gen
        /\ Len(opts.sums) = Len(opts.routes) /\ Len(Routes) = Len(opts.routes)
    BY <1>1, <1>2, <1>3, <1>6 DEF routesEqual, SameRoutes, OptionsInv
  <2>4. DOMAIN Routes = 1 .. Len(opts.routes)
    BY <2>3, RoutesAre, SequenceShape
  <2>5. \A i \in 1 .. Len(opts.routes) : Routes[i].proxy = opts.conf.routes[i].proxy
    BY <1>6, <2>4 DEF routesEqual, Routes
  <2>6. Made(ld.new, Len(ld.new.routes))
    BY <1>2, <2>3, <2>5 DEF Made, OptionsInv, Routes
  <2>7. OptionsInv(ld.new)
    BY <1>1, <1>2, <1>3, <1>5, <2>3, <2>6 DEF OptionsInv, Routes
  <2>8. LoadInv(m, opts, files, writes)
    BY <1>3, <2>2, <2>7 DEF LoadInv
  <2>9. LoadShape(m, plan)
    BY <1>2, <1>1, <2>2 DEF LoadShape
  <2> QED BY <1>1, <1>4, <2>2, <2>8, <2>9, WithinLoad
<1>7. CASE ~routesEqual(ld.new, opts)
  <2>1. PICK empty : empty = [x \in {} |-> None]
    OBVIOUS
  <2>2. PICK g : g = IF Routes = <<>> THEN 0 ELSE ld.n
    OBVIOUS
  <2>3. PICK new : new = [ld.new EXCEPT !.routes = <<>>, !.lists = empty, !.gen = g]
    OBVIOUS
  <2>4. m = [ld EXCEPT !.pc = "lists", !.new.routes = <<>>, !.new.lists = empty, !.new.gen = g]
    BY <1>4, <1>7, <2>1, <2>2 DEF CompareRoutes
  <2>5. m.pc = "lists" /\ m.n = ld.n /\ m.new = new /\ m.at = ld.at /\ DOMAIN m = DOMAIN ld
    BY <1>2, <1>5, <2>3, <2>4
  <2>6. new.routes = <<>> /\ new.lists = empty /\ new.gen = g /\ new.sums = ld.new.sums
        /\ new.conf = ld.new.conf /\ DOMAIN new = DOMAIN ld.new
    BY <1>5, <2>3
  <2>7. OptionsShape(new)
    BY <1>5, <2>2, <2>6, RoutesAre, EmptyIsSequence DEF OptionsShape
  <2>8. ListsFit(new.lists) /\ Made(new, Len(new.routes)) /\ Len(new.routes) = 0
    BY <2>1, <2>6, EmptyIsSequence DEF ListsFit, Made
  <2>9. SumsInv(m, files, writes)
    BY <1>3, <2>5, <2>6 DEF SumsInv
  <2>10. Len(new.sums) = Len(new.conf.routes) /\ Len(new.routes) <= Len(new.conf.routes)
         /\ new.gen = IF new.conf.routes = <<>> THEN 0 ELSE ld.n
    BY <1>1, <2>2, <2>6, <2>8, RoutesAre DEF Routes
  <2>11. LoadInv(m, opts, files, writes)
    BY <2>5, <2>8, <2>9, <2>10 DEF LoadInv
  <2>12. LoadShape(m, plan)
    BY <1>1, <1>2, <2>5, <2>7 DEF LoadShape
  <2> QED BY <1>1, <1>4, <2>5, <2>11, <2>12, WithinLoad
<1> QED BY <1>6, <1>7

LEMMA InitRouteKeeps ==
  ASSUME IInv, InitRoute
  PROVE  IInv'
<1>1. PICK i : i = Len(ld.new.routes) + 1
  OBVIOUS
<1>2. PICK s : s = ld.new.sums[i]
  OBVIOUS
<1>3. PICK read : read = Lines(files, Routes[i].what)
  OBVIOUS
<1>4. PICK torn \in BOOLEAN : torn = (writes # ld.at[i])
  OBVIOUS
<1>5. PICK l : l = IF s.name \in DOMAIN opts.lists /\ opts.lists[s.name].sum = s.sum
                   THEN opts.lists[s.name]
                   ELSE [sum |-> s.sum, read |-> read, torn |-> torn]
  OBVIOUS
<1>6. ld.pc = "lists" /\ i <= Len(Routes)
      /\ UNCHANGED <<plan, files, writes, handler, routeCache, look>>
  BY <1>1 DEF InitRoute
<1>7. CASE LoadFails
  BY <1>6, <1>7, LoadFailsKeeps
<1>8. CASE ~LoadFails
  <2>1. PICK r : r = [list |-> l, proxy |-> Routes[i].proxy]
    OBVIOUS
  <2>2. r.list = l /\ r.proxy = Routes[i].proxy
    BY <2>1
  <2>3. ld' = [ld EXCEPT !.new.routes = Append(@, r), !.new.lists = Put(@, s.name, l)]
        /\ UNCHANGED opts
    BY <1>1, <1>2, <1>3, <1>4, <1>5, <1>8, <2>1 DEF InitRoute
  <2>4. PICK new : new = [ld.new EXCEPT !.routes = Append(@, r), !.lists = Put(@, s.name, l)]
    OBVIOUS
  <2>5. DOMAIN ld = {"pc", "n", "new", "at"} /\ LoadShape(ld, plan) /\ writes \in Nat
    BY DEF IInv, LoadShape
  <2>6. OptionsShape(ld.new) /\ DOMAIN ld.new = {"conf", "sums", "routes", "lists", "gen"}
    BY RoutesAre DEF OptionsShape
  <2>7. PICK m : m = ld'
    OBVIOUS
  <2>8. m.pc = ld.pc /\ m.n = ld.n /\ m.new = new /\ m.at = ld.at /\ DOMAIN m = DOMAIN ld
    BY <2>3, <2>4, <2>5, <2>6, <2>7
  <2>9. new.routes = Append(ld.new.routes, r) /\ new.lists = Put(ld.new.lists, s.name, l)
        /\ new.sums = ld.new.sums /\ new.conf = ld.new.conf /\ new.gen = ld.new.gen
        /\ DOMAIN new = DOMAIN ld.new
    BY <2>4, <2>6
  <2>10. IsSequence(new.routes) /\ Len(new.routes) = i /\ new.routes[i] = r
         /\ (\A j \in 1 .. i - 1 : new.routes[j] = ld.new.routes[j]) /\ i \in Nat
    BY <1>1, <2>9, RoutesAre, AppendShape
  <2>11. OptionsShape(new)
    BY <2>6, <2>9, <2>10 DEF OptionsShape
  <2>12. /\ SumsInv(ld, files, writes)
         /\ Len(ld.new.sums) = Len(ld.new.conf.routes)
         /\ Len(ld.new.routes) <= Len(ld.new.conf.routes)
         /\ Made(ld.new, Len(ld.new.routes))
         /\ ListsFit(ld.new.lists)
         /\ ld.new.gen = IF ld.new.conf.routes = <<>> THEN 0 ELSE ld.n
    BY <1>6 DEF IInv, LoadInv
  <2>13. ListFits(l) /\ l.sum = s.sum
    <3>1. CASE s.name \in DOMAIN opts.lists /\ opts.lists[s.name].sum = s.sum
      <4>1. ListsFit(opts.lists)
        BY DEF IInv, InUse, OptionsInv
      <4> QED BY <1>5, <3>1, <4>1 DEF ListsFit
    <3>2. CASE ~(s.name \in DOMAIN opts.lists /\ opts.lists[s.name].sum = s.sum)
      <4>1. l.sum = s.sum /\ l.read = read /\ l.torn = torn
        BY <1>5, <3>2
      <4>2. i \in 1 .. Len(ld.at)
        BY <1>1, <1>6, <2>10, <2>12, RoutesAre DEF SumsInv, Routes
      <4>3. ld.at[i] = writes => s.sum = read
        BY <1>2, <1>3, <2>12, <4>2 DEF SumsInv, Routes
      <4>4. ~torn => ld.at[i] = writes
        BY <1>4
      <4> QED BY <4>1, <4>3, <4>4 DEF ListFits
    <3> QED BY <3>1, <3>2
  <2>14. Made(new, i)
    <3>1. ASSUME NEW j \in 1 .. i
          PROVE  /\ new.routes[j].proxy = new.conf.routes[j].proxy
                 /\ new.routes[j].list.sum = new.sums[j].sum
                 /\ ListFits(new.routes[j].list)
      <4>1. CASE j = i
        BY <1>2, <2>2, <2>9, <2>10, <2>13, <4>1 DEF Routes
      <4>2. CASE j # i
        <5>1. j \in 1 .. i - 1 /\ j \in 1 .. Len(ld.new.routes)
          BY <1>1, <2>10, <4>2, RoutesAre
        <5> QED BY <2>9, <2>10, <2>12, <5>1 DEF Made
      <4> QED BY <4>1, <4>2
    <3> QED BY <3>1 DEF Made
  <2>15. ListsFit(new.lists)
    <3>1. \A x \in DOMAIN new.lists :
             new.lists[x] = l \/ (x \in DOMAIN ld.new.lists /\ new.lists[x] = ld.new.lists[x])
      BY <2>9 DEF Put
    <3> QED BY <2>12, <2>13, <3>1 DEF ListsFit
  <2>16. SumsInv(m, files, writes)
    BY <2>8, <2>9, <2>12 DEF SumsInv
  <2>17. i <= Len(new.conf.routes)
    BY <1>6, <2>9 DEF Routes
  <2>18. LoadInv(m, opts, files, writes)
    BY <1>6, <2>8, <2>9, <2>10, <2>12, <2>14, <2>15, <2>16, <2>17 DEF LoadInv
  <2>19. LoadShape(m, plan)
    BY <2>5, <2>8, <2>11 DEF LoadShape
  <2> QED BY <1>6, <2>3, <2>7, <2>8, <2>18, <2>19, WithinLoad
<1> QED BY <1>7, <1>8

LEMMA SetHandlerKeeps ==
  ASSUME IInv, SetHandler
  PROVE  IInv'
<1>1. UNCHANGED <<plan, files, writes, opts, routeCache, look>>
      /\ (ld.pc = "handler" \/ (ld.pc = "lists" /\ Len(ld.new.routes) = Len(Routes)))
      /\ handler' = [m \in DOMAIN handler |->
                       IF mapEqual(ld.new.conf[m], opts.conf[m]) THEN handler[m] ELSE ld.new.conf[m]]
      /\ ld' = [ld EXCEPT !.pc = "send"]
  BY DEF SetHandler
<1>2. DOMAIN ld = {"pc", "n", "new", "at"} /\ LoadShape(ld, plan) /\ OptionsInv(opts)
      /\ LoadInv(ld, opts, files, writes) /\ HandlerInv(handler, opts.conf)
  BY <1>1 DEF IInv, LoadShape, InUse, Settled
<1>3. PICK m : m = ld'
  OBVIOUS
<1>4. m.pc = "send" /\ m.n = ld.n /\ m.new = ld.new /\ m.at = ld.at /\ DOMAIN m = DOMAIN ld
  BY <1>1, <1>2, <1>3
<1>5. OptionsInv(ld.new) /\ (ld.new.gen \in {0, ld.n} \/ SameRoutes(ld.new, opts))
  <2>1. CASE ld.pc = "handler"
    BY <1>2, <2>1 DEF LoadInv
  <2>2. CASE ld.pc = "lists" /\ Len(ld.new.routes) = Len(Routes)
    <3>1. /\ Len(ld.new.sums) = Len(ld.new.conf.routes)
          /\ Made(ld.new, Len(ld.new.routes))
          /\ ListsFit(ld.new.lists)
          /\ ld.new.gen = IF ld.new.conf.routes = <<>> THEN 0 ELSE ld.n
      BY <1>2, <2>2 DEF LoadInv
    <3>2. ld.n > 0
      BY <1>2, <2>2 DEF LoadShape
    <3>3. ld.new.gen = 0 => ld.new.conf.routes = <<>>
      BY <3>1, <3>2
    <3>4. ld.new.conf.routes = <<>> => ld.new.routes = <<>>
      BY <2>2, RoutesAre, SequenceShape, EmptyIsSequence DEF Routes
    <3> QED BY <2>2, <3>1, <3>3, <3>4, RoutesAre DEF OptionsInv, Routes
  <2> QED BY <1>1, <2>1, <2>2
<1>6. LoadInv(m, opts, files, writes)
  BY <1>4, <1>5 DEF LoadInv
<1>7. LoadShape(m, plan)
  BY <1>1, <1>2, <1>4 DEF LoadShape
<1>8. \A g \in Nat : Before(g, ld) => Before(g, m)
  BY <1>1, <1>4 DEF Before
<1>9. Unused(routeCache, m) /\ InUse(m, routeCache, opts) /\ LooksInv(m, routeCache, opts, look)
  BY <1>8, LaterKeeps DEF IInv
<1>10. HandlerInv(handler', ld.new.conf)
  <2>1. DOMAIN handler = Maps /\ DOMAIN handler' = Maps
    BY <1>1, <1>2 DEF HandlerInv
  <2>2. ASSUME NEW x \in Maps, \A y \in DOMAIN ld.new.conf[x] : ld.new.conf[x][y] # ""
        PROVE  handler'[x] = ld.new.conf[x]
    <3>1. CASE mapEqual(ld.new.conf[x], opts.conf[x])
      <4>1. PICK a : a = ld.new.conf[x]
        OBVIOUS
      <4>2. PICK b : b = opts.conf[x]
        OBVIOUS
      <4>3. ConfOf(ld.new.conf) /\ ConfOf(opts.conf)
        BY <1>2, RoutesAre DEF OptionsInv, OptionsShape
      <4>4. a \in [DOMAIN a -> STRING] /\ IsFiniteSet(DOMAIN a)
        BY <4>1, <4>3, ConfShape
      <4>5. b \in [DOMAIN b -> STRING] /\ IsFiniteSet(DOMAIN b)
        BY <4>2, <4>3, ConfShape
      <4>6. PICK S : S = DOMAIN a
        OBVIOUS
      <4>7. PICK R : R = DOMAIN b
        OBVIOUS
      <4>8. PICK T : T = STRING
        OBVIOUS
      <4>9. a \in [S -> T] /\ b \in [R -> T] /\ IsFiniteSet(S) /\ IsFiniteSet(R)
        BY <4>4, <4>5, <4>6, <4>7, <4>8
      <4>10. (\A y \in S : a[y] # "") /\ mapEqual(a, b)
        BY <2>2, <3>1, <4>1, <4>2, <4>6
      <4>11. a = b
        BY <4>9, <4>10, MapsEqual
      <4>12. handler[x] = b
        BY <1>2, <2>2, <4>1, <4>2, <4>11 DEF HandlerInv
      <4> QED BY <1>1, <2>1, <3>1, <4>1, <4>11, <4>12
    <3>2. CASE ~mapEqual(ld.new.conf[x], opts.conf[x])
      BY <1>1, <2>1, <3>2
    <3> QED BY <3>1, <3>2
  <2> QED BY <2>1, <2>2 DEF HandlerInv
<1>11. Settled(m, opts) = ld.new.conf
  BY <1>4 DEF Settled
<1> QED BY <1>1, <1>3, <1>6, <1>7, <1>9, <1>10, <1>11 DEF IInv

LEMMA SendOptionsKeeps ==
  ASSUME IInv, SendOptions
  PROVE  IInv'
<1>1. UNCHANGED <<plan, files, writes, handler, routeCache, look>>
      /\ ld.pc = "send" /\ opts' = ld.new /\ ld' = [Idle EXCEPT !.n = ld.n]
  BY DEF SendOptions
<1>2. PICK new : new = ld.new
  OBVIOUS
<1>3. PICK m : m = ld'
  OBVIOUS
<1>4. m.pc = "idle" /\ m.n = ld.n /\ m.new = ZeroOptions /\ DOMAIN m = {"pc", "n", "new", "at"}
  BY <1>1, <1>3 DEF Idle
<1>5. OptionsInv(new) /\ (new.gen \in {0, ld.n} \/ SameRoutes(new, opts))
  BY <1>1, <1>2 DEF IInv, LoadInv
<1>6. plan \in Plans /\ LoadShape(ld, plan) /\ CacheShape(routeCache, plan)
      /\ Unused(routeCache, ld) /\ InUse(ld, routeCache, opts) /\ LooksInv(ld, routeCache, opts, look)
  BY DEF IInv
<1>7. ld.n \in 1 .. Len(plan) /\ ld.n \in Nat
  <2>1. Len(plan) \in Nat
    BY <1>6, PlansAssumption
  <2> QED BY <1>1, <1>6, <2>1 DEF LoadShape
<1>8. LoadShape(m, plan)
  BY <1>4, <1>6, ZeroInv DEF LoadShape, OptionsInv
<1>9. LoadInv(m, new, files, writes)
  BY <1>4 DEF LoadInv
<1>10. \A g \in Nat : Before(g, ld) => Before(g, m)
  BY <1>4 DEF Before
<1>11. Unused(routeCache, m) /\ LooksInv(m, routeCache, opts, look) /\ InUse(m, routeCache, opts)
  BY <1>6, <1>10, LaterKeeps
<1>12. Before(new.gen, m)
  <2>1. opts.gen <= ld.n
    BY <1>6 DEF InUse, Before
  <2> QED BY <1>4, <1>5, <1>7, <2>1 DEF Before, SameRoutes
<1>13. CacheFits(routeCache, new)
  <2>1. CASE new.gen = 0
    BY <2>1 DEF CacheFits
  <2>2. CASE new.gen = ld.n
    <3>1. ~Before(ld.n, ld) /\ ld.n \in DOMAIN routeCache
      BY <1>1, <1>6, <1>7 DEF Before, CacheShape
    <3> QED BY <1>6, <2>2, <3>1 DEF Unused, CacheFits
  <2>3. CASE SameRoutes(new, opts)
    BY <1>6, <2>3 DEF InUse, CacheFits, SameRoutes
  <2> QED BY <1>5, <2>1, <2>2, <2>3
<1>14. InUse(m, routeCache, new)
  BY <1>5, <1>12, <1>13 DEF InUse
<1>15. ASSUME NEW k \in Lookups PROVE Shared(look[k].opts, new)
  <2>1. InUse(ld, routeCache, look[k].opts) /\ Shared(look[k].opts, opts)
    BY <1>6 DEF LooksInv
  <2>2. CASE new.gen = 0
    BY <1>5, <2>1, <2>2 DEF Shared, InUse, OptionsInv
  <2>3. CASE new.gen = ld.n
    <3>1. look[k].opts.gen < ld.n /\ look[k].opts.gen \in Nat
      BY <1>1, <2>1 DEF InUse, Before, OptionsInv, OptionsShape
    <3> QED BY <1>7, <2>3, <3>1 DEF Shared
  <2>4. CASE SameRoutes(new, opts)
    BY <2>1, <2>4 DEF Shared, SameRoutes
  <2> QED BY <1>5, <2>2, <2>3, <2>4
<1>16. LooksInv(m, routeCache, new, look)
  BY <1>11, <1>15 DEF LooksInv
<1>17. Settled(m, new) = Settled(ld, opts)
  BY <1>1, <1>2, <1>4 DEF Settled
<1> QED BY <1>1, <1>2, <1>3, <1>8, <1>9, <1>11, <1>14, <1>16, <1>17 DEF IInv

-----------------------------------------------------------------------------
(***************************************************************************)
(* Lookups.                                                                *)
(***************************************************************************)

LEMMA TakeOptionsKeeps ==
  ASSUME IInv, NEW k \in Lookups, NEW a \in Asked, TakeOptions(k, a)
  PROVE  IInv'
<1>1. PICK e : e = [pc |-> "took", opts |-> opts, a |-> a, ans |-> None]
  OBVIOUS
<1>2. look' = [look EXCEPT ![k] = e]
      /\ UNCHANGED <<plan, files, writes, opts, ld, handler, routeCache>>
  BY <1>1 DEF TakeOptions
<1>3. LooksInv(ld, routeCache, opts, look) /\ InUse(ld, routeCache, opts)
  BY DEF IInv
<1>4. e.opts = opts /\ LookShape(e) /\ LookupFits(e)
  BY <1>1 DEF LookShape, LookupFits
<1>5. PICK lk : lk = look'
  OBVIOUS
<1>6. DOMAIN lk = Lookups /\ lk[k] = e /\ \A j \in Lookups : j # k => lk[j] = look[j]
  BY <1>2, <1>3, <1>5 DEF LooksInv
<1>7. \A j \in Lookups : Shared(look[j].opts, opts) /\ Shared(opts, look[j].opts)
  BY <1>3 DEF LooksInv, Shared
<1>8. Shared(opts, opts)
  BY DEF Shared
<1>9. LooksInv(ld, routeCache, opts, lk)
  <2>1. ASSUME NEW j \in Lookups
        PROVE  LookShape(lk[j]) /\ InUse(ld, routeCache, lk[j].opts) /\ Shared(lk[j].opts, opts)
               /\ LookupFits(lk[j])
    BY <1>3, <1>4, <1>6, <1>8 DEF LooksInv
  <2>2. ASSUME NEW i \in Lookups, NEW j \in Lookups
        PROVE  Shared(lk[i].opts, lk[j].opts)
    <3>1. CASE i = k
      BY <1>4, <1>6, <1>7, <1>8, <3>1
    <3>2. CASE i # k /\ j = k
      BY <1>4, <1>6, <1>7, <3>2
    <3>3. CASE i # k /\ j # k
      BY <1>3, <1>6, <3>3 DEF LooksInv
    <3> QED BY <3>1, <3>2, <3>3
  <2> QED BY <1>6, <2>1, <2>2 DEF LooksInv
<1> QED BY <1>2, <1>5, <1>9 DEF IInv

\* The route that is found is the first one, whether it was stored or not.
LEMMA RouteIsFirst ==
  ASSUME IInv, NEW o, NEW a \in Asked, InUse(ld, routeCache, o)
  PROVE  RouteOf(o, a) = FirstRoute(o.routes, a)
<1>1. OptionsInv(o) /\ CacheFits(routeCache, o)
  BY DEF InUse
<1>2. CASE o.gen = 0
  <2>1. RouteOf(o, a) = None
    BY <1>2 DEF RouteOf
  <2>2. DOMAIN o.routes = {}
    BY <1>1, <1>2 DEF OptionsInv
  <2>3. FirstRoute(o.routes, a) = None
    BY <1>1, <2>2, FirstRouteIs
  <2> QED BY <2>1, <2>3
<1>3. CASE o.gen # 0
  BY <1>1, <1>3 DEF RouteOf, CacheFits
<1> QED BY <1>2, <1>3

LEMMA FindRouteKeeps ==
  ASSUME IInv, NEW k \in Lookups, FindRoute(k)
  PROVE  IInv'
<1>1. PICK o : o = look[k].opts
  OBVIOUS
<1>2. PICK a : a = look[k].a
  OBVIOUS
<1>3. PICK proxy : proxy = RouteOf(o, a)
  OBVIOUS
<1>4. PICK ans : ans = IF proxy = None THEN o.conf.proxy ELSE proxy
  OBVIOUS
<1>5. /\ look[k].pc = "took"
      /\ look' = [look EXCEPT ![k].pc = "done", ![k].ans = ans]
      /\ routeCache' = IF proxy = None THEN routeCache ELSE [routeCache EXCEPT ![o.gen][a] = proxy]
      /\ UNCHANGED <<plan, files, writes, opts, ld, handler>>
  BY <1>1, <1>2, <1>3, <1>4 DEF FindRoute, Answer
<1>6. LooksInv(ld, routeCache, opts, look) /\ InUse(ld, routeCache, opts)
      /\ CacheShape(routeCache, plan) /\ Unused(routeCache, ld) /\ plan \in Plans
      /\ LoadShape(ld, plan)
  BY DEF IInv
<1>7. InUse(ld, routeCache, o) /\ LookShape(look[k]) /\ a \in Asked /\ OptionsInv(o)
  BY <1>1, <1>2, <1>5, <1>6 DEF LooksInv, LookShape, InUse
<1>8. proxy = FirstRoute(o.routes, a)
  BY <1>3, <1>7, RouteIsFirst
<1>9. PICK cache : cache = routeCache'
  OBVIOUS
<1>10. PICK lk : lk = look'
  OBVIOUS
<1>11. PICK e : e = lk[k]
  OBVIOUS
<1>12. e.pc = "done" /\ e.opts = o /\ e.a = a /\ e.ans = ans /\ DOMAIN e = {"pc", "opts", "a", "ans"}
  <2>1. DOMAIN look[k] = {"pc", "opts", "a", "ans"} /\ DOMAIN look = Lookups
    BY <1>6, <1>7 DEF LookShape, LooksInv
  <2> QED BY <1>1, <1>2, <1>5, <1>10, <1>11, <2>1
<1>13. DOMAIN lk = Lookups /\ \A j \in Lookups : j # k => lk[j] = look[j]
  BY <1>5, <1>6, <1>10 DEF LooksInv
<1>14. \A j \in Lookups : lk[j].opts = look[j].opts
  BY <1>1, <1>11, <1>12, <1>13
<1>15. LookShape(e) /\ LookupFits(e)
  <2>1. LookShape(e)
    BY <1>12 DEF LookShape
  <2>2. \/ /\ proxy = None
           /\ \A i \in DOMAIN o.routes : ~Allows(o.routes[i].list.read, a)
        \/ /\ proxy # None
           /\ \E i \in DOMAIN o.routes :
                 /\ proxy = o.conf.routes[i].proxy
                 /\ Allows(o.routes[i].list.read, a)
                 /\ \A j \in 1 .. i - 1 : ~Allows(o.routes[j].list.read, a)
    BY <1>7, <1>8, FirstRouteIs
  <2>3. LookupFits(e)
    BY <1>4, <1>12, <2>2 DEF LookupFits
  <2> QED BY <2>1, <2>3
<1>16. cache = routeCache \/ (o.gen # 0 /\ cache = [routeCache EXCEPT ![o.gen][a] = proxy])
  <2>1. o.gen = 0 => proxy = None
    BY <1>3 DEF RouteOf
  <2> QED BY <1>5, <1>9, <2>1
<1>17. o.gen # 0 => o.gen \in DOMAIN routeCache
  <2>1. o.gen \in Nat /\ o.gen <= ld.n /\ ld.n <= Len(plan) /\ ld.n \in Nat /\ Len(plan) \in Nat
    BY <1>6, <1>7, RoutesAre, PlansAssumption DEF InUse, Before, OptionsInv, OptionsShape, LoadShape
  <2> QED BY <1>6, <2>1 DEF CacheShape
<1>18. /\ DOMAIN cache = DOMAIN routeCache
       /\ \A g \in DOMAIN routeCache : DOMAIN cache[g] = DOMAIN routeCache[g]
       /\ \A g \in DOMAIN routeCache, b \in Asked :
             \/ cache[g][b] = routeCache[g][b]
             \/ g = o.gen /\ b = a /\ cache[g][b] = proxy
  BY <1>6, <1>7, <1>16, <1>17 DEF CacheShape
<1>19. CacheShape(cache, plan)
  BY <1>6, <1>18 DEF CacheShape
<1>20. Unused(cache, ld)
  BY <1>6, <1>7, <1>18 DEF Unused, InUse
<1>21. ASSUME NEW q, InUse(ld, routeCache, q), Shared(o, q)
       PROVE  InUse(ld, cache, q)
  <2>1. CacheFits(cache, q)
    <3> SUFFICES ASSUME q.gen # 0, NEW b \in Asked
                 PROVE  cache[q.gen][b] \in {None, FirstRoute(q.routes, b)}
      BY DEF CacheFits
    <3>1. routeCache[q.gen][b] \in {None, FirstRoute(q.routes, b)}
      BY <1>21 DEF InUse, CacheFits
    <3>2. q.gen \in DOMAIN routeCache
      <4>1. q.gen \in Nat /\ q.gen <= ld.n /\ ld.n <= Len(plan) /\ ld.n \in Nat /\ Len(plan) \in Nat
        BY <1>6, <1>21, RoutesAre, PlansAssumption
           DEF InUse, Before, OptionsInv, OptionsShape, LoadShape
      <4> QED BY <1>6, <4>1 DEF CacheShape
    <3>3. CASE cache[q.gen][b] = routeCache[q.gen][b]
      BY <3>1, <3>3
    <3>4. CASE q.gen = o.gen /\ b = a /\ cache[q.gen][b] = proxy
      <4>1. q.routes = o.routes
        BY <1>21, <3>4 DEF Shared
      <4> QED BY <1>8, <3>4, <4>1
    <3> QED BY <1>18, <3>2, <3>3, <3>4
  <2> QED BY <1>21, <2>1 DEF InUse
<1>22. InUse(ld, cache, opts)
  BY <1>1, <1>6, <1>21 DEF LooksInv
<1>23. \A j \in Lookups : InUse(ld, cache, look[j].opts)
  BY <1>1, <1>6, <1>21 DEF LooksInv
<1>24. \A j \in Lookups : LookShape(lk[j]) /\ LookupFits(lk[j])
  BY <1>6, <1>11, <1>13, <1>15 DEF LooksInv
<1>25. LooksInv(ld, cache, opts, lk)
  BY <1>6, <1>13, <1>14, <1>23, <1>24 DEF LooksInv
<1> QED BY <1>5, <1>9, <1>10, <1>19, <1>20, <1>22, <1>25 DEF IInv

-----------------------------------------------------------------------------
(***************************************************************************)
(* The theorem.                                                            *)
(***************************************************************************)

LEMMA NextKeeps == IInv /\ [Next]_vars => IInv'
<1> SUFFICES ASSUME IInv, [Next]_vars PROVE IInv'
  OBVIOUS
<1>1. CASE \E f \in DOMAIN Contents : \E c \in Contents[f] : WriteFile(f, c)
  BY <1>1, WriteFileKeeps
<1>2. CASE LoadEvent
  BY <1>2, LoadEventKeeps
<1>3. CASE RunReturns
  BY <1>3 DEF RunReturns, IInv
<1>4. CASE Checksum
  BY <1>4, ChecksumKeeps
<1>5. CASE CompareRoutes
  BY <1>5, CompareRoutesKeeps
<1>6. CASE InitRoute
  BY <1>6, InitRouteKeeps
<1>7. CASE SetHandler
  BY <1>7, SetHandlerKeeps
<1>8. CASE SendOptions
  BY <1>8, SendOptionsKeeps
<1>9. CASE \E k \in Lookups : FindRoute(k) \/ \E a \in Asked : TakeOptions(k, a)
  BY <1>9, FindRouteKeeps, TakeOptionsKeeps
<1>10. CASE UNCHANGED vars
  BY <1>10 DEF vars, IInv
<1> QED BY <1>1, <1>2, <1>3, <1>4, <1>5, <1>6, <1>7, <1>8, <1>9, <1>10 DEF Next

LEMMA OptionsFit ==
  ASSUME NEW o, OptionsInv(o)
  PROVE  RoutesFit(o)
<1>1. DOMAIN o.routes = 1 .. Len(o.routes)
  BY SequenceShape DEF OptionsInv, OptionsShape
<1> QED BY <1>1 DEF OptionsInv, Made, ListFits, RoutesFit

LEMMA InvFits == IInv => ReloadFits
<1> SUFFICES ASSUME IInv PROVE ReloadFits
  OBVIOUS
<1>1. RoutesFit(opts)
  BY OptionsFit DEF IInv, InUse
<1>2. \A k \in Lookups : RoutesFit(look[k].opts) /\ LookupFits(look[k])
  BY OptionsFit DEF IInv, LooksInv, InUse
<1>3. \A o \in {opts} \cup {look[k].opts : k \in Lookups} : RoutesFit(o)
  BY <1>1, <1>2
<1>4. ld.pc = "idle" => HandlerInv(handler, opts.conf)
  BY DEF IInv, Settled
<1> QED BY <1>2, <1>3, <1>4 DEF ReloadFits, HandlerInv

\* However files are written to, options reloaded and lookups interleaved: the
\* routes of the options in use, and of the options that a lookup still holds,
\* are those of their configuration; what getopts returns is the first route
\* that allows the address, although other lookups store routes in the same
\* cache and reloads keep or replace it; and the handler has the options' maps.
THEOREM ReloadsFit == Spec => []ReloadFits
<1>1. Spec => []IInv
  BY InitInv, NextKeeps, PTL DEF Spec
<1> QED BY <1>1, InvFits, PTL

-----------------------------------------------------------------------------
(***************************************************************************)
(* Ranges of addresses (RangeSet).                                         *)
(***************************************************************************)

\* Ranges that are not empty, in order, with a gap between any two.
Sorted(s) ==
    /\ s \in Seq(Nat \X Nat)
    /\ \A n \in DOMAIN s : s[n][1] < s[n][2]
    /\ \A m, n \in DOMAIN s : m < n => s[m][2] < s[n][1]

Covers(r, v) == r[1] <= v /\ v < r[2]

LEMMA SortedShape ==
  ASSUME NEW s, Sorted(s)
  PROVE  /\ Len(s) \in Nat /\ DOMAIN s = 1 .. Len(s)
         /\ \A n \in 1 .. Len(s) : s[n] \in Nat \X Nat /\ s[n][1] \in Nat /\ s[n][2] \in Nat
                                   /\ s[n][1] < s[n][2]
         /\ \A m, n \in 1 .. Len(s) : m < n => s[m][2] < s[n][1]
<1>1. PICK S : S = Nat \X Nat
  OBVIOUS
<1>2. s \in Seq(S)
  BY <1>1 DEF Sorted
<1>3. Len(s) \in Nat /\ DOMAIN s = 1 .. Len(s) /\ \A n \in 1 .. Len(s) : s[n] \in S
  BY <1>2
<1>4. \A r \in S : r[1] \in Nat /\ r[2] \in Nat
  BY <1>1
<1> QED BY <1>1, <1>3, <1>4 DEF Sorted

LEMMA TailFrom ==
  ASSUME NEW S, NEW s \in Seq(S), NEW off \in 0 .. Len(s)
  PROVE  /\ SubSeq(s, off + 1, Len(s)) \in Seq(S)
         /\ Len(SubSeq(s, off + 1, Len(s))) = Len(s) - off
         /\ \A n \in 1 .. Len(s) - off : SubSeq(s, off + 1, Len(s))[n] = s[off + n]
<1>1. PICK m \in Nat : m = off + 1
  OBVIOUS
<1>2. Len(s) \in Nat /\ \A i \in m .. Len(s) : s[i] \in S
  BY <1>1
<1>3. PICK t : t = SubSeq(s, m, Len(s))
  OBVIOUS
<1>4. t \in Seq(S) /\ Len(t) = (IF m <= Len(s) THEN Len(s) - m + 1 ELSE 0)
      /\ \A i \in 1 .. Len(s) - m + 1 : t[i] = s[m + i - 1]
  BY <1>1, <1>2, <1>3, SubSeqProperties
<1>5. Len(t) = Len(s) - off
  BY <1>1, <1>2, <1>4
<1>6. \A n \in 1 .. Len(s) - off : t[n] = s[off + n]
  <2> SUFFICES ASSUME NEW n \in 1 .. Len(s) - off PROVE t[n] = s[off + n]
    OBVIOUS
  <2>1. n \in 1 .. Len(s) - m + 1 /\ m + n - 1 = off + n
    BY <1>1, <1>2
  <2> QED BY <1>4, <2>1
<1> QED BY <1>1, <1>3, <1>4, <1>5, <1>6

\* The least index of a range that ends behind v, or one more than the last.
LEMMA SearchHigh ==
  ASSUME NEW s, Sorted(s), NEW v \in Nat, NEW off \in 0 .. Len(s)
  PROVE  \E j \in (off + 1) .. (Len(s) + 1) :
            /\ j - off = HighBehind(SubSeq(s, off + 1, Len(s)), v)
            /\ \A n \in (off + 1) .. (j - 1) : s[n][2] <= v
            /\ j <= Len(s) => s[j][2] > v
<1>1. Len(s) \in Nat /\ (\A n \in 1 .. Len(s) : s[n][2] \in Nat) /\ s \in Seq(Nat \X Nat)
  BY SortedShape DEF Sorted
<1>2. PICK t : t = SubSeq(s, off + 1, Len(s))
  OBVIOUS
<1>3. DOMAIN t = 1 .. Len(t) /\ Len(t) \in Nat /\ Len(t) = Len(s) - off
      /\ \A n \in 1 .. Len(t) : t[n] = s[off + n]
  <2>1. PICK S : S = Nat \X Nat
    OBVIOUS
  <2>2. s \in Seq(S)
    BY <1>1, <2>1
  <2>3. t \in Seq(S) /\ Len(t) = Len(s) - off /\ \A n \in 1 .. Len(s) - off : t[n] = s[off + n]
    BY <1>2, <2>2, TailFrom
  <2> QED BY <2>3
<1>4. PICK T : T = {n \in DOMAIN t : t[n][2] > v} \cup {Len(t) + 1}
  OBVIOUS
<1>5. T \in SUBSET Nat /\ Len(t) + 1 \in T
  BY <1>1, <1>3, <1>4
<1>6. PICK j : j = Min(T)
  OBVIOUS
<1>7. j \in T /\ \A n \in T : j <= n
  BY <1>5, <1>6, MinIsLeast
<1>8. j = HighBehind(t, v)
  BY <1>4, <1>6 DEF HighBehind, Search
<1>9. j \in 1 .. Len(t) + 1 /\ (j <= Len(t) => t[j][2] > v)
  BY <1>3, <1>4, <1>7
<1>10. \A n \in 1 .. j - 1 : ~(t[n][2] > v)
  BY <1>3, <1>4, <1>7, <1>9
<1>11. PICK k \in Nat : k = off + j
  BY <1>1, <1>9
<1>12. k \in (off + 1) .. (Len(s) + 1) /\ (k <= Len(s) => s[k][2] > v)
  <2>1. k \in (off + 1) .. (Len(s) + 1) /\ (k <= Len(s) => j \in 1 .. Len(t) /\ j <= Len(t))
    BY <1>1, <1>3, <1>9, <1>11
  <2> QED BY <1>3, <1>9, <1>11, <2>1
<1>13. \A n \in (off + 1) .. (k - 1) : s[n][2] <= v
  <2> SUFFICES ASSUME NEW n \in (off + 1) .. (k - 1) PROVE s[n][2] <= v
    OBVIOUS
  <2>1. PICK q \in Int : q = n - off
    OBVIOUS
  <2>2. q \in 1 .. j - 1 /\ q \in 1 .. Len(t) /\ off + q = n /\ n \in 1 .. Len(s)
    BY <1>1, <1>3, <1>9, <1>11, <2>1
  <2>3. t[q] = s[n] /\ ~(t[q][2] > v)
    BY <1>3, <1>10, <2>2
  <2> QED BY <1>1, <2>2, <2>3
<1>14. k - off = j
  BY <1>9, <1>11
<1> QED BY <1>2, <1>8, <1>12, <1>13, <1>14

\* The least index of a range that begins behind v, or one more than the last.
LEMMA SearchLow ==
  ASSUME NEW s, Sorted(s), NEW v \in Nat
  PROVE  \E i \in 1 .. (Len(s) + 1) :
            /\ i = LowBehind(s, v)
            /\ \A n \in 1 .. (i - 1) : s[n][1] <= v
            /\ i <= Len(s) => s[i][1] > v
<1>1. Len(s) \in Nat /\ DOMAIN s = 1 .. Len(s) /\ \A n \in 1 .. Len(s) : s[n][1] \in Nat
  BY SortedShape
<1>2. PICK T : T = {n \in DOMAIN s : s[n][1] > v} \cup {Len(s) + 1}
  OBVIOUS
<1>3. T \in SUBSET Nat /\ Len(s) + 1 \in T
  BY <1>1, <1>2
<1>4. PICK i : i = Min(T)
  OBVIOUS
<1>5. i \in T /\ \A n \in T : i <= n
  BY <1>3, <1>4, MinIsLeast
<1>6. i = LowBehind(s, v)
  BY <1>2, <1>4 DEF LowBehind, Search
<1>7. i \in 1 .. Len(s) + 1 /\ (i <= Len(s) => s[i][1] > v)
  BY <1>1, <1>2, <1>5
<1>8. \A n \in 1 .. i - 1 : s[n][1] <= v
  BY <1>1, <1>2, <1>5, <1>7
<1> QED BY <1>6, <1>7, <1>8

LEMMA HasAddrIs ==
  ASSUME NEW s, Sorted(s), NEW v \in Nat
  PROVE  HasAddr(s, v) <=> \E n \in 1 .. Len(s) : Covers(s[n], v)
<1>1. Len(s) \in Nat
      /\ (\A n \in 1 .. Len(s) : s[n][1] \in Nat /\ s[n][2] \in Nat /\ s[n][1] < s[n][2])
      /\ \A m, n \in 1 .. Len(s) : m < n => s[m][2] < s[n][1]
  BY SortedShape
<1>2. PICK off \in 0 .. Len(s) : off = 0
  BY <1>1
<1>3. SubSeq(s, off + 1, Len(s)) = s
  <2>1. PICK S : S = Nat \X Nat
    OBVIOUS
  <2>2. s \in Seq(S)
    BY <2>1 DEF Sorted
  <2>3. PICK t : t = SubSeq(s, off + 1, Len(s))
    OBVIOUS
  <2>4. t \in Seq(S) /\ Len(t) = Len(s) - off /\ \A n \in 1 .. Len(s) - off : t[n] = s[off + n]
    BY <2>2, <2>3, TailFrom
  <2>5. Len(t) = Len(s) /\ \A n \in 1 .. Len(s) : t[n] = s[n]
    BY <1>1, <1>2, <2>4
  <2> QED BY <2>2, <2>3, <2>4, <2>5, SeqEqual
<1>4. PICK j \in (off + 1) .. (Len(s) + 1) :
         /\ j - off = HighBehind(SubSeq(s, off + 1, Len(s)), v)
         /\ \A n \in (off + 1) .. (j - 1) : s[n][2] <= v
         /\ j <= Len(s) => s[j][2] > v
  BY SearchHigh
<1>5. j \in 1 .. (Len(s) + 1) /\ (\A n \in 1 .. (j - 1) : s[n][2] <= v)
      /\ (j <= Len(s) => s[j][2] > v)
  BY <1>1, <1>2, <1>4
<1>6. j = HighBehind(s, v)
  <2>1. j - off = HighBehind(s, v)
    BY <1>3, <1>4
  <2>2. j - off = j
    BY <1>2, <1>5
  <2> QED BY <2>1, <2>2
<1>7. HasAddr(s, v) <=> (j <= Len(s) /\ s[j][1] <= v)
  BY <1>6 DEF HasAddr, RangeHas
<1>8. ASSUME NEW n \in 1 .. Len(s), Covers(s[n], v) PROVE j <= Len(s) /\ s[j][1] <= v
  <2>1. s[n][2] \in Nat /\ v < s[n][2] /\ s[n][1] <= v
    BY <1>1, <1>8 DEF Covers
  <2>2. ~(n \in 1 .. (j - 1))
    BY <1>5, <2>1
  <2>3. j \in 1 .. Len(s) /\ (j = n \/ j < n)
    BY <1>1, <1>5, <2>2
  <2>4. s[j][1] \in Nat /\ s[j][2] \in Nat /\ s[j][1] < s[j][2]
        /\ s[n][1] \in Nat /\ (j < n => s[j][2] < s[n][1])
    BY <1>1, <2>3
  <2> QED BY <2>1, <2>3, <2>4
<1>9. ASSUME j <= Len(s), s[j][1] <= v PROVE \E n \in 1 .. Len(s) : Covers(s[n], v)
  BY <1>1, <1>5, <1>9 DEF Covers
<1> QED BY <1>7, <1>8, <1>9

\* A range that comes in the place of the ones from from on and before to.
Spliced(s, new, from, to) == SubSeq(s, 1, from - 1) \o <<new>> \o SubSeq(s, to, Len(s))

SplicedInto(t, s, new, from, to) ==
    \A r : (\E n \in 1 .. Len(t) : t[n] = r) <=>
              \/ r = new
              \/ \E n \in 1 .. Len(s) : (n < from \/ n >= to) /\ s[n] = r

LEMMA Replaced ==
  ASSUME NEW s, Sorted(s), NEW lo \in Nat, NEW hi \in Nat, lo < hi,
         NEW from \in 1 .. Len(s) + 1, NEW to \in from .. Len(s) + 1,
         \A n \in 1 .. from - 1 : s[n][2] < lo,
         \A n \in to .. Len(s) : hi < s[n][1],
         NEW t, t = Spliced(s, <<lo, hi>>, from, to)
  PROVE  Sorted(t) /\ SplicedInto(t, s, <<lo, hi>>, from, to)
<1>1. Len(s) \in Nat /\ (\A n \in 1 .. Len(s) : s[n] \in Nat \X Nat /\ s[n][1] \in Nat /\ s[n][2] \in Nat
                                                /\ s[n][1] < s[n][2])
      /\ \A m, n \in 1 .. Len(s) : m < n => s[m][2] < s[n][1]
  BY SortedShape
<1>b. from \in Nat /\ to \in Nat /\ 1 <= from /\ from <= to /\ to <= Len(s) + 1
  BY <1>1
<1>2. PICK S : S = Nat \X Nat
  OBVIOUS
<1>3. PICK new : new = <<lo, hi>>
  OBVIOUS
<1>4. new \in S /\ new[1] = lo /\ new[2] = hi /\ \A n \in 1 .. Len(s) : s[n] \in S
  BY <1>b, <1>1, <1>2, <1>3
<1>5. PICK a : a = SubSeq(s, 1, from - 1)
  OBVIOUS
<1>6. a \in Seq(S) /\ Len(a) = from - 1 /\ \A n \in 1 .. from - 1 : a[n] = s[n]
  <2>1. PICK m \in Int : m = from - 1
    OBVIOUS
  <2>2. \A n \in 1 .. m : s[n] \in S
    BY <1>b, <1>1, <1>4, <2>1
  <2>3. SubSeq(s, 1, m) \in Seq(S) /\ Len(SubSeq(s, 1, m)) = (IF 1 <= m THEN m - 1 + 1 ELSE 0)
        /\ \A n \in 1 .. m - 1 + 1 : SubSeq(s, 1, m)[n] = s[1 + n - 1]
    BY <2>2, SubSeqProperties
  <2>4. a = SubSeq(s, 1, m)
    BY <1>5, <2>1
  <2>5. Len(a) = from - 1
    BY <1>b, <2>1, <2>3, <2>4
  <2>6. \A n \in 1 .. from - 1 : a[n] = s[n]
    BY <1>b, <2>1, <2>3, <2>4
  <2> QED BY <2>3, <2>4, <2>5, <2>6
<1>7. PICK b : b = SubSeq(s, to, Len(s))
  OBVIOUS
<1>8. b \in Seq(S) /\ Len(b) = Len(s) - to + 1 /\ \A n \in 1 .. Len(s) - to + 1 : b[n] = s[to + n - 1]
  <2>1. \A n \in to .. Len(s) : s[n] \in S
    BY <1>b, <1>1, <1>4
  <2>2. to \in Int /\ Len(s) \in Int
    BY <1>b, <1>1
  <2>3. b \in Seq(S) /\ Len(b) = (IF to <= Len(s) THEN Len(s) - to + 1 ELSE 0)
        /\ \A n \in 1 .. Len(s) - to + 1 : b[n] = s[to + n - 1]
    BY <1>7, <2>1, <2>2, SubSeqProperties
  <2> QED BY <1>b, <1>1, <2>3
<1>9. PICK c : c = <<new>>
  OBVIOUS
<1>10. c \in Seq(S) /\ Len(c) = 1 /\ c[1] = new
  BY <1>4, <1>9
<1>11. PICK ac : ac = a \o c
  OBVIOUS
<1>12. ac \in Seq(S) /\ Len(ac) = from /\ ac[from] = new /\ \A n \in 1 .. from - 1 : ac[n] = s[n]
  <2>1. ac \in Seq(S) /\ Len(ac) = Len(a) + Len(c)
        /\ \A n \in 1 .. Len(a) + Len(c) : ac[n] = IF n <= Len(a) THEN a[n] ELSE c[n - Len(a)]
    BY <1>6, <1>10, <1>11, ConcatProperties
  <2>2. Len(ac) = from
    BY <1>6, <1>10, <2>1
  <2>3. ac[from] = new
    <3>1. from \in 1 .. Len(a) + Len(c) /\ ~(from <= Len(a)) /\ from - Len(a) = 1
      BY <1>b, <1>6, <1>10
    <3>2. ac[from] = c[from - Len(a)]
      BY <2>1, <3>1
    <3> QED BY <1>10, <3>1, <3>2
  <2>4. ASSUME NEW n \in 1 .. from - 1 PROVE ac[n] = s[n]
    <3>1. n \in 1 .. Len(a) + Len(c) /\ n <= Len(a)
      BY <1>b, <1>6, <1>10
    <3> QED BY <1>6, <2>1, <3>1
  <2> QED BY <2>1, <2>2, <2>3, <2>4
<1>13. t = ac \o b
  BY <1>3, <1>5, <1>7, <1>9, <1>11 DEF Spliced
<1>14. t \in Seq(S) /\ Len(t) = from + Len(b)
       /\ \A n \in 1 .. from + Len(b) : t[n] = IF n <= from THEN ac[n] ELSE b[n - from]
  <2>1. t \in Seq(S) /\ Len(t) = Len(ac) + Len(b)
        /\ \A n \in 1 .. Len(ac) + Len(b) : t[n] = IF n <= Len(ac) THEN ac[n] ELSE b[n - Len(ac)]
    <3>1. ac \in Seq(S) /\ b \in Seq(S)
      BY <1>8, <1>12
    <3> QED BY <1>13, <3>1, ConcatProperties
  <2> QED BY <1>b, <1>12, <2>1
<1>15. PICK d \in Int : d = to - from - 1
  OBVIOUS
<1>16. Len(t) = Len(s) - d /\ Len(t) \in Nat /\ from <= Len(t)
  BY <1>b, <1>1, <1>8, <1>14, <1>15
<1>17. t[from] = new
  <2>1. from \in 1 .. from + Len(b) /\ from <= from
    BY <1>b, <1>1, <1>8
  <2> QED BY <1>12, <1>14, <2>1
<1>18. ASSUME NEW n \in 1 .. from - 1 PROVE t[n] = s[n]
  <2>1. n \in 1 .. from + Len(b) /\ n <= from
    BY <1>b, <1>1, <1>8
  <2> QED BY <1>12, <1>14, <2>1
<1>19. ASSUME NEW n \in (from + 1) .. Len(t) PROVE t[n] = s[n + d] /\ n + d \in to .. Len(s)
  <2>1. PICK q \in Int : q = n - from
    OBVIOUS
  <2>2. q \in 1 .. Len(s) - to + 1 /\ to + q - 1 = n + d /\ n \in 1 .. from + Len(b) /\ ~(n <= from)
        /\ n + d \in to .. Len(s)
    BY <1>b, <1>1, <1>8, <1>14, <1>15, <1>16, <2>1
  <2>3. t[n] = b[q]
    BY <1>14, <2>1, <2>2
  <2>4. b[q] = s[to + q - 1]
    BY <1>8, <2>2
  <2> QED BY <2>2, <2>3, <2>4
<1>20. \A n \in 1 .. Len(t) : n \in 1 .. from - 1 \/ n = from \/ n \in (from + 1) .. Len(t)
  BY <1>b, <1>16
<1>21. \A n \in to .. Len(s) : \E m \in (from + 1) .. Len(t) : m + d = n
  <2> SUFFICES ASSUME NEW n \in to .. Len(s) PROVE \E m \in (from + 1) .. Len(t) : m + d = n
    OBVIOUS
  <2>1. PICK m \in Int : m = n - d
    BY <1>b, <1>1
  <2>2. m \in (from + 1) .. Len(t) /\ m + d = n
    BY <1>b, <1>1, <1>15, <1>16, <2>1
  <2> QED BY <2>2
<1>22. Sorted(t)
  <2>1. ASSUME NEW n \in 1 .. Len(t) PROVE t[n][1] < t[n][2]
    <3>1. CASE n \in 1 .. from - 1
      BY <1>b, <1>1, <1>18, <3>1
    <3>2. CASE n = from
      BY <1>4, <1>17, <3>2
    <3>3. CASE n \in (from + 1) .. Len(t)
      <4>1. t[n] = s[n + d] /\ n + d \in 1 .. Len(s)
        BY <1>b, <1>1, <1>19, <3>3
      <4> QED BY <1>b, <1>1, <4>1
    <3> QED BY <1>20, <3>1, <3>2, <3>3
  <2>2. ASSUME NEW m \in 1 .. Len(t), NEW n \in 1 .. Len(t), m < n PROVE t[m][2] < t[n][1]
    <3>1. CASE n \in 1 .. from - 1
      <4>1. m \in 1 .. from - 1 /\ m \in 1 .. Len(s) /\ n \in 1 .. Len(s)
        BY <1>b, <1>1, <2>2, <3>1
      <4> QED BY <1>b, <1>1, <1>18, <2>2, <3>1, <4>1
    <3>2. CASE n = from
      <4>1. m \in 1 .. from - 1
        BY <1>b, <2>2, <3>2
      <4> QED BY <1>4, <1>17, <1>18, <3>2, <4>1
    <3>3. CASE n \in (from + 1) .. Len(t)
      <4>1. t[n] = s[n + d] /\ n + d \in to .. Len(s) /\ n + d \in 1 .. Len(s)
        BY <1>b, <1>1, <1>19, <3>3
      <4>2. CASE m \in 1 .. from - 1
        <5>1. m \in 1 .. Len(s) /\ m < n + d
          BY <1>b, <1>1, <4>1, <4>2
        <5> QED BY <1>b, <1>1, <1>18, <4>1, <4>2, <5>1
      <4>3. CASE m = from
        BY <1>4, <1>17, <4>1, <4>3
      <4>4. CASE m \in (from + 1) .. Len(t)
        <5>1. t[m] = s[m + d] /\ m + d \in 1 .. Len(s) /\ m + d < n + d
          <6>1. t[m] = s[m + d] /\ m + d \in to .. Len(s)
            BY <1>19, <4>4
          <6>2. m + d < n + d /\ \A x \in to .. Len(s) : x \in 1 .. Len(s)
            BY <1>b, <1>1, <1>15, <1>16, <2>2
          <6> QED BY <6>1, <6>2
        <5> QED BY <1>b, <1>1, <4>1, <5>1
      <4> QED BY <1>20, <4>2, <4>3, <4>4
    <3> QED BY <1>20, <3>1, <3>2, <3>3
  <2>3. DOMAIN t = 1 .. Len(t)
    BY <1>14
  <2> QED BY <1>2, <1>14, <2>1, <2>2, <2>3 DEF Sorted
<1>23. ASSUME NEW r
       PROVE  (\E n \in 1 .. Len(t) : t[n] = r) <=>
                 r = new \/ \E n \in 1 .. Len(s) : (n < from \/ n >= to) /\ s[n] = r
  <2>1. ASSUME NEW n \in 1 .. Len(t), t[n] = r
        PROVE  r = new \/ \E m \in 1 .. Len(s) : (m < from \/ m >= to) /\ s[m] = r
    <3>1. CASE n \in 1 .. from - 1
      <4>1. n \in 1 .. Len(s) /\ n < from
        BY <1>b, <1>1, <3>1
      <4>2. s[n] = r
        BY <1>18, <2>1, <3>1
      <4> QED BY <4>1, <4>2
    <3>2. CASE n = from
      BY <1>17, <2>1, <3>2
    <3>3. CASE n \in (from + 1) .. Len(t)
      <4>1. PICK m \in Int : m = n + d
        OBVIOUS
      <4>2. t[n] = s[m] /\ m \in 1 .. Len(s) /\ m >= to
        <5>1. t[n] = s[n + d] /\ n + d \in to .. Len(s)
          BY <1>19, <3>3
        <5>2. t[n] = s[m] /\ m \in to .. Len(s)
          BY <4>1, <5>1
        <5> QED BY <1>b, <1>1, <5>2
      <4> QED BY <2>1, <4>2
    <3> QED BY <1>20, <3>1, <3>2, <3>3
  <2>2. ASSUME r = new PROVE \E n \in 1 .. Len(t) : t[n] = r
    BY <1>b, <1>16, <1>17, <2>2
  <2>3. ASSUME NEW m \in 1 .. Len(s), m < from \/ m >= to, s[m] = r
        PROVE  \E n \in 1 .. Len(t) : t[n] = r
    <3>1. CASE m < from
      <4>1. m \in 1 .. from - 1 /\ m \in 1 .. Len(t)
        BY <1>b, <1>16, <3>1
      <4> QED BY <1>18, <2>3, <4>1
    <3>2. CASE m >= to
      <4>1. m \in to .. Len(s)
        BY <1>b, <1>1, <3>2
      <4>2. PICK n \in (from + 1) .. Len(t) : n + d = m
        BY <1>21, <4>1
      <4>3. n \in 1 .. Len(t) /\ t[n] = s[m]
        BY <1>b, <1>16, <1>19, <4>2
      <4> QED BY <2>3, <4>3
    <3> QED BY <2>3, <3>1, <3>2
  <2> QED BY <2>1, <2>2, <2>3
<1>24. SplicedInto(t, s, new, from, to)
  BY <1>23 DEF SplicedInto
<1> QED BY <1>3, <1>22, <1>24

\* Adding a range to ranges that are sorted and apart leaves them sorted and
\* apart, and an address is found then if it was before or is in the range.
\* What AddRange does with its two searches, with ranges that touch and with
\* those it swallows, and the search of Contains, which reads one range only.
THEOREM AddRangeExact ==
  ASSUME NEW s, Sorted(s), NEW lo \in Nat, NEW hi \in Nat
  PROVE  /\ Sorted(AddRange(s, lo, hi))
         /\ \A v \in Nat : HasAddr(AddRange(s, lo, hi), v) <=> HasAddr(s, v) \/ (lo <= v /\ v < hi)
<1>1. Len(s) \in Nat
      /\ (\A n \in 1 .. Len(s) : s[n][1] \in Nat /\ s[n][2] \in Nat /\ s[n][1] < s[n][2])
      /\ \A m, n \in 1 .. Len(s) : m < n => s[m][2] < s[n][1]
  BY SortedShape
<1>2. PICK i \in 1 .. (Len(s) + 1) :
         /\ i = LowBehind(s, lo)
         /\ \A n \in 1 .. (i - 1) : s[n][1] <= lo
         /\ i <= Len(s) => s[i][1] > lo
  BY SearchLow
<1>3. PICK off \in 0 .. Len(s) : off = IF i > 1 THEN i - 2 ELSE 0
  BY <1>1, <1>2
<1>4. PICK j \in (off + 1) .. (Len(s) + 1) :
         /\ j - off = HighBehind(SubSeq(s, off + 1, Len(s)), hi)
         /\ \A n \in (off + 1) .. (j - 1) : s[n][2] <= hi
         /\ j <= Len(s) => s[j][2] > hi
  BY SearchHigh
<1>5. PICK t : t = AddRange(s, lo, hi)
  OBVIOUS
<1>6. t = Replace(s, lo, hi, i, j)
  <2>1. PICK x : x = HighBehind(SubSeq(s, off + 1, Len(s)), hi)
    OBVIOUS
  <2>2. off + x = j
    BY <1>1, <1>4, <2>1
  <2>3. t = AddFrom(s, lo, hi, i)
    BY <1>2, <1>5 DEF AddRange
  <2>4. AddFrom(s, lo, hi, i) = Replace(s, lo, hi, i, off + x)
    BY <1>3, <2>1 DEF AddFrom
  <2> QED BY <2>2, <2>3, <2>4
<1>7. i \in Nat /\ j \in Nat /\ off \in Nat /\ 1 <= i /\ i <= Len(s) + 1 /\ j <= Len(s) + 1
      /\ j >= off + 1 /\ (i > 1 => off = i - 2) /\ (i = 1 => off = 0)
  BY <1>1, <1>2, <1>3, <1>4
\* What the searches have found, for all ranges.
<1>8. \A n \in 1 .. Len(s) : n >= i => s[n][1] > lo
  <2> SUFFICES ASSUME NEW n \in 1 .. Len(s), n >= i PROVE s[n][1] > lo
    OBVIOUS
  <2>1. i \in 1 .. Len(s) /\ s[i][1] > lo
    BY <1>1, <1>2, <1>7
  <2>2. n = i \/ i < n
    BY <1>7
  <2>3. i < n => s[i][1] < s[i][2] /\ s[i][2] < s[n][1] /\ s[i][1] \in Nat /\ s[i][2] \in Nat
                 /\ s[n][1] \in Nat
    BY <1>1, <2>1
  <2> QED BY <2>1, <2>2, <2>3
<1>9. \A n \in 1 .. Len(s) : n >= j => s[n][2] > hi
  <2> SUFFICES ASSUME NEW n \in 1 .. Len(s), n >= j PROVE s[n][2] > hi
    OBVIOUS
  <2>1. j \in 1 .. Len(s) /\ s[j][2] > hi
    BY <1>1, <1>4, <1>7
  <2>2. n = j \/ j < n
    BY <1>7
  <2>3. j < n => s[n][1] < s[n][2] /\ s[j][2] < s[n][1] /\ s[n][2] \in Nat /\ s[j][2] \in Nat
                 /\ s[n][1] \in Nat
    BY <1>1, <2>1
  <2> QED BY <2>1, <2>2, <2>3
<1>10. \A n \in 1 .. Len(s) : n < i => s[n][1] <= lo
  BY <1>1, <1>2, <1>7
<1>11. \A n \in 1 .. Len(s) : n >= i - 1 /\ n < j => s[n][2] <= hi
  BY <1>1, <1>4, <1>7
<1>12. CASE i > j
  <2>1. t = s
    BY <1>6, <1>12 DEF Replace
  <2>2. j = i - 1 /\ j \in 1 .. Len(s)
    BY <1>1, <1>7, <1>12
  <2>3. s[j][1] <= lo /\ s[j][2] > hi /\ s[j][1] \in Nat /\ s[j][2] \in Nat
    BY <1>1, <1>7, <1>9, <1>10, <2>2
  <2>4. ASSUME NEW v \in Nat, lo <= v, v < hi PROVE HasAddr(s, v)
    <3>1. Covers(s[j], v)
      BY <2>3, <2>4 DEF Covers
    <3> QED BY <2>2, <3>1, HasAddrIs
  <2> QED BY <1>5, <2>1, <2>4
<1>13. CASE i <= j
  <2>1. PICK left \in BOOLEAN : left = (i > 1 /\ s[i - 1][2] >= lo)
    OBVIOUS
  <2>2. PICK right \in BOOLEAN : right = (j <= Len(s) /\ s[j][1] <= hi)
    OBVIOUS
  <2>l. (left => i > 1 /\ s[i - 1][2] >= lo) /\ (~left /\ i > 1 => ~(s[i - 1][2] >= lo))
    BY <2>1, Zenon
  <2>r. (right => j <= Len(s) /\ s[j][1] <= hi) /\ (~right /\ j <= Len(s) => ~(s[j][1] <= hi))
    BY <2>2, Zenon
  <2>3. PICK from : from = IF left THEN i - 1 ELSE i
    OBVIOUS
  <2>4. PICK to : to = IF right THEN j + 1 ELSE j
    OBVIOUS
  <2>5. PICK x : x = IF left THEN s[i - 1][1] ELSE lo
    OBVIOUS
  <2>6. PICK y : y = IF right THEN s[j][2] ELSE hi
    OBVIOUS
  <2>7. t = IF from = to /\ x >= y THEN s ELSE Spliced(s, <<x, y>>, from, to)
    <3>1. PICK new : new = <<x, y>>
      OBVIOUS
    <3>2. new[1] = x /\ new[2] = y
      BY <3>1
    <3>3. ~(i > j)
      BY <1>7, <1>13
    <3>4. t = IF i > j \/ (from = to /\ new[1] >= new[2]) THEN s
              ELSE SubSeq(s, 1, from - 1) \o <<new>> \o SubSeq(s, to, Len(s))
      BY <1>6, <2>1, <2>2, <2>3, <2>4, <2>5, <2>6, <3>1 DEF Replace
    <3> QED BY <3>1, <3>2, <3>3, <3>4 DEF Spliced
  <2>8. from \in Nat /\ to \in Nat /\ 1 <= from /\ from <= to /\ to <= Len(s) + 1
    BY <1>1, <1>7, <1>13, <2>l, <2>r, <2>3, <2>4
  \* The range before, and the one behind, if they are taken in.
  <2>9. left => i > 1 /\ i - 1 \in 1 .. Len(s) /\ s[i - 1][2] >= lo /\ s[i - 1][1] <= lo
                /\ s[i - 1][2] <= hi /\ s[i - 1][1] \in Nat /\ s[i - 1][2] \in Nat
                /\ s[i - 1][1] < s[i - 1][2]
    <3> SUFFICES ASSUME left
                 PROVE  i > 1 /\ i - 1 \in 1 .. Len(s) /\ s[i - 1][2] >= lo /\ s[i - 1][1] <= lo
                        /\ s[i - 1][2] <= hi /\ s[i - 1][1] \in Nat /\ s[i - 1][2] \in Nat
                        /\ s[i - 1][1] < s[i - 1][2]
      OBVIOUS
    <3>1. PICK p \in Int : p = i - 1
      BY <1>7
    <3>2. i > 1 /\ s[p][2] >= lo /\ p \in 1 .. Len(s) /\ p < i /\ p >= i - 1 /\ p < j
      BY <1>1, <1>7, <1>13, <2>l, <3>1
    <3>3. s[p][1] <= lo /\ s[p][2] <= hi /\ s[p][1] \in Nat /\ s[p][2] \in Nat /\ s[p][1] < s[p][2]
      BY <1>1, <1>10, <1>11, <3>2
    <3> QED BY <3>1, <3>2, <3>3
  <2>10. right => j \in 1 .. Len(s) /\ s[j][1] <= hi /\ s[j][2] > hi /\ s[j][1] > lo
                  /\ s[j][1] \in Nat /\ s[j][2] \in Nat /\ s[j][1] < s[j][2]
    <3> SUFFICES ASSUME right
                 PROVE  j \in 1 .. Len(s) /\ s[j][1] <= hi /\ s[j][2] > hi /\ s[j][1] > lo
                        /\ s[j][1] \in Nat /\ s[j][2] \in Nat /\ s[j][1] < s[j][2]
      OBVIOUS
    <3>1. j \in 1 .. Len(s) /\ s[j][1] <= hi /\ j >= i /\ j >= j
      BY <1>1, <1>7, <1>13, <2>r
    <3> QED BY <1>1, <1>8, <1>9, <3>1
  <2>11. x \in Nat /\ y \in Nat /\ x <= lo /\ hi <= y
    BY <2>5, <2>6, <2>9, <2>10
  <2>12. ASSUME NEW n \in 1 .. from - 1 PROVE s[n][2] < x
    <3>1. n \in 1 .. Len(s) /\ s[n][2] \in Nat /\ n < i
      BY <1>1, <1>7, <2>3, <2>8
    <3>2. CASE left
      <4>1. PICK p \in 1 .. Len(s) : p = i - 1
        BY <2>9, <3>2
      <4>2. n < p /\ x = s[p][1]
        BY <1>7, <2>3, <2>5, <3>2, <4>1
      <4> QED BY <1>1, <3>1, <4>2
    <3>3. CASE ~left
      <4>1. PICK p \in 1 .. Len(s) : p = i - 1
        BY <1>1, <1>7, <3>1
      <4>2. s[p][2] < lo /\ x = lo /\ s[p][2] \in Nat /\ s[p][1] < s[p][2] /\ s[p][1] \in Nat
        BY <1>1, <1>7, <2>l, <2>5, <3>1, <3>3, <4>1
      <4>3. n = p \/ n < p
        BY <1>7, <3>1, <4>1
      <4>4. n < p => s[n][2] < s[p][1]
        BY <1>1, <3>1
      <4> QED BY <3>1, <4>2, <4>3, <4>4
    <3> QED BY <3>2, <3>3
  <2>13. ASSUME NEW n \in to .. Len(s) PROVE y < s[n][1]
    <3>1. n \in 1 .. Len(s) /\ s[n][1] \in Nat
      BY <1>1, <2>8
    <3>2. CASE right
      <4>1. j \in 1 .. Len(s) /\ j < n /\ y = s[j][2]
        BY <1>7, <2>4, <2>6, <2>10, <3>1, <3>2
      <4> QED BY <1>1, <3>1, <4>1
    <3>3. CASE ~right
      <4>1. j \in 1 .. Len(s) /\ (j = n \/ j < n) /\ y = hi
        BY <1>1, <1>7, <2>4, <2>6, <2>8, <3>1, <3>3
      <4>2. s[j][1] > hi /\ s[j][1] \in Nat /\ s[j][2] \in Nat /\ s[j][1] < s[j][2]
        BY <1>1, <1>7, <2>r, <3>3, <4>1
      <4>3. j < n => s[j][2] < s[n][1]
        BY <1>1, <3>1, <4>1
      <4> QED BY <3>1, <4>1, <4>2, <4>3
    <3> QED BY <3>2, <3>3
  \* The ranges that are taken in, or swallowed, are part of the new one.
  <2>14. ASSUME NEW n \in 1 .. Len(s), n >= from, n < to PROVE x <= s[n][1] /\ s[n][2] <= y
    <3>1. s[n][1] \in Nat /\ s[n][2] \in Nat
      BY <1>1
    <3>2. CASE n < i
      <4>1. left /\ n = i - 1
        BY <1>7, <2>3, <2>14, <3>2
      <4>2. x = s[n][1] /\ s[n][2] <= hi
        BY <2>5, <2>9, <4>1
      <4> QED BY <2>11, <3>1, <4>2
    <3>3. CASE n >= i /\ n < j
      <4>1. s[n][1] > lo /\ s[n][2] <= hi
        BY <1>7, <1>8, <1>11, <3>3
      <4> QED BY <2>11, <3>1, <4>1
    <3>4. CASE n >= i /\ ~(n < j)
      <4>1. right /\ n = j
        BY <1>7, <2>4, <2>14, <3>4
      <4>2. s[n][1] > lo /\ y = s[n][2]
        BY <2>6, <2>10, <4>1
      <4> QED BY <2>11, <3>1, <4>2
    <3> QED BY <1>7, <3>2, <3>3, <3>4
  <2>15. CASE from = to /\ x >= y
    <3>1. t = s /\ ~(lo < hi)
      BY <2>7, <2>11, <2>15
    <3>2. \A v \in Nat : ~(lo <= v /\ v < hi)
      BY <3>1
    <3> QED BY <1>5, <3>1, <3>2
  <2>16. CASE ~(from = to /\ x >= y)
    <3>1. x < y
      <4>1. CASE from = to
        BY <2>11, <2>16, <4>1
      <4>2. CASE from # to
        <5>1. from \in 1 .. Len(s) /\ from >= from /\ from < to
          BY <1>1, <2>8, <4>2
        <5>2. x <= s[from][1] /\ s[from][2] <= y
          BY <2>14, <5>1
        <5> QED BY <1>1, <2>11, <5>1, <5>2
      <4> QED BY <4>1, <4>2
    <3>2. t = Spliced(s, <<x, y>>, from, to)
      BY <2>7, <2>16
    <3>3. from \in 1 .. Len(s) + 1 /\ to \in from .. Len(s) + 1
      BY <1>1, <2>8
    <3>4. Sorted(t) /\ SplicedInto(t, s, <<x, y>>, from, to)
      <4>1. (\A n \in 1 .. from - 1 : s[n][2] < x) /\ \A n \in to .. Len(s) : y < s[n][1]
        BY <2>12, <2>13
      <4>2. x \in Nat /\ y \in Nat
        BY <2>11
      <4> QED BY <3>1, <3>2, <3>3, <4>1, <4>2, Replaced
    <3>5. ASSUME NEW v \in Nat
          PROVE  HasAddr(t, v) <=> HasAddr(s, v) \/ (lo <= v /\ v < hi)
      <4>1. PICK new : new = <<x, y>>
        OBVIOUS
      <4>2. Covers(new, v) <=> x <= v /\ v < y
        BY <4>1 DEF Covers
      <4>3. HasAddr(t, v) <=> Covers(new, v) \/ \E n \in 1 .. Len(s) : (n < from \/ n >= to) /\ Covers(s[n], v)
        <5>1. HasAddr(t, v) <=> \E n \in 1 .. Len(t) : Covers(t[n], v)
          BY <3>4, HasAddrIs
        <5>2. HasAddr(t, v) <=> \E r : (\E n \in 1 .. Len(t) : t[n] = r) /\ Covers(r, v)
          BY <5>1
        <5>3. \A r : (\E n \in 1 .. Len(t) : t[n] = r) <=>
                        \/ r = new
                        \/ \E n \in 1 .. Len(s) : (n < from \/ n >= to) /\ s[n] = r
          BY <3>4, <4>1 DEF SplicedInto
        <5> QED BY <5>2, <5>3
      <4>4. HasAddr(s, v) <=> \E n \in 1 .. Len(s) : Covers(s[n], v)
        BY HasAddrIs
      <4>5. ASSUME NEW n \in 1 .. Len(s), Covers(s[n], v), ~(n < from \/ n >= to) PROVE Covers(new, v)
        <5>1. x <= s[n][1] /\ s[n][2] <= y /\ s[n][1] \in Nat /\ s[n][2] \in Nat
          BY <1>1, <2>8, <2>14, <4>5
        <5>2. s[n][1] <= v /\ v < s[n][2]
          BY <4>5 DEF Covers
        <5> QED BY <2>11, <4>2, <5>1, <5>2
      <4>6. ASSUME lo <= v, v < hi PROVE Covers(new, v)
        BY <2>11, <4>2, <4>6
      <4>7. ASSUME Covers(new, v), v < lo PROVE HasAddr(s, v)
        <5>1. left
          BY <2>5, <4>2, <4>7
        <5>2. PICK p \in 1 .. Len(s) : p = i - 1
          BY <2>9, <5>1
        <5>3. s[p][1] <= v /\ v < s[p][2]
          BY <2>5, <2>9, <4>2, <4>7, <5>1, <5>2
        <5>4. Covers(s[p], v)
          BY <5>3 DEF Covers
        <5> QED BY <4>4, <5>4
      <4>8. ASSUME Covers(new, v), v >= hi PROVE HasAddr(s, v)
        <5>1. right
          BY <2>6, <4>2, <4>8
        <5>2. j \in 1 .. Len(s) /\ s[j][1] <= v /\ v < s[j][2]
          BY <2>6, <2>10, <4>2, <4>8, <5>1
        <5>3. Covers(s[j], v)
          BY <5>2 DEF Covers
        <5> QED BY <4>4, <5>2, <5>3
      <4>9. Covers(new, v) => HasAddr(s, v) \/ (lo <= v /\ v < hi)
        BY <4>7, <4>8
      <4> QED BY <4>3, <4>4, <4>5, <4>6, <4>9
    <3> QED BY <1>5, <3>4, <3>5
  <2> QED BY <2>15, <2>16
<1> QED BY <1>7, <1>12, <1>13
=============================================================================
