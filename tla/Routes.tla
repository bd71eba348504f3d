------------------------------- MODULE Routes -------------------------------
(***************************************************************************)
(* The routes of the HTTP proxy (http.go): allow lists, made from lines of *)
(* the options and of files that somebody may write to at any time; their  *)
(* replacement by a reload, which is guided by checksums; the cache of the *)
(* routes that were found; and the handler's redirects.                    *)
(*                                                                         *)
(* What there is to read behind the lines of a route, and what a list that *)
(* was made of it allows, are parameters here; AllowList has the ones of   *)
(* the code. A checksum is what it is made of. A list keeps this as well   *)
(* as what it was made from itself (read).                                 *)
(***************************************************************************)
EXTENDS Integers, Sequences, FiniteSetsExt

CONSTANTS
    Plans,      \* sequences of options, for one LoadEvent after the other
    Contents,   \* of each file: the contents it may have
    Written,    \* what the files hold at first
    Missing,    \* the content of a file that is not there
    Lookups,    \* concurrent calls of getopts
    Asked,      \* addresses they ask for
    MaxWrites,  \* bound, for each reload of the plan
    None,
    Lines(_, _),    \* with these files, what is read for these lines, or Missing
    Allows(_, _)    \* a list made of this allows this address

VARIABLES
    plan,       \* the options that are loaded
    job,        \* "up", or "down" when Run has returned
    files,      \* their contents
    writes,     \* how often a file was written
    opts,       \* what optsOut yields
    ld,         \* LoadEvent
    handler,    \* its redirects and rwhosts
    routeCache, \* of each load: what it has stored for an address
    look        \* calls of getopts

vars == <<plan, job, files, writes, opts, ld, handler, routeCache, look>>

Confs == UNION {{p[n] : n \in DOMAIN p} : p \in Plans}
RouteConfs == UNION {{c.routes[i] : i \in DOMAIN c.routes} : c \in Confs}
Maps == {"redirects", "rwhosts"}

\* None is no proxy of a route: it stands for a route that was not found.
ASSUME PlansAssumption ==
    /\ Plans \subseteq Seq(Confs)
    /\ \A c \in Confs :
          /\ c.routes \in Seq(RouteConfs)
          /\ \A m \in Maps : c[m] \in [DOMAIN c[m] -> STRING] /\ IsFiniteSet(DOMAIN c[m])
    /\ \A r \in RouteConfs : r.proxy # None

-----------------------------------------------------------------------------
(***************************************************************************)
(* LoadEvent. The checksums of all routes come first; a list is read again *)
(* when there was none of its name, or one with another checksum.          *)
(***************************************************************************)

Put(f, k, v) == [x \in DOMAIN f \cup {k} |-> IF x = k THEN v ELSE f[x]]

NoMap == [x \in {} |-> ""]
ZeroOptions ==
    [conf |-> [routes |-> <<>>, proxy |-> None, redirects |-> NoMap, rwhosts |-> NoMap],
     sums |-> <<>>, routes |-> <<>>, lists |-> [x \in {} |-> None], gen |-> 0]

Idle == [pc |-> "idle", n |-> 0, new |-> ZeroOptions, at |-> <<>>]
NoLookup == [pc |-> "none", opts |-> ZeroOptions, a |-> None, ans |-> None]

Init ==
    /\ plan \in Plans
    /\ job = "up"
    /\ files = Written
    /\ writes = 0
    /\ opts = ZeroOptions
    /\ ld = Idle
    /\ handler = [m \in Maps |-> NoMap]
    /\ routeCache = [g \in 1 .. Len(plan) |-> [a \in Asked |-> None]]
    /\ look = [k \in Lookups |-> NoLookup]

WriteFile(f, c) ==
    /\ writes < MaxWrites * (Len(plan) - 1) /\ files[f] # c
    /\ files' = [files EXCEPT ![f] = c]
    /\ writes' = writes + 1
    /\ UNCHANGED <<plan, job, opts, ld, handler, routeCache, look>>

\* The case begins; routes, routeCache and allowListMap are the old ones.
LoadEvent ==
    /\ job = "up" /\ ld.pc = "idle" /\ ld.n < Len(plan)
    /\ ld' = [pc |-> "sums", n |-> ld.n + 1, at |-> <<>>,
              new |-> [opts EXCEPT !.conf = plan[ld.n + 1], !.sums = <<>>]]
    /\ UNCHANGED <<plan, job, files, writes, opts, handler, routeCache, look>>

\* Options that are refused, a failed listener, ctx.Done or serverDown.
RunReturns ==
    /\ job = "up" /\ ld.pc \in {"idle", "sums"} /\ ld.new.sums = <<>>
    /\ job' = "down"
    /\ UNCHANGED <<plan, files, writes, opts, ld, handler, routeCache, look>>

\* A file is missing: Run returns from the middle of the load.
LoadFails ==
    /\ job' = "down"
    /\ UNCHANGED <<ld, opts>>

Routes == ld.new.conf.routes
Name(r, i) ==
    IF r.name # None THEN <<"name", r.name>>
    ELSE IF Len(r.what) = 1 THEN <<"line", r.what[1]>> ELSE <<"#", i>>

Checksum ==
    LET i == Len(ld.new.sums) + 1
        sum == Lines(files, Routes[i].what)
    IN
    /\ job = "up" /\ ld.pc = "sums" /\ i <= Len(Routes)
    /\ IF sum = Missing THEN LoadFails
       ELSE /\ ld' = [ld EXCEPT !.new.sums = Append(@, [name |-> Name(Routes[i], i), sum |-> sum]),
                                !.at = Append(@, writes)]
            /\ UNCHANGED <<job, opts>>
    /\ UNCHANGED <<plan, files, writes, handler, routeCache, look>>

\* Name and Checksum are in sums.
routesEqual(x, y) ==
    /\ x.sums = y.sums
    /\ \A i \in DOMAIN x.conf.routes : x.conf.routes[i].proxy = y.conf.routes[i].proxy

KeepsCache ==   \* mutant: the new routes use the cache of the old ones
    /\ job = "up" /\ ld.pc = "sums" /\ Len(ld.new.sums) = Len(Routes)
    /\ ld' = IF routesEqual(ld.new, opts) THEN [ld EXCEPT !.pc = "handler"]
             ELSE [ld EXCEPT !.pc = "lists", !.new.routes = <<>>,
                             !.new.lists = [x \in {} |-> None],
                             !.new.gen = IF Routes = <<>> THEN 0 ELSE IF @ = 0 THEN ld.n ELSE @]
    /\ UNCHANGED <<plan, job, files, writes, opts, handler, routeCache, look>>

CompareRoutes ==
    /\ job = "up" /\ ld.pc = "sums" /\ Len(ld.new.sums) = Len(Routes)
    /\ ld' = IF routesEqual(ld.new, opts) THEN [ld EXCEPT !.pc = "handler"]
             ELSE [ld EXCEPT !.pc = "lists", !.new.routes = <<>>,
                             !.new.lists = [x \in {} |-> None],
                             !.new.gen = IF Routes = <<>> THEN 0 ELSE ld.n]
    /\ UNCHANGED <<plan, job, files, writes, opts, handler, routeCache, look>>

\* torn: a file was written after the checksum of the route was made.
InitRoute ==
    LET i == Len(ld.new.routes) + 1
        s == ld.new.sums[i]
        old == s.name \in DOMAIN opts.lists /\ opts.lists[s.name].sum = s.sum
        read == Lines(files, Routes[i].what)
        l == IF old THEN opts.lists[s.name]
             ELSE [sum |-> s.sum, read |-> read, torn |-> writes # ld.at[i]]
    IN
    /\ job = "up" /\ ld.pc = "lists" /\ i <= Len(Routes)
    /\ IF ~old /\ read = Missing THEN LoadFails
       ELSE /\ ld' = [ld EXCEPT !.new.routes = Append(@, [list |-> l, proxy |-> Routes[i].proxy]),
                                !.new.lists = Put(@, s.name, l)]
            /\ UNCHANGED <<job, opts>>
    /\ UNCHANGED <<plan, files, writes, handler, routeCache, look>>

\* A key that is missing in b reads as the empty string.
mapEqual(a, b) ==
    /\ Cardinality(DOMAIN a) = Cardinality(DOMAIN b)
    /\ \A k \in DOMAIN a : (IF k \in DOMAIN b THEN b[k] ELSE "") = a[k]

\* setRedirects and setRewriteHosts ...
SetHandler ==
    /\ job = "up"
    /\ ld.pc = "handler" \/ (ld.pc = "lists" /\ Len(ld.new.routes) = Len(Routes))
    /\ handler' = [m \in DOMAIN handler |->
                      IF mapEqual(ld.new.conf[m], opts.conf[m]) THEN handler[m] ELSE ld.new.conf[m]]
    /\ ld' = [ld EXCEPT !.pc = "send"]
    /\ UNCHANGED <<plan, job, files, writes, opts, routeCache, look>>

\* ... and optsIn <- new.
SendOptions ==
    /\ job = "up" /\ ld.pc = "send"
    /\ opts' = ld.new
    /\ ld' = [Idle EXCEPT !.n = ld.n]
    /\ UNCHANGED <<plan, job, files, writes, handler, routeCache, look>>

-----------------------------------------------------------------------------
(***************************************************************************)
(* getopts. The options are taken first, and may be old when they are used.*)
(***************************************************************************)

\* The server is started when the first options are loaded.
TakeOptions(k, a) ==
    /\ job = "up" /\ opts # ZeroOptions /\ look[k].pc # "took"
    /\ look' = [look EXCEPT ![k] = [pc |-> "took", opts |-> opts, a |-> a, ans |-> None]]
    /\ UNCHANGED <<plan, job, files, writes, opts, ld, handler, routeCache>>

\* The first route that allows the address.
FirstRoute(routes, a) ==
    LET allowing == {i \in DOMAIN routes : Allows(routes[i].list.read, a)}
    IN IF allowing = {} THEN None ELSE routes[Min(allowing)].proxy

\* A route of the cache, or the first one.
RouteOf(o, a) ==
    IF o.gen = 0 THEN None
    ELSE IF routeCache[o.gen][a] # None THEN routeCache[o.gen][a]
    ELSE FirstRoute(o.routes, a)

\* It is stored; without one the proxy of the options is used.
Answer(k, o, proxy) ==
    /\ look' = [look EXCEPT ![k].pc = "done", ![k].ans = IF proxy = None THEN o.conf.proxy ELSE proxy]
    /\ routeCache' = IF proxy = None THEN routeCache
                     ELSE [routeCache EXCEPT ![o.gen][look[k].a] = proxy]

FindRoute(k) ==
    /\ look[k].pc = "took"
    /\ Answer(k, look[k].opts, RouteOf(look[k].opts, look[k].a))
    /\ UNCHANGED <<plan, job, files, writes, opts, ld, handler>>

Next ==
    \/ \E f \in DOMAIN Contents : \E c \in Contents[f] : WriteFile(f, c)
    \/ LoadEvent \/ RunReturns \/ Checksum \/ CompareRoutes \/ InitRoute
    \/ SetHandler \/ SendOptions
    \/ \E k \in Lookups : FindRoute(k) \/ \E a \in Asked : TakeOptions(k, a)

Spec == Init /\ [][Next]_vars

-----------------------------------------------------------------------------
(***************************************************************************)
(* Correctness properties.                                                 *)
(***************************************************************************)

\* The routes that the options o lead to are the ones of its configuration,
\* and a list was read from the lines it has the checksum of, unless a file was
\* written while it was loaded.
RoutesFit(o) ==
    /\ Len(o.routes) = Len(o.conf.routes)
    /\ \A i \in DOMAIN o.routes :
          LET l == o.routes[i].list
          IN /\ o.routes[i].proxy = o.conf.routes[i].proxy
             /\ l.sum = o.sums[i].sum
             /\ ~l.torn => l.read = l.sum

\* A call of getopts finds the proxy of the first route whose list allows the
\* address, in the options that it took, or the one that they have for no route.
LookupFits(l) ==
    LET Allowed(i) == Allows(l.opts.routes[i].list.read, l.a)
    IN l.pc = "done" =>
          \/ l.ans = l.opts.conf.proxy /\ \A i \in DOMAIN l.opts.routes : ~Allowed(i)
          \/ \E i \in DOMAIN l.opts.routes :
                /\ l.ans = l.opts.conf.routes[i].proxy
                /\ Allowed(i) /\ \A j \in 1 .. i - 1 : ~Allowed(j)

\* After a reload requests are treated as the options say: routes and lists are
\* those of the options, although lists, routes and caches of earlier loads are
\* used again; a lookup never gets a route of other options from the cache; and
\* the handler has the maps of the options. The last part leaves out maps with
\* an empty value, which mapEqual may take for another map.
ReloadFits ==
    /\ \A o \in {opts} \cup {look[k].opts : k \in Lookups} : RoutesFit(o)
    /\ \A k \in Lookups : LookupFits(look[k])
    /\ (ld.pc = "idle" /\ job = "up") =>
          \A m \in DOMAIN handler :
              LET map == opts.conf[m]
              IN (\A x \in DOMAIN map : map[x] # "") => handler[m] = map
=============================================================================
