-------------------------------- MODULE DNS --------------------------------
(***************************************************************************)
(* The DNS tunnel (dnstun.go): connections that ask one question after     *)
(* another, the worker that routes the questions, the exchanges that       *)
(* forward them to DNS servers, the caches, and the reloads that replace   *)
(* options, routes and caches under all of them.                           *)
(*                                                                         *)
(* A pointer is the number of the load that allocated what it points to:   *)
(* rid for the slice of routes and its routeCache, cid for the dnsCache,   *)
(* 0 for nil. Times and messages are abstracted: an answer is its question *)
(* and the load whose options shaped it; a deadline passes when it likes.  *)
(***************************************************************************)
EXTENDS Integers, Sequences, FiniteSets

CONSTANTS
    Clients,     \* connections, each accepted once
    Questions,   \* records of a domain and a type
    Configs,     \* options a LoadEvent may carry
    Slots,       \* bound: exchanges at a time
    MaxLoads,    \* bound
    MaxAsked,    \* bound: questions per connection
    None, Closed

Domains == {q.domain : q \in Questions}

ASSUME ConfigsAssumption ==
    \A c \in Configs : c.cache \in BOOLEAN /\ DOMAIN c.routes \subseteq Nat
ASSUME NoneAssumption ==
    /\ None # Closed
    /\ None \notin Clients
    /\ {None, Closed} \cap [q : Questions, by : Nat] = {}
ASSUME LoadsAssumption == MaxLoads \in Nat

VARIABLES
    job,         \* "up", or "down" when Run has returned or ctx is done
    hist,        \* the options sent to optsIn; <-optsOut yields the last
    routeCache,  \* of each rid: the route found for each domain
    dnsCache,    \* of each cid: the result for each question
    cl,          \* the handlers of the connections
    w,           \* startWorker
    ex           \* the exchanges

vars == <<job, hist, routeCache, dnsCache, cl, w, ex>>

-----------------------------------------------------------------------------
(***************************************************************************)
(* Options.                                                                *)
(***************************************************************************)

ZeroOptions ==
    [conf |-> [ok |-> TRUE, servers |-> {}, routes |-> <<>>,
               redirects |-> [d \in Domains |-> d],
               cache |-> FALSE, v4 |-> FALSE, ttl |-> 0],
     rid |-> 0, cid |-> 0]

Options(i) == IF i = 0 THEN ZeroOptions ELSE hist[i]
Loads == Len(hist)
Current == Options(Loads)

\* What LoadEvent checks before it goes on: an address that can be split,
\* files that can be read, servers that make sense (all in ok), servers for
\* each route, and some server at all.
Valid(c) ==
    /\ c.ok
    /\ \A i \in DOMAIN c.routes : c.routes[i].servers # {}
    /\ c.servers # {} \/ c.routes # <<>>

ForgetsRedirects(x, y) ==   \* mutant: the last comparison is missing
    x.v4 # y.v4 \/ x.ttl # y.ttl \/ x.servers # y.servers \/ x.routes # y.routes

shouldResetDNSCache(x, y) ==
    \/ x.v4 # y.v4 \/ x.ttl # y.ttl
    \/ x.servers # y.servers
    \/ x.routes # y.routes
    \/ x.redirects # y.redirects

\* new.routes and new.routeCache: those of old, unless the routes differ.
NewRoutes(old, c) ==
    IF c.routes = old.conf.routes THEN old.rid
    ELSE IF c.routes = <<>> THEN 0 ELSE Loads + 1

\* new.dnsCache.
NewCache(old, c) ==
    LET kept == IF c.cache # old.conf.cache THEN 0 ELSE old.cid
    IN IF c.cache /\ (kept = 0 \/ shouldResetDNSCache(old.conf, c)) THEN Loads + 1 ELSE kept

-----------------------------------------------------------------------------
(***************************************************************************)
(* Routes and caches.                                                      *)
(***************************************************************************)

NoRoute == <<0, 0>>

\* The first route that allows the domain, as a pointer; nil if none does.
FirstMatch(rid, routes, d) ==
    LET hits == {i \in DOMAIN routes : d \in routes[i].allow}
    IN IF hits = {} THEN NoRoute
       ELSE <<rid, CHOOSE i \in hits : \A j \in hits : i <= j>>

\* The options a pointer to a route leads to.
RouteAt(r) == hist[CHOOSE i \in 1 .. Loads : hist[i].rid = r[1]].conf.routes[r[2]]

\* The route of a domain: from the routeCache, else searched.
RouteOf(o, d) ==
    IF o.rid = 0 THEN NoRoute
    ELSE IF routeCache[o.rid][d] # None THEN routeCache[o.rid][d]
    ELSE FirstMatch(o.rid, o.conf.routes, o.conf.redirects[d])

StoresRoute(o, d) ==
    routeCache' = IF o.rid = 0 THEN routeCache
                  ELSE [routeCache EXCEPT ![o.rid][d] = RouteOf(o, d)]

\* dnsCache.Load, of a result whose deadline has not passed.
Cached(o, q) == IF o.cid = 0 THEN None ELSE dnsCache[o.cid][q]

\* The result of asking under the options of load i: they give the domain
\* that is asked for, the clamp of the TTL and what is dropped.
Result(i, q) == [q |-> q, by |-> i]

-----------------------------------------------------------------------------
(***************************************************************************)
(* The processes.                                                          *)
(***************************************************************************)

\* A connection: opts is the load whose options it took when accepted, from
\* the load at which its question was sent, res the channel of its result,
\* gone that its context is done.
NoClient == [pc |-> "none", opts |-> 0, q |-> None, from |-> 0, res |-> None,
             gone |-> FALSE, asked |-> 0, unserved |-> FALSE]

\* A handler that has returned has closed its ConnChecker, which also cancels
\* the context of its question.
Returned == [NoClient EXCEPT !.pc = "closed", !.gone = TRUE]

\* An exchange: server is dnsConn.Net; opts the load whose options it uses.
NoExchange == [pc |-> "none", route |-> NoRoute, server |-> None,
               opts |-> 0, for |-> None, q |-> None]

Idle == [pc |-> "select", for |-> None, q |-> None, route |-> NoRoute, to |-> None,
         fresh |-> FALSE]

Init ==
    /\ job = "up"
    /\ hist = <<>>
    /\ routeCache = [r \in 1 .. MaxLoads |-> [d \in Domains |-> None]]
    /\ dnsCache = [c \in 1 .. MaxLoads |-> [q \in Questions |-> None]]
    /\ cl = [h \in Clients |-> NoClient]
    /\ w = Idle
    /\ ex = [e \in Slots |-> NoExchange]

-----------------------------------------------------------------------------
(***************************************************************************)
(* The event loop. Only it writes the options, so LoadEvent is one step.   *)
(***************************************************************************)

Load(c) ==
    /\ job = "up" /\ Loads < MaxLoads
    /\ Valid(c)
    /\ hist' = Append(hist, [conf |-> c, rid |-> NewRoutes(Current, c),
                                         cid |-> NewCache(Current, c)])
    /\ UNCHANGED <<job, routeCache, dnsCache, cl, w, ex>>

\* Options that are refused, or a cancelled context: Run returns, which closes
\* optsOut and the listener and cancels ctx.
RunReturns ==
    /\ job = "up"
    /\ job' = "down"
    /\ UNCHANGED <<hist, routeCache, dnsCache, cl, w, ex>>

-----------------------------------------------------------------------------
(***************************************************************************)
(* The handler of a connection.                                            *)
(***************************************************************************)

Accept(h) ==
    /\ job = "up" /\ Loads > 0
    /\ cl[h].pc = "none"
    /\ cl' = [cl EXCEPT ![h].pc = "read", ![h].opts = Loads]
    /\ UNCHANGED <<job, hist, routeCache, dnsCache, w, ex>>

\* Answered by the handler itself: no addresses of type AAAA with IPv4.Only,
\* or a result of the cache it knows.
AnswersItself(h, q) ==
    LET o == Options(cl[h].opts)
    IN (o.conf.v4 /\ q.type = "AAAA") \/ Cached(o, q) # None

\* A question is read, and answered or put to the worker. With no question in
\* a message the handler returns, as it does when the client has gone.
Read(h, q) ==
    /\ cl[h].pc = "read" /\ cl[h].asked < MaxAsked
    /\ cl' = [cl EXCEPT ![h].asked = @ + 1,
                        ![h].pc = IF AnswersItself(h, q) THEN "read" ELSE "offer",
                        ![h].q = IF AnswersItself(h, q) THEN None ELSE q,
                        ![h].from = IF AnswersItself(h, q) THEN 0 ELSE Loads]
    /\ UNCHANGED <<job, hist, routeCache, dnsCache, w, ex>>

\* The result arrives and is written, or the channel was closed without one.
Receive(h) ==
    /\ cl[h].pc = "wait" /\ cl[h].res # None
    /\ cl' = [cl EXCEPT ![h] = IF @.res = Closed THEN Returned
                               ELSE [@ EXCEPT !.pc = "read", !.res = None, !.q = None, !.from = 0]]
    /\ UNCHANGED <<job, hist, routeCache, dnsCache, w, ex>>

\* ConnChecker finds that the client has closed its connection.
ClientLeaves(h) ==
    /\ cl[h].pc \in {"read", "offer", "wait"} /\ ~cl[h].gone
    /\ cl' = [cl EXCEPT ![h].gone = TRUE]
    /\ UNCHANGED <<job, hist, routeCache, dnsCache, w, ex>>

\* The cases of ctx.Done and cc.Done, and the failing read.
HandlerReturns(h) ==
    /\ \/ cl[h].pc \in {"read", "offer", "wait"} /\ cl[h].gone
       \/ cl[h].pc \in {"offer", "wait"} /\ job = "down"
    /\ cl' = [cl EXCEPT ![h] = Returned]
    /\ UNCHANGED <<job, hist, routeCache, dnsCache, w, ex>>

-----------------------------------------------------------------------------
(***************************************************************************)
(* startWorker.                                                            *)
(***************************************************************************)

\* What becomes of the result channel of h when r is sent to it and it is
\* closed: with a client that has gone either case of the select may win.
Outcomes(h, r) == IF cl[h].gone THEN {r, Closed} ELSE {r}

\* The result of a connection whose handler has returned goes nowhere.
Deliver(h, r) ==
    cl' = [cl EXCEPT ![h].pc = IF @ = "offer" THEN "wait" ELSE @,
                     ![h].res = IF cl[h].pc = "closed" THEN None ELSE r]

\* The exchanges after newExchange: the inactive ones are removed first.
WithNew(e, r) ==
    [x \in Slots |->
        IF x = e THEN [NoExchange EXCEPT !.pc = "select", !.route = r]
        ELSE IF ex[x].pc = "done" THEN NoExchange ELSE ex[x]]

StartExchange(h, q, r) ==
    LET free == {e \in Slots : ex[e].pc \in {"none", "done"}}
        e == CHOOSE x \in free : TRUE
    IN /\ free # {}
       /\ ex' = WithNew(e, r)
       /\ w' = [pc |-> "send", for |-> h, q |-> q, route |-> r, to |-> e, fresh |-> TRUE]

StaleWorker(h) ==   \* mutant: the worker takes the options once, when it starts
    /\ job = "up" /\ w.pc = "select" /\ cl[h].pc = "offer"
    /\ Cached(hist[1], cl[h].q) # None
    /\ \E r \in Outcomes(h, Cached(hist[1], cl[h].q)) : Deliver(h, r)
    /\ UNCHANGED <<job, hist, routeCache, dnsCache, w, ex>>

\* case q := <-incoming, with a result of the cache ...
WorkerAnswers(h) ==
    /\ job = "up" /\ w.pc = "select" /\ cl[h].pc = "offer"
    /\ Cached(Current, cl[h].q) # None
    /\ \E r \in Outcomes(h, Cached(Current, cl[h].q)) : Deliver(h, r)
    /\ UNCHANGED <<job, hist, routeCache, dnsCache, w, ex>>

\* ... or for an exchange: the one listed for the route, or a new one.
WorkerRoutes(h) ==
    LET r == RouteOf(Current, cl[h].q.domain)
        known == {e \in Slots : ex[e].pc # "none" /\ ex[e].route = r}
    IN
    /\ job = "up" /\ w.pc = "select" /\ cl[h].pc = "offer"
    /\ Cached(Current, cl[h].q) = None
    /\ StoresRoute(Current, cl[h].q.domain)
    /\ cl' = [cl EXCEPT ![h].pc = "wait"]
    /\ IF known = {}
       THEN StartExchange(h, cl[h].q, r)
       ELSE /\ w' = [pc |-> "send", for |-> h, q |-> cl[h].q, route |-> r,
                     to |-> CHOOSE e \in known : TRUE, fresh |-> FALSE]
            /\ UNCHANGED ex
    /\ UNCHANGED <<job, hist, dnsCache>>

DropsQuery ==   \* mutant: the query is not passed on to a new exchange
    /\ w.pc = "send" /\ ex[w.to].pc = "done"
    /\ w' = Idle
    /\ UNCHANGED <<job, hist, routeCache, dnsCache, cl, ex>>

\* case <-ex.Done(): a new exchange takes the query, unless this was one.
WorkerFindsDone ==
    /\ w.pc = "send" /\ ex[w.to].pc = "done"
    /\ IF w.fresh THEN w' = Idle /\ UNCHANGED ex ELSE StartExchange(w.for, w.q, w.route)
    /\ UNCHANGED <<job, hist, routeCache, dnsCache, cl>>

\* case <-q.Context.Done().
WorkerGivesUp ==
    /\ w.pc = "send" /\ cl[w.for].gone
    /\ w' = Idle
    /\ UNCHANGED <<job, hist, routeCache, dnsCache, cl, ex>>

WorkerReturns ==
    /\ w.pc = "select" /\ job = "down"
    /\ w' = [w EXCEPT !.pc = "gone"]
    /\ UNCHANGED <<job, hist, routeCache, dnsCache, cl, ex>>

-----------------------------------------------------------------------------
(***************************************************************************)
(* startExchange.                                                          *)
(***************************************************************************)

Ready(x) == [x EXCEPT !.pc = "select", !.for = None, !.q = None, !.opts = 0]
Done(x) == [NoExchange EXCEPT !.pc = "done", !.route = x.route]

\* case ex.Chan <- q meets case q := <-ex.Chan: the exchange takes the current
\* options, and answers from their cache if it can.
ExchangeTakes(e) ==
    LET h == w.for
        r == Cached(Current, w.q)
    IN
    /\ w.pc = "send" /\ w.to = e /\ ex[e].pc = "select" /\ job = "up"
    /\ w' = Idle
    /\ \/ /\ r # None
          /\ \E o \in Outcomes(h, r) : Deliver(h, o)
          /\ UNCHANGED ex
       \/ /\ r = None
          /\ ex' = [ex EXCEPT ![e].pc = "busy", ![e].for = h, ![e].q = w.q, ![e].opts = Loads]
          /\ UNCHANGED cl
    /\ UNCHANGED <<job, hist, routeCache, dnsCache>>

\* The servers of the route, or of the options.
ServersOf(e) == IF ex[e].route # NoRoute THEN RouteAt(ex[e].route).servers ELSE Current.conf.servers

\* dnsConn.Net == nil: the options are taken again and a server is chosen.
Connect(e) ==
    /\ ex[e].pc = "busy" /\ ex[e].server = None /\ ~cl[ex[e].for].gone /\ job = "up"
    /\ \E s \in ServersOf(e) : ex' = [ex EXCEPT ![e].server = s, ![e].opts = Loads]
    /\ UNCHANGED <<job, hist, routeCache, dnsCache, cl, w>>

\* len(servers) == 0: the exchange ends and leaves the query unanswered.
NoServers(e) ==
    /\ ex[e].pc = "busy" /\ ex[e].server = None /\ ~cl[ex[e].for].gone /\ job = "up"
    /\ ServersOf(e) = {}
    /\ ex' = [ex EXCEPT ![e] = Done(@)]
    /\ cl' = [cl EXCEPT ![ex[e].for].unserved = TRUE]
    /\ UNCHANGED <<job, hist, routeCache, dnsCache, w>>

\* A round trip fails: the connection is closed and the loop tries again.
RoundTripFails(e) ==
    /\ ex[e].pc = "busy" /\ ex[e].server # None
    /\ ex' = [ex EXCEPT ![e].server = None]
    /\ UNCHANGED <<job, hist, routeCache, dnsCache, cl, w>>

\* A round trip succeeds: the result is stored and sent. One without a deadline
\* is not stored, which is the same as to expire at once.
RoundTrip(e) ==
    LET h == ex[e].for
        r == Result(ex[e].opts, ex[e].q)
        c == Options(ex[e].opts).cid
    IN
    /\ ex[e].pc = "busy" /\ ex[e].server # None
    /\ dnsCache' = IF c # 0 THEN [dnsCache EXCEPT ![c][r.q] = r] ELSE dnsCache
    /\ \E o \in Outcomes(h, r) : Deliver(h, o)
    /\ ex' = [ex EXCEPT ![e] = Ready(@)]
    /\ UNCHANGED <<job, hist, routeCache, w>>

\* q.Context.Err() != nil: the loop breaks, and the channel is closed.
ExchangeGivesUp(e) ==
    /\ ex[e].pc = "busy" /\ cl[ex[e].for].gone
    /\ Deliver(ex[e].for, Closed)
    /\ ex' = [ex EXCEPT ![e] = Ready(@)]
    /\ UNCHANGED <<job, hist, routeCache, dnsCache, w>>

\* case <-idleTimerC. A new exchange gets its first query before the timer runs
\* out: nothing but the start of a goroutine lies between.
IdleTimeout(e) ==
    /\ ex[e].pc = "select" /\ ~(w.pc = "send" /\ w.to = e /\ w.fresh)
    /\ ex' = [ex EXCEPT ![e] = Done(@)]
    /\ UNCHANGED <<job, hist, routeCache, dnsCache, cl, w>>

ExchangeReturns(e) ==
    /\ ex[e].pc \in {"select", "busy"} /\ job = "down"
    /\ ex' = [ex EXCEPT ![e] = Done(@)]
    /\ UNCHANGED <<job, hist, routeCache, dnsCache, cl, w>>

\* The deadline of a cached result passes.
Expire(c, q) ==
    /\ dnsCache[c][q] # None
    /\ dnsCache' = [dnsCache EXCEPT ![c][q] = None]
    /\ UNCHANGED <<job, hist, routeCache, cl, w, ex>>

-----------------------------------------------------------------------------
Next ==
    \/ \E c \in Configs : Load(c)
    \/ RunReturns
    \/ \E h \in Clients : \/ Accept(h) \/ \E q \in Questions : Read(h, q)
                          \/ Receive(h) \/ ClientLeaves(h) \/ HandlerReturns(h)
                          \/ WorkerAnswers(h) \/ WorkerRoutes(h)
    \/ WorkerFindsDone \/ WorkerGivesUp \/ WorkerReturns
    \/ \E e \in Slots : \/ ExchangeTakes(e) \/ Connect(e) \/ NoServers(e)
                        \/ RoundTrip(e) \/ RoundTripFails(e) \/ ExchangeGivesUp(e)
                        \/ IdleTimeout(e) \/ ExchangeReturns(e)
    \/ \E c \in 1 .. MaxLoads, q \in Questions : Expire(c, q)

Spec == Init /\ [][Next]_vars

-----------------------------------------------------------------------------
(***************************************************************************)
(* Correctness properties.                                                 *)
(***************************************************************************)

Held(h) == (w.pc = "send" /\ w.for = h) \/ \E e \in Slots : ex[e].for = h

\* A question that waits for its result is in the hands of the worker or of an
\* exchange, or has its result, whatever exchanges ended meanwhile. The one
\* exception is an exchange that found no servers, which leaves the channel
\* open: the client then waits until it gives up.
NoQueryLost ==
    \A h \in Clients :
        (cl[h].pc = "wait" /\ ~cl[h].gone /\ job = "up") =>
            cl[h].res # None \/ Held(h) \/ cl[h].unserved

\* Two options that shape the result of a question alike.
SameShape(x, y, q) ==
    x.v4 = y.v4 /\ x.ttl = y.ttl /\ x.redirects[q.domain] = y.redirects[q.domain]

\* What a cache leads to fits the options that lead to the cache, those that a
\* handler took before a reload too. A result was shaped by options like them:
\* one of the old options never gets into the cache of the new ones. (Which
\* server answered is left out: a connected exchange keeps its server when a
\* reload changes them.) A route is the one that these routes give the domain,
\* under redirects loaded together with them. (Redirects alone do not replace
\* the routeCache, so they need not be the present ones.)
CachesFresh ==
    /\ \A i \in 1 .. Loads, q \in Questions :
          LET r == Cached(hist[i], q)
          IN r # None => r.q = q /\ SameShape(Options(r.by).conf, hist[i].conf, q)
    /\ \A i \in 1 .. Loads, d \in Domains :
          (hist[i].rid # 0 /\ routeCache[hist[i].rid][d] # None) =>
              \E j \in 1 .. Loads :
                  /\ hist[j].rid = hist[i].rid
                  /\ routeCache[hist[i].rid][d] =
                        FirstMatch(hist[i].rid, hist[i].conf.routes, hist[j].conf.redirects[d])

\* A result that comes from the worker answers the question that was asked and
\* was shaped by options in force at some time since it was asked.
AnswerFresh ==
    \A h \in Clients :
        cl[h].res \notin {None, Closed} =>
            /\ cl[h].res.q = cl[h].q
            /\ \E i \in cl[h].from .. Loads :
                  SameShape(Options(cl[h].res.by).conf, Options(i).conf, cl[h].q)
=============================================================================
