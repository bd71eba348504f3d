------------------------------- MODULE Socks -------------------------------
(***************************************************************************)
(* The SOCKS service (socks.go): calls of getRemote, which resolve a host  *)
(* through a worker and its cache and then dial one address, or race one   *)
(* of each family; and proxy.Dial (dial.go), which both of them go through *)
(* and which may leave the dial behind when its context is done.           *)
(*                                                                         *)
(* Options are kept as in DNS: hist is what was sent to optsIn, and cid    *)
(* names a dnsCache by the load that made it. A result says, for each      *)
(* family, whether addresses of it were found.                             *)
(***************************************************************************)
EXTENDS Integers, Sequences, FiniteSets, SequencesExt

CONSTANTS
    Calls,      \* calls of getRemote at a time
    Configs,    \* options a LoadEvent may carry
    MaxLoads,   \* bound
    None

ASSUME LoadsAssumption == MaxLoads \in Nat

VARIABLES
    job,        \* "up", "down" when ctx is done, or "panic"
    hist,       \* the options sent to optsIn
    dnsCache,   \* of each cid: the result for the host
    w,          \* startWorker
    call,       \* the calls of getRemote
    leg         \* of each call: the goroutines that dial

vars == <<job, hist, dnsCache, w, call, leg>>

Legs == {1, 2}      \* of a race; a lone dial is leg 1
Families == {"A", "AAAA"}

-----------------------------------------------------------------------------
(***************************************************************************)
(* Options.                                                                *)
(***************************************************************************)

ZeroOptions == [conf |-> [servers |-> {}, types |-> <<>>, ttl |-> 0], cid |-> 0]
Loads == Len(hist)
Options(i) == IF i = 0 THEN ZeroOptions ELSE hist[i]
Current == Options(Loads)

\* The first of each of the two types that are known, in their order.
normalizeQueryTypes(types) ==
    LET known == SelectSeq(types, LAMBDA t : t \in Families)
    IN FoldLeft(LAMBDA acc, t : IF Contains(acc, t) THEN acc ELSE Append(acc, t), <<>>, known)

\* The options as they are stored: without servers the types are as given.
Normalized(c) ==
    LET types == normalizeQueryTypes(c.types)
    IN IF c.servers = {} THEN c
       ELSE [c EXCEPT !.types = IF types = <<>> THEN <<"A", "AAAA">> ELSE types]

\* The query types are strings, as they are given and as they are stored.
ASSUME TypesAssumption == \A c \in Configs : Normalized(c).types \in Seq(STRING)

ForgetsQuery(x, y) == x.ttl # y.ttl \/ x.servers # y.servers   \* mutant: not the types
shouldResetDNSCache(x, y) == x.ttl # y.ttl \/ x.types # y.types \/ x.servers # y.servers

\* LoadEvent: only it writes the options, so it is one step.
Load(c) ==
    LET new == Normalized(c)
        old == Current
    IN
    /\ job = "up" /\ Loads < MaxLoads
    /\ hist' = Append(hist,
          [conf |-> new,
           cid |-> IF new.servers # {} /\ (old.cid = 0 \/ shouldResetDNSCache(old.conf, new))
                   THEN Loads + 1 ELSE old.cid])
    /\ UNCHANGED <<job, dnsCache, w, call, leg>>

\* Options that are refused, or a cancelled context: Run returns.
RunReturns ==
    /\ job = "up"
    /\ job' = "down"
    /\ UNCHANGED <<hist, dnsCache, w, call, leg>>

-----------------------------------------------------------------------------
(***************************************************************************)
(* The states of the processes.                                            *)
(***************************************************************************)

\* gone: localCtx is done. res: the result channel. ret: the leg whose
\* connection was returned, or 0. n, closed and err: the race's counter, its
\* channel c and whether errCh holds an error.
NoCall == [pc |-> "none", opts |-> 0, gone |-> FALSE, res |-> None, ret |-> 0,
           n |-> 0, closed |-> FALSE, err |-> FALSE]

\* at: where the goroutine of the leg is; inner: where the goroutine is that
\* dialFallback starts; c: the connection; cancelled: contexts[i].Cancel().
NoLeg == [at |-> "none", inner |-> "none", c |-> "none", cancelled |-> FALSE]
Dialling == [NoLeg EXCEPT !.at = "dialing", !.inner = "dialing"]

Asked == [for |-> None, opts |-> 0, left |-> <<>>, found |-> {}, again |-> FALSE]
Idle == [pc |-> "select", conn |-> FALSE, q |-> Asked]

Init ==
    /\ job = "up" /\ hist = <<>>
    /\ dnsCache = [c \in 1 .. MaxLoads |-> None]
    /\ w = Idle
    /\ call = [k \in Calls |-> NoCall]
    /\ leg = [k \in Calls |-> [i \in Legs |-> NoLeg]]

Cached(o) == IF o.cid = 0 THEN None ELSE dnsCache[o.cid]

-----------------------------------------------------------------------------
(***************************************************************************)
(* getRemote, up to the dial.                                              *)
(***************************************************************************)

\* The call goes on to dial: a race if there are addresses of both families.
StartDial(k, race) ==
    /\ call' = [call EXCEPT ![k].pc = IF race THEN "race" ELSE "dial", ![k].res = None,
                            ![k].opts = IF @ = 0 THEN Loads ELSE @]
    /\ leg' = [leg EXCEPT ![k] = [i \in Legs |-> IF race \/ i = 1 THEN Dialling ELSE NoLeg]]

\* getRemote begins. An address that needs no resolving, or one found in the
\* cache, is dialled; any other host is put to the worker.
Begin(k, literal) ==
    LET r == Cached(Current)
    IN
    /\ job = "up" /\ Loads > 0 /\ call[k].pc = "none"
    /\ IF literal \/ Current.conf.servers = {} THEN StartDial(k, FALSE)
       ELSE IF r # None THEN StartDial(k, r.found = Families)
       ELSE call' = [call EXCEPT ![k].pc = "offer", ![k].opts = Loads] /\ UNCHANGED leg
    /\ UNCHANGED <<job, hist, dnsCache, w>>

\* localCtx is cancelled: the attempt timed out, lost, or its client is gone.
Cancel(k) ==
    /\ call[k].pc \notin {"none", "returned"} /\ ~call[k].gone
    /\ call' = [call EXCEPT ![k].gone = TRUE]
    /\ UNCHANGED <<job, hist, dnsCache, w, leg>>

\* The cases of ctx.Done and localCtx.Done.
StopsWaiting(k) ==
    /\ call[k].pc \in {"offer", "wait"}
    /\ call[k].gone \/ job = "down"
    /\ call' = [call EXCEPT ![k].pc = "returned"]
    /\ UNCHANGED <<job, hist, dnsCache, w, leg>>

\* case result = <-r: addresses of one or of both families, or errNoResult.
Resolved(k) ==
    /\ call[k].pc = "wait" /\ call[k].res # None
    /\ IF call[k].res = {} THEN /\ call' = [call EXCEPT ![k].pc = "returned"]
                                /\ UNCHANGED leg
       ELSE StartDial(k, call[k].res = Families)
    /\ UNCHANGED <<job, hist, dnsCache, w>>

-----------------------------------------------------------------------------
(***************************************************************************)
(* startWorker.                                                            *)
(***************************************************************************)

\* The result is sent and the channel closed; with a caller that is gone the
\* select may close it without a result ({}), as it is when there is none.
Answer(k, found) ==
    \E r \in (IF call[k].gone THEN {found, {}} ELSE {found}) :
        call' = [call EXCEPT ![k].pc = IF @ = "offer" THEN "wait" ELSE @, ![k].res = r]

\* case q := <-incoming: a result of the cache, or the types to ask for.
WorkerTakes(k) ==
    LET r == Cached(Current)
    IN
    /\ job = "up" /\ w.pc = "select" /\ call[k].pc = "offer"
    /\ IF r # None THEN Answer(k, r.found) /\ UNCHANGED w
       ELSE /\ call' = [call EXCEPT ![k].pc = "wait"]
            /\ w' = [w EXCEPT !.pc = "ask",
                              !.q = [Asked EXCEPT !.for = k, !.opts = Loads,
                                                  !.left = Current.conf.types]]
    /\ UNCHANGED <<job, hist, dnsCache, leg>>

Asking == w.pc = "ask" /\ w.q.left # <<>> /\ ~call[w.q.for].gone

\* dnsConn.Net == nil: the options are taken again. With no server left in
\* them rand.IntN panics, and nothing recovers in this goroutine.
Connect ==
    /\ Asking /\ ~w.conn /\ job = "up"
    /\ IF Current.conf.servers = {} THEN job' = "panic" /\ UNCHANGED w
       ELSE /\ w' = [w EXCEPT !.conn = TRUE, !.q.again = @ \/ w.q.opts # Loads,
                              !.q.opts = Loads]
            /\ UNCHANGED job
    /\ UNCHANGED <<hist, dnsCache, call, leg>>

\* A round trip for qtypes[0] succeeds, with or without addresses ...
RoundTrip(some) ==
    /\ Asking /\ w.conn
    /\ w' = [w EXCEPT !.q.left = Tail(@),
                      !.q.found = IF some THEN @ \cup {Head(w.q.left)} ELSE @]
    /\ UNCHANGED <<job, hist, dnsCache, call, leg>>

\* ... or fails, and the connection is closed.
RoundTripFails ==
    /\ Asking /\ w.conn
    /\ w' = [w EXCEPT !.conn = FALSE]
    /\ UNCHANGED <<job, hist, dnsCache, call, leg>>

\* The loop is over, all types asked or the caller gone: what was found is
\* stored and sent. One without a deadline is not stored: to expire at once.
WorkerAnswers ==
    LET q == w.q
    IN
    /\ w.pc = "ask" /\ (q.left = <<>> \/ call[q.for].gone)
    /\ dnsCache' = IF q.found = {} \/ Options(q.opts).cid = 0 THEN dnsCache
                   ELSE [dnsCache EXCEPT ![Options(q.opts).cid] =
                            [found |-> q.found, again |-> q.again]]
    /\ Answer(q.for, q.found)
    /\ w' = [w EXCEPT !.pc = "select", !.q = Asked]
    /\ UNCHANGED <<job, hist, leg>>

\* case <-dnsConn.IdleTimerC.
IdleTimeout ==
    /\ w.pc = "select" /\ w.conn
    /\ w' = [w EXCEPT !.conn = FALSE]
    /\ UNCHANGED <<job, hist, dnsCache, call, leg>>

WorkerReturns ==
    /\ w.pc \in {"select", "ask"} /\ job = "down"
    /\ w' = [Idle EXCEPT !.pc = "gone"]
    /\ UNCHANGED <<job, hist, dnsCache, call, leg>>

\* The deadline of a cached result passes.
Expire(c) ==
    /\ dnsCache[c] # None
    /\ dnsCache' = [dnsCache EXCEPT ![c] = None]
    /\ UNCHANGED <<job, hist, w, call, leg>>

-----------------------------------------------------------------------------
(***************************************************************************)
(* proxy.Dial. The goroutine in dialFallback dials without a context and   *)
(* puts what it gets into a channel of capacity 1.                         *)
(***************************************************************************)

Done(k, i) == call[k].gone \/ leg[k][i].cancelled

InnerDials(k, i, ok) ==
    /\ leg[k][i].inner = "dialing"
    /\ leg' = [leg EXCEPT ![k][i].inner = "put", ![k][i].c = IF ok THEN "open" ELSE "none"]
    /\ UNCHANGED <<job, hist, dnsCache, w, call>>

\* <-done has passed: what is still in the channel nobody will take.
InnerEnds(k, i) ==
    /\ leg[k][i].inner = "put" /\ leg[k][i].at # "dialing"
    /\ leg' = [leg EXCEPT ![k][i].inner = "over",
                          ![k][i].c = IF @ = "open" THEN "closed" ELSE @]
    /\ UNCHANGED <<job, hist, dnsCache, w, call>>

\* The outcomes of proxy.Dial: case r := <-result, or case <-ctx.Done(). As the
\* result is taken by the caller of Dial, the inner goroutine is over.
DialReturns(k, i) ==
    /\ leg[k][i].at = "dialing" /\ leg[k][i].inner = "put"
    /\ leg' = [leg EXCEPT ![k][i].inner = "over",
                          ![k][i].at = IF leg[k][i].c = "open" THEN "offering" ELSE "failed"]
    /\ UNCHANGED <<job, hist, dnsCache, w, call>>

IgnoresContext(k, i) ==   \* mutant: Dial waits for the result in any case
    /\ leg[k][i].at = "dialing" /\ leg[k][i].inner = "put" /\ Done(k, i)
    /\ leg' = [leg EXCEPT ![k][i].at = "failed"]
    /\ UNCHANGED <<job, hist, dnsCache, w, call>>

DialCancelled(k, i) ==
    /\ leg[k][i].at = "dialing" /\ Done(k, i)
    /\ leg' = [leg EXCEPT ![k][i].at = "failed"]
    /\ UNCHANGED <<job, hist, dnsCache, w, call>>

\* A lone dial: getRemote returns what Dial returns.
LoneReturns(k) ==
    /\ call[k].pc = "dial" /\ leg[k][1].at \in {"offering", "failed"}
    /\ call' = [call EXCEPT ![k].pc = "returned",
                            ![k].ret = IF leg[k][1].at = "offering" THEN 1 ELSE 0]
    /\ leg' = [leg EXCEPT ![k][1].at = "done"]
    /\ UNCHANGED <<job, hist, dnsCache, w>>

-----------------------------------------------------------------------------
(***************************************************************************)
(* The race of the two families.                                           *)
(***************************************************************************)

Racing(k) == call[k].pc \in {"race", "error"} \/ (call[k].pc = "returned" /\ leg[k][2] # NoLeg)

\* An error goes into errCh unless that is full.
LegFails(k, i) ==
    /\ Racing(k) /\ leg[k][i].at = "failed"
    /\ leg' = [leg EXCEPT ![k][i].at = "counting"]
    /\ call' = [call EXCEPT ![k].err = TRUE]
    /\ UNCHANGED <<job, hist, dnsCache, w>>

\* case c <- Winner{i, conn} meets <-c: the other leg is cancelled.
Wins(k, i) ==
    /\ call[k].pc = "race" /\ leg[k][i].at = "offering"
    /\ call' = [call EXCEPT ![k].pc = "returned", ![k].ret = i]
    /\ leg' = [leg EXCEPT ![k][i].at = "counting", ![k][3 - i].cancelled = TRUE]
    /\ UNCHANGED <<job, hist, dnsCache, w>>

LeavesOpen(k, i) ==   \* mutant: a connection nobody takes is not closed
    /\ Racing(k) /\ leg[k][i].at = "offering" /\ Done(k, i)
    /\ leg' = [leg EXCEPT ![k][i].at = "counting"]
    /\ UNCHANGED <<job, hist, dnsCache, w, call>>

\* case <-lctx.Done().
Abandons(k, i) ==
    /\ Racing(k) /\ leg[k][i].at = "offering" /\ Done(k, i)
    /\ leg' = [leg EXCEPT ![k][i].at = "counting", ![k][i].c = "closed"]
    /\ UNCHANGED <<job, hist, dnsCache, w, call>>

\* n.Add(1); the second to count closes c.
LegEnds(k, i) ==
    /\ leg[k][i].at = "counting"
    /\ leg' = [leg EXCEPT ![k][i].at = "done"]
    /\ call' = [call EXCEPT ![k].n = @ + 1, ![k].closed = call[k].n = 1]
    /\ UNCHANGED <<job, hist, dnsCache, w>>

\* <-c yields no winner: both legs are cancelled.
NobodyWins(k) ==
    /\ call[k].pc = "race" /\ call[k].closed
    /\ call' = [call EXCEPT ![k].pc = "error"]
    /\ leg' = [leg EXCEPT ![k] = [i \in Legs |-> [leg[k][i] EXCEPT !.cancelled = TRUE]]]
    /\ UNCHANGED <<job, hist, dnsCache, w>>

\* return nil, <-errCh.
ReturnsError(k) ==
    /\ call[k].pc = "error" /\ call[k].err
    /\ call' = [call EXCEPT ![k].pc = "returned", ![k].err = FALSE]
    /\ UNCHANGED <<job, hist, dnsCache, w, leg>>

\* The call and its goroutines are over, and the worker is not busy with its
\* question any more; its place is free for another call.
Forget(k) ==
    /\ call[k].pc = "returned" /\ w.q.for # k
    /\ \A i \in Legs : leg[k][i].at \in {"none", "done"} /\ leg[k][i].inner \in {"none", "over"}
    /\ call' = [call EXCEPT ![k] = NoCall]
    /\ leg' = [leg EXCEPT ![k] = [i \in Legs |-> NoLeg]]
    /\ UNCHANGED <<job, hist, dnsCache, w>>

-----------------------------------------------------------------------------
CallStep(k) ==
    \/ StopsWaiting(k) \/ Resolved(k) \/ LoneReturns(k) \/ NobodyWins(k) \/ ReturnsError(k)

LegStep(k, i) ==
    \/ DialReturns(k, i) \/ DialCancelled(k, i) \/ InnerEnds(k, i)
    \/ LegFails(k, i) \/ Wins(k, i) \/ Abandons(k, i) \/ LegEnds(k, i)

Running == job # "panic"

Next ==
    /\ Running
    /\ \/ \E c \in Configs : Load(c)
       \/ RunReturns
       \/ \E k \in Calls : \/ \E literal \in BOOLEAN : Begin(k, literal)
                           \/ Cancel(k) \/ CallStep(k) \/ Forget(k) \/ WorkerTakes(k)
                           \/ \E i \in Legs : \/ LegStep(k, i)
                                              \/ \E ok \in BOOLEAN : InnerDials(k, i, ok)
       \/ Connect \/ RoundTripFails \/ WorkerAnswers \/ IdleTimeout \/ WorkerReturns
       \/ \E some \in BOOLEAN : RoundTrip(some)
       \/ \E c \in 1 .. MaxLoads : Expire(c)

Spec == Init /\ [][Next]_vars

\* Goroutines run. No dial, no server and no caller has to do anything.
FairSpec ==
    /\ Spec
    /\ \A k \in Calls : WF_vars(Running /\ CallStep(k))
    /\ \A k \in Calls, i \in Legs : WF_vars(Running /\ LegStep(k, i))

-----------------------------------------------------------------------------
(***************************************************************************)
(* Correctness properties.                                                 *)
(***************************************************************************)

\* The dials of a call settle. A connection that getRemote returns is open, and
\* when the goroutines of the call have ended every other connection that was
\* dialled is closed: the one that lost the race, one that came up as the
\* context was cancelled, one that dialFallback was left alone with. And a race
\* without a winner has an error to return, unless its context was cancelled as
\* both dials succeeded: only then are both connections closed without an error,
\* and getRemote waits at <-errCh for ever.
RaceSettles ==
    \A k \in Calls :
        /\ \A i \in Legs :
              /\ call[k].ret = i => leg[k][i].c = "open"
              /\ (leg[k][i].at = "done" /\ leg[k][i].inner = "over" /\ leg[k][i].c = "open") =>
                    call[k].ret = i
        /\ (call[k].pc = "error" /\ ~call[k].err) =>
              call[k].gone /\ \A i \in Legs : leg[k][i].c = "closed"

\* A call whose context is cancelled returns, whatever its dials and the DNS
\* servers do, with the exception that RaceSettles states, and unless the worker brings
\* the program down.
CancelledReturns ==
    \A k \in Calls :
        call[k].gone ~> \/ call[k].pc = "returned"
                        \/ call[k].pc = "error" /\ ~call[k].err
                        \/ ~Running

\* What a call finds in the cache of the options in force was asked for under
\* their types, unless the worker had to reconnect after a reload in the middle
\* of the query (again): then it goes on with the types of the old options and
\* stores the result in the cache of the new ones. A worker that is connected
\* asks under options without servers too, and stores what it finds in the cache
\* of the options before them; no later options with servers share that cache.
CacheFits ==
    LET r == Cached(Current)
    IN (r # None /\ ~r.again /\ Current.conf.servers # {}) =>
          r.found \subseteq ToSet(Current.conf.types)
=============================================================================
