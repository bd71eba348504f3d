----------------------------- MODULE RoundRobin -----------------------------
(***************************************************************************)
(* The round-robin balancer (roundrobin.go): how getRemote chooses the     *)
(* candidate of each attempt.                                              *)
(*                                                                         *)
(* The first attempt of a connection takes a turn from an atomic counter   *)
(* that the connections share; the following ones go on from there. The    *)
(* closure keeps index and indexLoaded in two plain variables, which the   *)
(* calls NewConn makes at the same time (ConnOptions.Parallel) share. A    *)
(* reload whose candidates differ has a new counter: a new generation.     *)
(***************************************************************************)
EXTENDS Balancers, Naturals

CONSTANTS
    Calls,          \* calls of getRemote a connection may make at a time
    MaxReloads,     \* bound: reloads that change the candidates
    MaxAttempts     \* bound: attempts of a connection

ASSUME BoundsAssumption == {MaxCandidates, MaxReloads, MaxAttempts} \subseteq Nat

VARIABLES
    gen,      \* the current generation: opts.index
    size,     \* len(opts.Candidates) of each generation
    counter,  \* the atomic counter of each generation
    index,    \* index of each closure: a generation, 0 for nil
    loaded,   \* indexLoaded of each closure
    call,     \* the calls of getRemote
    turns,    \* history: how often each candidate had its turn, by generation
    begun     \* how many attempts each connection has begun

roundRobinVars == <<gen, size, counter, index, loaded, call, turns, begun>>

Generations == 1 .. (MaxReloads + 1)
Indices == 0 .. (MaxCandidates - 1)

NoCall == [pc |-> "idle", g |-> 0, i |-> 0]

RoundRobinInit ==
    /\ gen = 1
    /\ \E n \in 0 .. MaxCandidates : size = [g \in Generations |-> IF g = 1 THEN n ELSE 0]
    /\ \E i \in Indices : /\ i < size[1] \/ i = 0
                          /\ counter = [g \in Generations |-> IF g = 1 THEN i ELSE 0]
    /\ index = [c \in Conns |-> 0]
    /\ loaded = [c \in Conns |-> 0]
    /\ call = [c \in Conns |-> [k \in Calls |-> NoCall]]
    /\ turns = [g \in Generations |-> [i \in Indices |-> 0]]
    /\ begun = [c \in Conns |-> 0]

-----------------------------------------------------------------------------
\* case LoadEvent, when the candidates differ from the old ones. Without
\* candidates there is no counter.
ReloadCandidates(n, i) ==
    /\ gen <= MaxReloads
    /\ i < n \/ i = 0
    /\ gen' = gen + 1
    /\ size' = [size EXCEPT ![gen + 1] = n]
    /\ counter' = [counter EXCEPT ![gen + 1] = i]
    /\ UNCHANGED <<index, loaded, call, turns, begun>>

\* opts := <-optsOut; without candidates it returns CloseConn.
Begin(c, k) ==
    /\ call[c][k].pc = "idle"
    /\ begun[c] < MaxAttempts
    /\ begun' = [begun EXCEPT ![c] = @ + 1]
    /\ call' = [call EXCEPT ![c][k] =
                   IF size[gen] = 0 THEN NoCall ELSE [pc |-> "compare", g |-> gen, i |-> 0]]
    /\ UNCHANGED <<gen, size, counter, index, loaded, turns>>

\* if index == nil || index != opts.index { index = opts.index ...
Compare(c, k) ==
    LET me == call[c][k] IN
    /\ me.pc = "compare"
    /\ IF index[c] # me.g
       THEN /\ index' = [index EXCEPT ![c] = me.g]
            /\ call' = [call EXCEPT ![c][k].pc = "load"]
       ELSE /\ call' = [call EXCEPT ![c][k].pc = "next"]
            /\ UNCHANGED index
    /\ UNCHANGED <<gen, size, counter, loaded, turns, begun>>

\* i := index.Load()
Load(c, k) ==
    /\ call[c][k].pc = "load"
    /\ call' = [call EXCEPT ![c][k].pc = "swap", ![c][k].i = counter[index[c]]]
    /\ UNCHANGED <<gen, size, counter, index, loaded, turns, begun>>

BlindStore(c, k) ==   \* mutant: a plain store instead of CompareAndSwap
    LET me == call[c][k] IN
    /\ me.pc = "swap"
    /\ counter' = [counter EXCEPT ![index[c]] = (me.i + 1) % size[me.g]]
    /\ turns' = [turns EXCEPT ![index[c]][me.i] = @ + 1]
    /\ call' = [call EXCEPT ![c][k].pc = "store"]
    /\ UNCHANGED <<gen, size, index, loaded, begun>>

\* index.CompareAndSwap(i, (i+1)%n), tried again from Load when it fails
CompareAndSwap(c, k) ==
    LET me == call[c][k] IN
    /\ me.pc = "swap"
    /\ IF counter[index[c]] = me.i
       THEN /\ counter' = [counter EXCEPT ![index[c]] = (me.i + 1) % size[me.g]]
            /\ turns' = [turns EXCEPT ![index[c]][me.i] = @ + 1]
            /\ call' = [call EXCEPT ![c][k].pc = "store"]
       ELSE /\ call' = [call EXCEPT ![c][k].pc = "load"]
            /\ UNCHANGED <<counter, turns>>
    /\ UNCHANGED <<gen, size, index, loaded, begun>>

\* ... else { indexLoaded = (indexLoaded + 1) % n }: the read
NextIndex(c, k) ==
    /\ call[c][k].pc = "next"
    /\ call' = [call EXCEPT ![c][k].pc = "store",
                            ![c][k].i = (loaded[c] + 1) % size[call[c][k].g]]
    /\ UNCHANGED <<gen, size, counter, index, loaded, turns, begun>>

\* the assignment of indexLoaded, in either branch
StoreIndex(c, k) ==
    /\ call[c][k].pc = "store"
    /\ loaded' = [loaded EXCEPT ![c] = call[c][k].i]
    /\ call' = [call EXCEPT ![c][k].pc = "dial"]
    /\ UNCHANGED <<gen, size, counter, index, turns, begun>>

\* opts.Candidates[indexLoaded].Dialer(), which panics out of range
Dial(c, k) ==
    /\ call[c][k].pc = "dial"
    /\ loaded[c] < size[call[c][k].g]
    /\ call' = [call EXCEPT ![c][k] = NoCall]
    /\ UNCHANGED <<gen, size, counter, index, loaded, turns, begun>>

RoundRobinNext ==
    \/ \E n \in 0 .. MaxCandidates, i \in Indices : ReloadCandidates(n, i)
    \/ \E c \in Conns, k \in Calls :
          \/ Begin(c, k) \/ Compare(c, k) \/ Load(c, k) \/ CompareAndSwap(c, k)
          \/ NextIndex(c, k) \/ StoreIndex(c, k) \/ Dial(c, k)

RoundRobinSpec == RoundRobinInit /\ [][RoundRobinNext]_roundRobinVars

-----------------------------------------------------------------------------
\* No panic: the index with which a call addresses the candidates it has read
\* is one of theirs. It is, across reloads, for attempts made one at a time;
\* "Parallel specifies the number of attempts that can be made at the same
\* time", and attempts that overlap share index and indexLoaded.
InRange ==
    \A c \in Conns, k \in Calls :
        call[c][k].pc = "dial" => loaded[c] < size[call[c][k].g]

\* Round robin: in a generation no candidate has had two turns more than
\* another, whichever way connections race for their turns.
TurnsFair ==
    \A g \in Generations : \A i, j \in 0 .. (size[g] - 1) : turns[g][i] <= turns[g][j] + 1

\* What attempts that overlap need: no reload has changed the number of
\* candidates. Without overlap nothing is needed.
OneCall == \A j, k \in Calls : j = k
KeptSize == \A g \in 1 .. gen : size[g] = size[1]

\* Then they may share index and indexLoaded, and even the counter of a newer
\* generation than the candidates they have read: no index is out of range and
\* the turns are even.
SafeUnlessResized == (OneCall \/ KeptSize) => InRange /\ TurnsFair
=============================================================================
