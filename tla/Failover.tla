------------------------------ MODULE Failover ------------------------------
(***************************************************************************)
(* The candidate queue of the failover balancer (failover.go) and the      *)
(* connections that score its candidates.                                  *)
(*                                                                         *)
(* pick and fix hold q.mu, so each of them is one step. Connections dial,  *)
(* read and close concurrently; a reload may replace the queue, and the    *)
(* connections of the old queue then score elements nobody picks any more. *)
(***************************************************************************)
EXTENDS Balancers, Integers, Sequences, FiniteSets, SequencesExt

CONSTANTS
    MaxScore,       \* maxScore
    MaxN            \* maxN

ASSUME ScoreAssumption == MaxScore \in Nat \ {0} /\ MaxN \in Nat \ {0}
ASSUME CandidatesAssumption == MaxCandidates \in Nat \ {0}

VARIABLES
    elems,    \* q.elems: indices of the candidates, best first
    score,    \* e.Score of each candidate
    streak,   \* e.N of each candidate
    nLow,     \* q.nLowScore
    nHigh,    \* q.nHighScore
    conn      \* the connections

queueVars == <<elems, score, streak, nLow, nHigh>>
vars == <<elems, score, streak, nLow, nHigh, conn>>

Half == MaxScore \div 2
Candidates == DOMAIN score

NoConn == [st |-> "none", e |-> 0, stale |-> FALSE,
           success |-> FALSE, failure |-> FALSE, readfailed |-> FALSE,
           counted |-> 0]   \* history: how often this connection was scored

-----------------------------------------------------------------------------
(***************************************************************************)
(* Elements.                                                               *)
(***************************************************************************)

fib[n \in 0 .. MaxN] == IF n < 2 THEN n ELSE fib[n - 1] + fib[n - 2]

AtMost(x, b) == IF x > b THEN b ELSE x
AtLeast(x, b) == IF x < b THEN b ELSE x

\* The streak and the score of an element after succ ...
SuccN(n) == AtMost((IF n < 0 THEN 0 ELSE n) + 1, MaxN)
SuccScore(sc, n) == AtMost(sc + fib[SuccN(n)], MaxScore)

\* ... and after fail.
FailN(n) == AtLeast((IF n > 0 THEN 0 ELSE n) - 1, -MaxN)
FailScore(sc, n) == AtLeast(sc - fib[-FailN(n)], 0)

\* An element at the end of the scale is left alone.
Frozen(e, success) == score[e] = (IF success THEN MaxScore ELSE 0)

-----------------------------------------------------------------------------
(***************************************************************************)
(* The queue.                                                              *)
(***************************************************************************)

NewElems(k) == [i \in 1 .. k |-> i - 1]
NewScores(k) == [e \in 0 .. (k - 1) |-> Half]
NewStreaks(k) == [e \in 0 .. (k - 1) |-> 0]

\* The two loops of fix that move the element at position i: down while its
\* neighbour scores more, else up while its neighbour scores less.
Down(s, sc, i) == CHOOSE j \in i .. Len(s) :
    /\ \A m \in (i + 1) .. j : sc[s[m]] > sc[s[i]]
    /\ j = Len(s) \/ sc[s[j + 1]] <= sc[s[i]]
Up(s, sc, i) == CHOOSE j \in 1 .. i :
    /\ \A m \in j .. (i - 1) : sc[s[m]] < sc[s[i]]
    /\ j = 1 \/ sc[s[j - 1]] >= sc[s[i]]

Moved(s, sc, e) ==
    LET i == CHOOSE p \in DOMAIN s : s[p] = e
        down == Down(s, sc, i)
        j == IF down > i THEN down ELSE Up(s, sc, i)
    IN InsertAt(RemoveAt(s, i), j, e)

\* scoreChanged: the change of the two counters, by the sides of Half.
Low(x) == IF x < Half THEN 1 ELSE 0
HighOrHalf(x) == IF x >= Half THEN 1 ELSE 0   \* mutant: off by one
High(x) == IF x > Half THEN 1 ELSE 0
LowChange(old, new) == Low(new) - Low(old)
HighChange(old, new) == High(new) - High(old)

\* The loops of fix that add something up for each element.
Sums(s, f) ==
    LET sum[i \in 0 .. Len(s)] == IF i = 0 THEN 0 ELSE sum[i - 1] + f[s[i]] IN sum
Total(s, f) == Sums(s, f)[Len(s)]

StaleOffset(s, sc) ==   \* mutant: the mean of the scores before the change
    Half - (Total(s, score) \div Len(s))

\* How far all scores move when they are all low or all high.
Offset(s, sc) == Half - (Total(s, sc) \div Len(s))

\* fix, for an element whose score changes.
Fix(e, success) ==
    LET old == score[e]
        new == IF success THEN SuccScore(old, streak[e]) ELSE FailScore(old, streak[e])
        sc == [score EXCEPT ![e] = new]
        low == nLow + LowChange(old, new)
        high == nHigh + HighChange(old, new)
        off == IF low < Len(elems) /\ high < Len(elems) THEN 0 ELSE Offset(elems, sc)
    IN
    /\ streak' = [streak EXCEPT ![e] = IF success THEN SuccN(@) ELSE FailN(@)]
    /\ elems' = Moved(elems, sc, e)
    /\ score' = [c \in Candidates |-> sc[c] + off]
    /\ nLow' = low + Total(elems, [c \in DOMAIN sc |-> LowChange(sc[c], sc[c] + off)])
    /\ nHigh' = high + Total(elems, [c \in DOMAIN sc |-> HighChange(sc[c], sc[c] + off)])

\* Scoring the candidate of connection k.
Score(k, success) ==
    IF conn[k].stale \/ Frozen(conn[k].e, success)
    THEN UNCHANGED queueVars
    ELSE Fix(conn[k].e, success)

-----------------------------------------------------------------------------
Init ==
    /\ \E k \in 1 .. MaxCandidates :
          elems = NewElems(k) /\ score = NewScores(k) /\ streak = NewStreaks(k)
    /\ nLow = 0 /\ nHigh = 0
    /\ conn = [k \in Conns |-> NoConn]

\* A reload whose candidates differ: newQueue, or no queue without candidates.
\* Which element of the old queue a connection scores makes no difference.
Reload(k) ==
    /\ elems' = NewElems(k)
    /\ score' = NewScores(k)
    /\ streak' = NewStreaks(k)
    /\ nLow' = 0 /\ nHigh' = 0
    /\ conn' = [c \in Conns |-> [conn[c] EXCEPT !.stale = conn[c].st # "none", !.e = 0]]

\* pick: sort.Search finds how many elements tie with the first; one of them
\* is taken at random. Without a queue getRemote returns CloseConn.
Pick(k) ==
    /\ conn[k].st = "none"
    /\ elems # <<>>
    /\ LET m == CHOOSE m \in DOMAIN elems :
                   /\ score[elems[m]] >= score[elems[1]]
                   /\ m = Len(elems) \/ score[elems[m + 1]] < score[elems[1]]
       IN \E i \in 1 .. m : conn' = [conn EXCEPT ![k] = [NoConn EXCEPT !.st = "dialing", !.e = elems[i]]]
    /\ UNCHANGED queueVars

\* proxy.Dial fails: the candidate is marked down.
DialFails(k) ==
    /\ conn[k].st = "dialing"
    /\ Score(k, FALSE)
    /\ conn' = [conn EXCEPT ![k] = NoConn]

DialSucceeds(k) ==
    /\ conn[k].st = "dialing"
    /\ conn' = [conn EXCEPT ![k].st = "open"]
    /\ UNCHANGED queueVars

\* conn.Read: the first data counts as a success; an error is remembered.
Read(k, data, err) ==
    /\ conn[k].st = "open"
    /\ data \/ err
    /\ IF data /\ ~conn[k].success
       THEN Score(k, TRUE)
       ELSE UNCHANGED queueVars
    /\ conn' = [conn EXCEPT ![k].success = @ \/ data,
                            ![k].readfailed = @ \/ err,
                            ![k].counted = @ + (IF data /\ ~conn[k].success THEN 1 ELSE 0)]

FailsEvenIfRead(k) == ~conn[k].failure /\ conn[k].readfailed   \* mutant: success ignored
Fails(k) == ~conn[k].success /\ ~conn[k].failure /\ conn[k].readfailed

\* conn.Close, which may be called again: a failed connection that never gave
\* data counts as a failure.
Close(k) ==
    /\ conn[k].st \in {"open", "closed"}
    /\ IF Fails(k) THEN Score(k, FALSE) ELSE UNCHANGED queueVars
    /\ conn' = [conn EXCEPT ![k].st = "closed",
                            ![k].failure = @ \/ Fails(k),
                            ![k].counted = @ + (IF Fails(k) THEN 1 ELSE 0)]

\* The connection is garbage; its place is free for another.
Forget(k) ==
    /\ conn[k].st = "closed"
    /\ conn' = [conn EXCEPT ![k] = NoConn]
    /\ UNCHANGED queueVars

Next ==
    \/ \E k \in 0 .. MaxCandidates : Reload(k)
    \/ \E k \in Conns :
          \/ Pick(k) \/ DialFails(k) \/ DialSucceeds(k)
          \/ \E data, err \in BOOLEAN : Read(k, data, err)
          \/ Close(k) \/ Forget(k)

Spec == Init /\ [][Next]_vars

-----------------------------------------------------------------------------
(***************************************************************************)
(* Correctness properties.                                                 *)
(***************************************************************************)

\* The queue holds every candidate once, in descending order of score, after
\* any sequence of successes and failures of concurrent connections; and the
\* counters that scoreChanged adjusts step by step are exact: "Number of elems
\* that have low score (lower than maxScore/2)", and likewise for high.
QueueExact ==
    /\ ToSet(elems) = Candidates
    /\ \A i, j \in DOMAIN elems : i < j => score[elems[i]] >= score[elems[j]]
    /\ nLow = Cardinality({e \in Candidates : score[e] < Half})
    /\ nHigh = Cardinality({e \in Candidates : score[e] > Half})

\* A connection is scored at most once, as a success or as a failure, however
\* often it is read from and closed.
ScoredOnce == \A k \in Conns : conn[k].counted <= 1

\* fix, with its order, counters and integer mean, changes the scores only in
\* the ways the abstract score board allows; what is proved of the board holds
\* of the queue.
Board ==
    INSTANCE ScoreBoard WITH
        MaxCandidates <- MaxCandidates, MaxScore <- MaxScore, score <- score
ImplementsBoard == Board!Spec
=============================================================================
