----------------------------- MODULE ScoreBoard -----------------------------
(***************************************************************************)
(* What the failover queue promises about its scores, without the order of *)
(* the queue, the streaks, the counters or the arithmetic of the mean: one *)
(* score changes at a time, and when that leaves all of them on one side   *)
(* of the middle, all move by the same amount, one that brings some value  *)
(* between the lowest and the highest of them to the middle.               *)
(***************************************************************************)
EXTENDS Integers

CONSTANTS
    MaxCandidates,  \* the most candidates a configuration has
    MaxScore        \* maxScore

\* What the constants are, as Failover gives them; a hypothesis of the theorems.
Constants == MaxCandidates \in Nat /\ MaxScore \in Nat

VARIABLE score

Half == MaxScore \div 2
Ids(k) == 0 .. (k - 1)
Fresh(k) == [e \in Ids(k) |-> Half]

AllLow(sc) == \A e \in DOMAIN sc : sc[e] < Half
AllHigh(sc) == \A e \in DOMAIN sc : sc[e] > Half

Init == \E k \in 0 .. MaxCandidates : score = Fresh(k)

Reset == \E k \in 0 .. MaxCandidates : score' = Fresh(k)

\* The score of e becomes v and the scores stay on both sides of the middle.
Change(e, v) ==
    LET sc == [score EXCEPT ![e] = v] IN
    /\ ~AllLow(sc) /\ ~AllHigh(sc)
    /\ score' = sc

\* They do not: all move by Half - a, where a is their mean, rounded.
Shift(e, v, a) ==
    LET sc == [score EXCEPT ![e] = v] IN
    /\ AllLow(sc) \/ AllHigh(sc)
    /\ \E lo, hi \in DOMAIN sc : sc[lo] <= a /\ a <= sc[hi]
    /\ score' = [c \in DOMAIN sc |-> sc[c] + Half - a]

Next ==
    /\ score' # score
    /\ \/ Reset
       \/ \E e \in DOMAIN score, v \in 0 .. MaxScore :
             Change(e, v) \/ \E a \in 0 .. MaxScore : Shift(e, v, a)

Spec == Init /\ [][Next]_score

-----------------------------------------------------------------------------
\* Every score stays on the scale 0 .. MaxScore, although a common offset is
\* added to all of them without any clamping.
OnScale ==
    \E k \in 0 .. MaxCandidates : score \in [Ids(k) -> 0 .. MaxScore]

\* The scores are never all low nor all high.
TwoSided ==
    DOMAIN score # {} => /\ \E e \in DOMAIN score : score[e] >= Half
                         /\ \E e \in DOMAIN score : score[e] <= Half
=============================================================================
