-------------------------- MODULE Balancer_proofs --------------------------
(***************************************************************************)
(* The failover balancer, for any number of candidates and connections,    *)
(* any length of the scale and of a streak: its queue keeps every          *)
(* candidate once, best first, with exact counters; a connection is scored *)
(* once; and fix changes the scores as the score board says, so that they  *)
(* stay on the scale and on both sides of its middle.                      *)
(*                                                                         *)
(* The round-robin balancer, for any number of candidates, connections,    *)
(* overlapping attempts and reloads: unless attempts overlap and a reload  *)
(* changes the number of candidates, every index is in range and the turns *)
(* are shared evenly.                                                      *)
(***************************************************************************)
EXTENDS Failover, RoundRobin, FiniteSetTheorems, SequenceTheorems, TLAPS

(***************************************************************************)
(* Induction over natural numbers, for a set of them.                      *)
(***************************************************************************)

\* A set of natural numbers that is not empty has a least element.
LEMMA Least ==
  ASSUME NEW T \in SUBSET Nat, T # {}
  PROVE  \E n \in T : \A m \in T : n <= m
<1>1. PICK n \in T : \A m \in T : ~(<<m, n>> \in OpToRel(<, Nat))
  BY WFMin, NatLessThanWellFounded
<1>2. \A m \in T : ~(m < n)
  BY <1>1 DEF OpToRel
<1> QED BY <1>2

\* A set that holds a number if it holds all smaller ones holds all.
LEMMA AllNumbers ==
  ASSUME NEW T \in SUBSET Nat,
         \A n \in Nat : (\A m \in 0 .. (n - 1) : m \in T) => n \in T
  PROVE  \A n \in Nat : n \in T
<1> SUFFICES ASSUME Nat \ T # {} PROVE FALSE
  OBVIOUS
<1>1. PICK n \in Nat \ T : \A m \in Nat \ T : n <= m
  BY Least
<1>2. \A m \in 0 .. (n - 1) : m \in T
  BY <1>1
<1> QED BY <1>1, <1>2

-----------------------------------------------------------------------------
(***************************************************************************)
(* The recursive functions are what their equations say.                   *)
(***************************************************************************)

LEMMA SumsExist ==
  ASSUME NEW s, NEW f
  PROVE  \A n \in Nat : \E g : g = [i \in 0 .. n |-> IF i = 0 THEN 0 ELSE g[i - 1] + f[s[i]]]
<1> DEFINE P(n) == \E g : g = [i \in 0 .. n |-> IF i = 0 THEN 0 ELSE g[i - 1] + f[s[i]]]
           T == {n \in Nat : P(n)}
<1>1. ASSUME NEW n \in Nat, \A m \in 0 .. (n - 1) : m \in T PROVE n \in T
  <2>1. CASE n = 0
    <3> DEFINE g == [i \in 0 .. 0 |-> 0]
    <3>1. g = [i \in 0 .. 0 |-> IF i = 0 THEN 0 ELSE g[i - 1] + f[s[i]]]
      OBVIOUS
    <3> QED BY <2>1, <3>1
  <2>2. CASE n # 0
    <3>1. n - 1 \in T
      BY <1>1, <2>2
    <3>2. PICK g : g = [i \in 0 .. (n - 1) |-> IF i = 0 THEN 0 ELSE g[i - 1] + f[s[i]]]
      BY <3>1
    <3> DEFINE h == [i \in 0 .. n |-> IF i = n THEN g[n - 1] + f[s[n]] ELSE g[i]]
    <3>3. \A i \in 0 .. n : h[i] = IF i = 0 THEN 0 ELSE h[i - 1] + f[s[i]]
      BY <2>2, <3>2
    <3>4. h = [i \in 0 .. n |-> IF i = 0 THEN 0 ELSE h[i - 1] + f[s[i]]]
      BY <3>3
    <3> QED BY <3>4
  <2> QED BY <2>1, <2>2
<1>2. \A n \in Nat : n \in T
  <2> HIDE DEF T
  <2>1. T \in SUBSET Nat BY DEF T
  <2> QED BY <1>1, <2>1, AllNumbers
<1> QED BY <1>2

\* The sums are added up from the first element to the last.
LEMMA SumsAt ==
  ASSUME NEW s, NEW f, Len(s) \in Nat
  PROVE  /\ Sums(s, f)[0] = 0
         /\ \A i \in 1 .. Len(s) : Sums(s, f)[i] = Sums(s, f)[i - 1] + f[s[i]]
<1>1. \E g : g = [i \in 0 .. Len(s) |-> IF i = 0 THEN 0 ELSE g[i - 1] + f[s[i]]]
  BY SumsExist
<1>2. Sums(s, f) = [i \in 0 .. Len(s) |-> IF i = 0 THEN 0 ELSE Sums(s, f)[i - 1] + f[s[i]]]
  BY <1>1 DEF Sums
<1> QED BY <1>2

LEMMA FibExists ==
  \A n \in Nat : \E g : g = [i \in 0 .. n |-> IF i < 2 THEN i ELSE g[i - 1] + g[i - 2]]
<1> DEFINE P(n) == \E g : g = [i \in 0 .. n |-> IF i < 2 THEN i ELSE g[i - 1] + g[i - 2]]
           T == {n \in Nat : P(n)}
<1>1. ASSUME NEW n \in Nat, \A m \in 0 .. (n - 1) : m \in T PROVE n \in T
  <2>1. CASE n = 0
    <3> DEFINE g == [i \in 0 .. 0 |-> i]
    <3>1. g = [i \in 0 .. 0 |-> IF i < 2 THEN i ELSE g[i - 1] + g[i - 2]]
      OBVIOUS
    <3> QED BY <2>1, <3>1
  <2>2. CASE n # 0
    <3>1. n - 1 \in T
      BY <1>1, <2>2
    <3>2. PICK g : g = [i \in 0 .. (n - 1) |-> IF i < 2 THEN i ELSE g[i - 1] + g[i - 2]]
      BY <3>1
    <3> DEFINE h == [i \in 0 .. n |-> IF i < n THEN g[i]
                                      ELSE IF n < 2 THEN n ELSE g[n - 1] + g[n - 2]]
    <3>3. \A i \in 0 .. n : h[i] = IF i < 2 THEN i ELSE h[i - 1] + h[i - 2]
      BY <2>2, <3>2
    <3>4. h = [i \in 0 .. n |-> IF i < 2 THEN i ELSE h[i - 1] + h[i - 2]]
      BY <3>3
    <3> QED BY <3>4
  <2> QED BY <2>1, <2>2
<1>2. \A n \in Nat : n \in T
  <2> HIDE DEF T
  <2>1. T \in SUBSET Nat BY DEF T
  <2> QED BY <1>1, <2>1, AllNumbers
<1> QED BY <1>2

\* A step of the scores is a natural number.
LEMMA FibNat == \A n \in 0 .. MaxN : fib[n] \in Nat
<1> DEFINE T == {n \in Nat : n <= MaxN => fib[n] \in Nat}
<1>0. MaxN \in Nat
  BY ScoreAssumption
<1>1. fib = [i \in 0 .. MaxN |-> IF i < 2 THEN i ELSE fib[i - 1] + fib[i - 2]]
  <2>1. \E g : g = [i \in 0 .. MaxN |-> IF i < 2 THEN i ELSE g[i - 1] + g[i - 2]]
    BY <1>0, FibExists
  <2> QED BY <2>1 DEF fib
<1>2. ASSUME NEW n \in Nat, \A m \in 0 .. (n - 1) : m \in T PROVE n \in T
  <2> SUFFICES ASSUME n <= MaxN PROVE fib[n] \in Nat
    OBVIOUS
  <2>1. fib[n] = IF n < 2 THEN n ELSE fib[n - 1] + fib[n - 2]
    BY <1>0, <1>1
  <2>2. CASE n < 2
    BY <2>1, <2>2
  <2>3. CASE ~(n < 2)
    <3>1. fib[n - 1] \in Nat /\ fib[n - 2] \in Nat
      BY <1>0, <1>2, <2>3
    <3> QED BY <2>1, <2>3, <3>1
  <2> QED BY <2>2, <2>3
<1>3. \A n \in Nat : n \in T
  <2> HIDE DEF T
  <2>1. T \in SUBSET Nat BY DEF T
  <2> QED BY <1>2, <2>1, AllNumbers
<1> QED BY <1>0, <1>3

-----------------------------------------------------------------------------
(***************************************************************************)
(* Elements.                                                               *)
(***************************************************************************)

Streaks == (-MaxN) .. MaxN
Scale == 0 .. MaxScore

\* A new score of a candidate is on the scale, and its streak is bounded.
LEMMA ElementTyped ==
  ASSUME NEW n \in Streaks, NEW x \in Scale
  PROVE  /\ SuccN(n) \in Streaks /\ SuccScore(x, n) \in Scale
         /\ FailN(n) \in Streaks /\ FailScore(x, n) \in Scale
<1>0. MaxN \in Nat \ {0} /\ MaxScore \in Nat \ {0}
  BY ScoreAssumption
<1>1. SuccN(n) \in 1 .. MaxN
  BY <1>0 DEF SuccN, AtMost, Streaks
<1>2. -FailN(n) \in 1 .. MaxN /\ FailN(n) \in Streaks
  BY <1>0 DEF FailN, AtLeast, Streaks
<1>3. fib[SuccN(n)] \in Nat /\ fib[-FailN(n)] \in Nat
  BY <1>0, <1>1, <1>2, FibNat
<1>4. SuccScore(x, n) \in Scale
  BY <1>0, <1>3 DEF SuccScore, AtMost, Scale
<1>5. FailScore(x, n) \in Scale
  BY <1>0, <1>3 DEF FailScore, AtLeast, Scale
<1> QED BY <1>0, <1>1, <1>2, <1>4, <1>5 DEF Streaks

-----------------------------------------------------------------------------
(***************************************************************************)
(* Queues: each element of C once.                                         *)
(***************************************************************************)

Each(s, C) ==
    /\ s \in Seq(C)
    /\ \A e \in C : \E i \in 1 .. Len(s) : s[i] = e
    /\ \A i, j \in 1 .. Len(s) : s[i] = s[j] => i = j

\* What is in the first i places.
Before(s, i) == {s[j] : j \in 1 .. i}

LEMMA BeforeNext ==
  ASSUME NEW C, NEW s, Each(s, C), NEW i \in 1 .. Len(s)
  PROVE  Before(s, i) = Before(s, i - 1) \cup {s[i]} /\ s[i] \notin Before(s, i - 1) /\ s[i] \in C
<1>1. Len(s) \in Nat /\ s[i] \in C
  BY DEF Each
<1>2. \A j \in 1 .. i : j \in 1 .. (i - 1) \/ j = i
  BY <1>1
<1>3. \A j \in 1 .. (i - 1) : j \in 1 .. i /\ j # i /\ j \in 1 .. Len(s)
  BY <1>1
<1>4. \A j \in 1 .. (i - 1) : s[j] # s[i]
  BY <1>3 DEF Each
<1> QED BY <1>1, <1>2, <1>3, <1>4 DEF Before

LEMMA BeforeAll ==
  ASSUME NEW C, NEW s, Each(s, C)
  PROVE  Before(s, 0) = {} /\ Before(s, Len(s)) = C
<1>1. \A j \in 1 .. 0 : FALSE
  OBVIOUS
<1>2. \A i \in 1 .. Len(s) : s[i] \in C
  BY DEF Each
<1> QED BY <1>1, <1>2 DEF Before, Each

\* There are as many elements as places.
LEMMA EachCount ==
  ASSUME NEW C, NEW s, Each(s, C)
  PROVE  IsFiniteSet(C) /\ Cardinality(C) = Len(s)
<1> DEFINE T == {i \in Nat : i <= Len(s) => /\ IsFiniteSet(Before(s, i))
                                            /\ Cardinality(Before(s, i)) = i}
<1>0. Len(s) \in Nat
  BY DEF Each
<1>1. ASSUME NEW n \in Nat, \A m \in 0 .. (n - 1) : m \in T PROVE n \in T
  <2> SUFFICES ASSUME n <= Len(s)
               PROVE  IsFiniteSet(Before(s, n)) /\ Cardinality(Before(s, n)) = n
    OBVIOUS
  <2>1. CASE n = 0
    BY <2>1, BeforeAll, FS_EmptySet
  <2>2. CASE n # 0
    <3>1. n - 1 \in 0 .. (n - 1) /\ n - 1 <= Len(s) /\ n \in 1 .. Len(s)
      BY <1>0, <2>2
    <3>2. IsFiniteSet(Before(s, n - 1)) /\ Cardinality(Before(s, n - 1)) = n - 1
      BY <1>1, <3>1
    <3>3. Before(s, n) = Before(s, n - 1) \cup {s[n]} /\ s[n] \notin Before(s, n - 1)
      BY <3>1, BeforeNext
    <3>4. /\ IsFiniteSet(Before(s, n - 1) \cup {s[n]})
          /\ Cardinality(Before(s, n - 1) \cup {s[n]}) = Cardinality(Before(s, n - 1)) + 1
      BY <3>2, <3>3, FS_AddElement
    <3> QED BY <3>2, <3>3, <3>4
  <2> QED BY <2>1, <2>2
<1>2. \A n \in Nat : n \in T
  <2> HIDE DEF T
  <2>1. T \in SUBSET Nat BY DEF T
  <2> QED BY <1>1, <2>1, AllNumbers
<1>3. Len(s) \in T
  BY <1>0, <1>2
<1> QED BY <1>0, <1>3, BeforeAll

-----------------------------------------------------------------------------
(***************************************************************************)
(* Sums over a queue.                                                      *)
(***************************************************************************)

\* The sides of the middle.
LowIn(sc, D) == {e \in D : sc[e] < Half}
HighIn(sc, D) == {e \in D : sc[e] > Half}

LEMMA HalfInt == Half \in Nat
BY ScoreAssumption DEF Half

\* Adding an element to the ones that are counted.
LEMMA CountOne ==
  ASSUME NEW C, NEW sc \in [C -> Int], NEW D \in SUBSET C, IsFiniteSet(C), NEW e \in C, e \notin D
  PROVE  /\ Cardinality(LowIn(sc, D)) \in Nat /\ Cardinality(HighIn(sc, D)) \in Nat
         /\ Cardinality(LowIn(sc, D \cup {e})) = Cardinality(LowIn(sc, D)) + Low(sc[e])
         /\ Cardinality(HighIn(sc, D \cup {e})) = Cardinality(HighIn(sc, D)) + High(sc[e])
<1>1. LowIn(sc, D) \in SUBSET C /\ HighIn(sc, D) \in SUBSET C
  BY DEF LowIn, HighIn
<1>2. IsFiniteSet(LowIn(sc, D)) /\ IsFiniteSet(HighIn(sc, D))
  BY <1>1, FS_Subset
<1>3. Cardinality(LowIn(sc, D)) \in Nat /\ Cardinality(HighIn(sc, D)) \in Nat
  BY <1>2, FS_CardinalityType
<1>4. Cardinality(LowIn(sc, D \cup {e})) = Cardinality(LowIn(sc, D)) + Low(sc[e])
  <2>1. CASE sc[e] < Half
    <3>1. LowIn(sc, D \cup {e}) = LowIn(sc, D) \cup {e} /\ e \notin LowIn(sc, D)
      BY <2>1 DEF LowIn
    <3>2. Cardinality(LowIn(sc, D) \cup {e}) = Cardinality(LowIn(sc, D)) + 1
      BY <1>2, <3>1, FS_AddElement
    <3> QED BY <2>1, <3>1, <3>2 DEF Low
  <2>2. CASE ~(sc[e] < Half)
    <3>1. LowIn(sc, D \cup {e}) = LowIn(sc, D)
      BY <2>2 DEF LowIn
    <3> QED BY <1>3, <2>2, <3>1 DEF Low
  <2> QED BY <2>1, <2>2
<1>5. Cardinality(HighIn(sc, D \cup {e})) = Cardinality(HighIn(sc, D)) + High(sc[e])
  <2>1. CASE sc[e] > Half
    <3>1. HighIn(sc, D \cup {e}) = HighIn(sc, D) \cup {e} /\ e \notin HighIn(sc, D)
      BY <2>1 DEF HighIn
    <3>2. Cardinality(HighIn(sc, D) \cup {e}) = Cardinality(HighIn(sc, D)) + 1
      BY <1>2, <3>1, FS_AddElement
    <3> QED BY <2>1, <3>1, <3>2 DEF High
  <2>2. CASE ~(sc[e] > Half)
    <3>1. HighIn(sc, D \cup {e}) = HighIn(sc, D)
      BY <2>2 DEF HighIn
    <3> QED BY <1>3, <2>2, <3>1 DEF High
  <2> QED BY <2>1, <2>2
<1> QED BY <1>3, <1>4, <1>5

\* scoreChanged, called for each element, counts the elements anew.
LEMMA TotalCounts ==
  ASSUME NEW C, NEW s, Each(s, C), NEW a \in [C -> Int], NEW b \in [C -> Int],
         NEW lows, NEW highs,
         \A c \in C : lows[c] = LowChange(a[c], b[c]) /\ highs[c] = HighChange(a[c], b[c])
  PROVE  /\ Total(s, lows) = Cardinality(LowIn(b, C)) - Cardinality(LowIn(a, C))
         /\ Total(s, highs) = Cardinality(HighIn(b, C)) - Cardinality(HighIn(a, C))
<1> DEFINE P(i) == LET D == Before(s, i) IN
             /\ Sums(s, lows)[i] = Cardinality(LowIn(b, D)) - Cardinality(LowIn(a, D))
             /\ Sums(s, highs)[i] = Cardinality(HighIn(b, D)) - Cardinality(HighIn(a, D))
           T == {i \in Nat : i <= Len(s) => P(i)}
<1>0. Len(s) \in Nat /\ IsFiniteSet(C)
  <2>1. Len(s) \in Nat BY DEF Each
  <2> QED BY <2>1, EachCount
<1>1. ASSUME NEW n \in Nat, \A m \in 0 .. (n - 1) : m \in T PROVE n \in T
  <2> SUFFICES ASSUME n <= Len(s) PROVE P(n)
    OBVIOUS
  <2>1. CASE n = 0
    <3>1. Sums(s, lows)[0] = 0 /\ Sums(s, highs)[0] = 0
      BY <1>0, SumsAt
    <3>2. /\ LowIn(a, Before(s, 0)) = {} /\ LowIn(b, Before(s, 0)) = {}
          /\ HighIn(a, Before(s, 0)) = {} /\ HighIn(b, Before(s, 0)) = {}
      BY BeforeAll DEF LowIn, HighIn
    <3>3. Cardinality({}) = 0 /\ 0 = 0 - 0
      BY FS_EmptySet
    <3>4. P(0)
      BY <3>1, <3>2, <3>3
    <3> QED BY <2>1, <3>4
  <2>2. CASE n # 0
    <3> DEFINE D == Before(s, n - 1)
               e == s[n]
    <3>1. n - 1 \in 0 .. (n - 1) /\ n - 1 <= Len(s) /\ n \in 1 .. Len(s)
      BY <1>0, <2>2
    <3>2. P(n - 1)
      BY <1>1, <3>1
    <3>3. Before(s, n) = D \cup {e} /\ e \notin D /\ e \in C
      BY <3>1, BeforeNext
    <3>4. D \in SUBSET C
      <4>1. \A j \in 1 .. (n - 1) : s[j] \in C
        BY <1>0, <3>1 DEF Each
      <4> QED BY <4>1 DEF Before
    <3>5. /\ Sums(s, lows)[n] = Sums(s, lows)[n - 1] + lows[e]
          /\ Sums(s, highs)[n] = Sums(s, highs)[n - 1] + highs[e]
      BY <1>0, <3>1, SumsAt
    <3>6. lows[e] = Low(b[e]) - Low(a[e]) /\ highs[e] = High(b[e]) - High(a[e])
      BY <3>3 DEF LowChange, HighChange
    <3>7. Low(b[e]) \in Int /\ Low(a[e]) \in Int /\ High(b[e]) \in Int /\ High(a[e]) \in Int
      BY DEF Low, High
    <3> HIDE DEF D, e, P, T
    <3>8. ASSUME NEW g \in [C -> Int]
          PROVE  /\ Cardinality(LowIn(g, D)) \in Nat /\ Cardinality(HighIn(g, D)) \in Nat
                 /\ Cardinality(LowIn(g, D \cup {e})) = Cardinality(LowIn(g, D)) + Low(g[e])
                 /\ Cardinality(HighIn(g, D \cup {e})) = Cardinality(HighIn(g, D)) + High(g[e])
      <4>1. IsFiniteSet(C) /\ e \in C /\ e \notin D /\ D \in SUBSET C
        BY <1>0, <3>3, <3>4
      <4> QED BY ONLY <3>8, <4>1, CountOne
    <3>9. /\ Cardinality(LowIn(a, D)) \in Nat /\ Cardinality(HighIn(a, D)) \in Nat
          /\ Cardinality(LowIn(b, D)) \in Nat /\ Cardinality(HighIn(b, D)) \in Nat
          /\ Cardinality(LowIn(a, Before(s, n))) = Cardinality(LowIn(a, D)) + Low(a[e])
          /\ Cardinality(HighIn(a, Before(s, n))) = Cardinality(HighIn(a, D)) + High(a[e])
          /\ Cardinality(LowIn(b, Before(s, n))) = Cardinality(LowIn(b, D)) + Low(b[e])
          /\ Cardinality(HighIn(b, Before(s, n))) = Cardinality(HighIn(b, D)) + High(b[e])
      BY <3>3, <3>8
    <3>10. /\ Sums(s, lows)[n - 1] = Cardinality(LowIn(b, D)) - Cardinality(LowIn(a, D))
           /\ Sums(s, highs)[n - 1] = Cardinality(HighIn(b, D)) - Cardinality(HighIn(a, D))
      BY <3>2 DEF D, P
    <3>11. Sums(s, lows)[n] = Cardinality(LowIn(b, Before(s, n))) - Cardinality(LowIn(a, Before(s, n)))
      BY <3>5, <3>6, <3>7, <3>9, <3>10
    <3>12. Sums(s, highs)[n] = Cardinality(HighIn(b, Before(s, n))) - Cardinality(HighIn(a, Before(s, n)))
      BY <3>5, <3>6, <3>7, <3>9, <3>10
    <3> QED BY <3>11, <3>12 DEF P
  <2> QED BY <2>1, <2>2
<1>2. \A n \in Nat : n \in T
  <2> HIDE DEF T
  <2>1. T \in SUBSET Nat BY DEF T
  <2> QED BY <1>1, <2>1, AllNumbers
<1>3. P(Len(s))
  BY <1>0, <1>2
<1> QED BY <1>3, BeforeAll DEF Total

\* A sum is between the lowest and the highest element times their number.
LEMMA TotalBounds ==
  ASSUME NEW C, NEW s, Each(s, C), NEW f \in [C -> Int], NEW lo \in Int, NEW hi \in Int,
         \A c \in C : lo <= f[c] /\ f[c] <= hi
  PROVE  Total(s, f) \in Int /\ Len(s) * lo <= Total(s, f) /\ Total(s, f) <= Len(s) * hi
<1> DEFINE P(i) == /\ Sums(s, f)[i] \in Int
                   /\ i * lo <= Sums(s, f)[i] /\ Sums(s, f)[i] <= i * hi
           T == {i \in Nat : i <= Len(s) => P(i)}
<1>0. Len(s) \in Nat
  BY DEF Each
<1>1. ASSUME NEW n \in Nat, \A m \in 0 .. (n - 1) : m \in T PROVE n \in T
  <2> SUFFICES ASSUME n <= Len(s) PROVE P(n)
    OBVIOUS
  <2>1. CASE n = 0
    <3>1. Sums(s, f)[0] = 0
      BY <1>0, SumsAt
    <3> QED BY <2>1, <3>1
  <2>2. CASE n # 0
    <3>1. n - 1 \in 0 .. (n - 1) /\ n - 1 <= Len(s) /\ n \in 1 .. Len(s)
      BY <1>0, <2>2
    <3>2. P(n - 1)
      BY <1>1, <3>1
    <3>3. s[n] \in C
      BY <3>1, BeforeNext
    <3>4. Sums(s, f)[n] = Sums(s, f)[n - 1] + f[s[n]]
      BY <1>0, <3>1, SumsAt
    <3>5. (n - 1) * lo = n * lo - lo /\ (n - 1) * hi = n * hi - hi
      OBVIOUS
    <3>6. n * lo \in Int /\ n * hi \in Int /\ f[s[n]] \in Int
      BY <3>3
    <3> QED BY <3>2, <3>3, <3>4, <3>5, <3>6
  <2> QED BY <2>1, <2>2
<1>2. \A n \in Nat : n \in T
  <2> HIDE DEF T
  <2>1. T \in SUBSET Nat BY DEF T
  <2> QED BY <1>1, <2>1, AllNumbers
<1> QED BY <1>0, <1>2 DEF Total

\* A mean, rounded down, is between what it is the mean of.
LEMMA DivBetween ==
  ASSUME NEW t \in Int, NEW n \in Nat, n > 0, NEW lo \in Int, NEW hi \in Int,
         n * lo <= t, t <= n * hi
  PROVE  t \div n \in Int /\ lo <= t \div n /\ t \div n <= hi
<1> DEFINE a == t \div n
<1>1. a \in Int /\ n * a <= t /\ t < n * a + n
  OBVIOUS
<1> HIDE DEF a
<1>2. n * (a + 1) = n * a + n
  BY <1>1
<1>3. lo < a + 1
  <2> SUFFICES ASSUME lo >= a + 1 PROVE FALSE
    BY <1>1
  <2>1. n * lo >= n * (a + 1)
    BY <1>1
  <2> QED BY <1>1, <1>2, <2>1
<1>4. a <= hi
  <2> SUFFICES ASSUME a >= hi + 1 PROVE FALSE
    BY <1>1
  <2>1. n * a >= n * (hi + 1) /\ n * (hi + 1) = n * hi + n
    BY <1>1
  <2> QED BY <1>1, <2>1
<1> QED BY <1>1, <1>3, <1>4 DEF a

LEMMA MeanBetween ==
  ASSUME NEW C, NEW s, Each(s, C), NEW f \in [C -> Scale], C # {}
  PROVE  /\ Total(s, f) \div Len(s) \in Scale
         /\ \E lo, hi \in C : f[lo] <= Total(s, f) \div Len(s) /\ Total(s, f) \div Len(s) <= f[hi]
<1>0. MaxScore \in Nat
  BY ScoreAssumption
<1>1. Len(s) \in Nat /\ Len(s) > 0
  BY DEF Each
<1>2. \A c \in C : f[c] \in Nat /\ f[c] <= MaxScore /\ MaxScore - f[c] \in Nat
  BY <1>0 DEF Scale
<1>3. PICK lo \in C : \A c \in C : f[lo] <= f[c]
  <2> DEFINE T == {f[c] : c \in C}
  <2>1. T \in SUBSET Nat /\ T # {}
    BY <1>2
  <2> HIDE DEF T
  <2>2. PICK n \in T : \A m \in T : n <= m
    BY <2>1, Least
  <2> QED BY <2>2 DEF T
<1>4. PICK hi \in C : \A c \in C : f[c] <= f[hi]
  <2> DEFINE T == {MaxScore - f[c] : c \in C}
  <2>1. T \in SUBSET Nat /\ T # {}
    BY <1>2
  <2> HIDE DEF T
  <2>2. PICK n \in T : \A m \in T : n <= m
    BY <2>1, Least
  <2>3. PICK hi \in C : n = MaxScore - f[hi]
    BY DEF T
  <2>4. \A c \in C : MaxScore - f[hi] <= MaxScore - f[c]
    BY <2>2, <2>3 DEF T
  <2> QED BY <1>0, <1>2, <2>4
<1>5. f \in [C -> Int] /\ f[lo] \in Int /\ f[hi] \in Int
  BY <1>2
<1>6. \A c \in C : f[lo] <= f[c] /\ f[c] <= f[hi]
  BY <1>3, <1>4
<1>7. /\ Total(s, f) \in Int /\ Len(s) * f[lo] <= Total(s, f)
      /\ Total(s, f) <= Len(s) * f[hi]
  BY <1>5, <1>6, TotalBounds
<1>8. /\ Total(s, f) \div Len(s) \in Int
      /\ f[lo] <= Total(s, f) \div Len(s) /\ Total(s, f) \div Len(s) <= f[hi]
  BY <1>1, <1>5, <1>7, DivBetween
<1>9. Total(s, f) \div Len(s) \in Scale
  <2>1. 0 <= f[lo] /\ f[hi] <= MaxScore
    BY <1>2
  <2> QED BY <1>0, <1>2, <1>5, <1>8, <2>1 DEF Scale
<1> QED BY <1>8, <1>9

-----------------------------------------------------------------------------
(***************************************************************************)
(* Moving an element.                                                      *)
(***************************************************************************)

\* Where the element at p comes from when the one at i has been moved to j.
Source(i, j, p) ==
    IF p = j THEN i
    ELSE IF i <= p /\ p < j THEN p + 1
    ELSE IF j < p /\ p <= i THEN p - 1 ELSE p

\* t is s with the element at i moved to j.
Shifted(s, i, j, t) ==
    /\ i \in 1 .. Len(s) /\ j \in 1 .. Len(s)
    /\ Len(t) = Len(s) /\ \A p \in 1 .. Len(s) : t[p] = s[Source(i, j, p)]

LEMMA InsertRemove ==
  ASSUME NEW C, NEW s \in Seq(C), NEW i \in 1 .. Len(s), NEW j \in 1 .. Len(s)
  PROVE  /\ InsertAt(RemoveAt(s, i), j, s[i]) \in Seq(C)
         /\ Shifted(s, i, j, InsertAt(RemoveAt(s, i), j, s[i]))
<1> DEFINE n == Len(s)
           a == SubSeq(s, 1, i - 1)
           b == SubSeq(s, i + 1, n)
           r == a \o b
           x == SubSeq(r, 1, j - 1)
           y == SubSeq(r, j, Len(r))
           z == x \o <<s[i]>>
           t == z \o y
<1>0. n \in Nat /\ \A p \in 1 .. n : s[p] \in C
  OBVIOUS
<1>1. a \in Seq(C) /\ Len(a) = i - 1 /\ \A p \in 1 .. (i - 1) : a[p] = s[p]
  BY <1>0, SubSeqProperties
<1>2. b \in Seq(C) /\ Len(b) = n - i /\ \A p \in 1 .. (n - i) : b[p] = s[i + p]
  BY <1>0, SubSeqProperties
<1> HIDE DEF a, b
<1>3. r \in Seq(C) /\ Len(r) = n - 1 /\ \A p \in 1 .. (n - 1) : r[p] = IF p < i THEN s[p] ELSE s[p + 1]
  <2>1. /\ r \in Seq(C) /\ Len(r) = Len(a) + Len(b)
        /\ \A p \in 1 .. (Len(a) + Len(b)) : r[p] = IF p <= Len(a) THEN a[p] ELSE b[p - Len(a)]
    BY <1>1, <1>2, ConcatProperties
  <2> HIDE DEF r
  <2>2. Len(a) \in Nat /\ Len(b) \in Nat /\ Len(a) + Len(b) = n - 1
    BY <1>0, <1>1, <1>2
  <2>3. ASSUME NEW p \in 1 .. (n - 1) PROVE r[p] = IF p < i THEN s[p] ELSE s[p + 1]
    <3>1. CASE p < i
      <4>1. p \in 1 .. (i - 1) /\ p <= Len(a)
        BY <1>0, <1>1, <3>1
      <4> QED BY <1>1, <2>1, <2>2, <3>1, <4>1
    <3>2. CASE ~(p < i)
      <4>1. ~(p <= Len(a)) /\ p - Len(a) \in 1 .. (n - i) /\ i + (p - Len(a)) = p + 1
        BY <1>0, <1>1, <3>2
      <4> QED BY <1>2, <2>1, <2>2, <3>2, <4>1
    <3> QED BY <3>1, <3>2
  <2> QED BY <2>1, <2>2, <2>3
<1> HIDE DEF r
<1>4. \A p \in 1 .. (n - 1) : r[p] \in C
  BY <1>0, <1>3
<1>5. x \in Seq(C) /\ Len(x) = j - 1 /\ \A p \in 1 .. (j - 1) : x[p] = r[p]
  BY <1>0, <1>4, SubSeqProperties
<1>6. y \in Seq(C) /\ Len(y) = n - j /\ \A p \in 1 .. (n - j) : y[p] = r[j + p - 1]
  BY <1>0, <1>3, <1>4, SubSeqProperties
<1> HIDE DEF x, y
<1>7. z \in Seq(C) /\ Len(z) = j /\ \A p \in 1 .. j : z[p] = IF p < j THEN r[p] ELSE s[i]
  <2>1. <<s[i]>> \in Seq(C) /\ Len(<<s[i]>>) = 1 /\ <<s[i]>>[1] = s[i]
    BY <1>0
  <2>2. /\ z \in Seq(C) /\ Len(z) = Len(x) + 1
        /\ \A p \in 1 .. (Len(x) + 1) : z[p] = IF p <= Len(x) THEN x[p] ELSE <<s[i]>>[p - Len(x)]
    BY <1>5, <2>1, ConcatProperties
  <2> HIDE DEF z
  <2>3. ASSUME NEW p \in 1 .. j PROVE z[p] = IF p < j THEN r[p] ELSE s[i]
    <3>1. p \in 1 .. (Len(x) + 1)
      BY <1>0, <1>5
    <3>2. CASE p < j
      BY <1>0, <1>5, <2>2, <3>1, <3>2
    <3>3. CASE p = j
      BY <1>0, <1>5, <2>1, <2>2, <3>1, <3>3
    <3> QED BY <3>2, <3>3
  <2> QED BY <1>0, <1>5, <2>2, <2>3
<1> HIDE DEF z
<1>8. /\ t \in Seq(C) /\ Len(t) = n
      /\ \A p \in 1 .. n : t[p] = IF p <= j THEN z[p] ELSE r[p - 1]
  <2>1. /\ t \in Seq(C) /\ Len(t) = Len(z) + Len(y)
        /\ \A p \in 1 .. (Len(z) + Len(y)) : t[p] = IF p <= Len(z) THEN z[p] ELSE y[p - Len(z)]
    BY <1>6, <1>7, ConcatProperties
  <2> HIDE DEF t
  <2>2. Len(z) + Len(y) = n
    BY <1>0, <1>6, <1>7
  <2>3. ASSUME NEW p \in 1 .. n PROVE t[p] = IF p <= j THEN z[p] ELSE r[p - 1]
    <3>1. CASE p <= j
      BY <1>7, <2>1, <2>2, <3>1
    <3>2. CASE ~(p <= j)
      <4>1. ~(p <= Len(z)) /\ p - Len(z) \in 1 .. (n - j) /\ j + (p - Len(z)) - 1 = p - 1
        BY <1>0, <1>7, <3>2
      <4> QED BY <1>6, <2>1, <2>2, <3>2, <4>1
    <3> QED BY <3>1, <3>2
  <2> QED BY <2>1, <2>2, <2>3
<1>9. t = InsertAt(RemoveAt(s, i), j, s[i])
  BY DEF InsertAt, RemoveAt, t, z, x, y, r, a, b
<1> HIDE DEF t
<1>10. ASSUME NEW p \in 1 .. n PROVE t[p] = s[Source(i, j, p)]
  <2>1. t[p] = IF p < j THEN r[p] ELSE IF p = j THEN s[i] ELSE r[p - 1]
    BY <1>0, <1>7, <1>8
  <2>2. p < j => r[p] = IF p < i THEN s[p] ELSE s[p + 1]
    BY <1>0, <1>3
  <2>3. p > j => r[p - 1] = IF p - 1 < i THEN s[p - 1] ELSE s[p]
    BY <1>0, <1>3
  <2> QED BY <1>0, <2>1, <2>2, <2>3 DEF Source
<1> QED BY <1>8, <1>9, <1>10 DEF Shifted

\* The other way: where the element at q goes.
Target(i, j, q) ==
    IF q = i THEN j
    ELSE IF i < q /\ q <= j THEN q - 1
    ELSE IF j <= q /\ q < i THEN q + 1 ELSE q

LEMMA SourceTarget ==
  ASSUME NEW n \in Nat, NEW i \in 1 .. n, NEW j \in 1 .. n
  PROVE  /\ \A p \in 1 .. n : Source(i, j, p) \in 1 .. n /\ Target(i, j, Source(i, j, p)) = p
         /\ \A q \in 1 .. n : Target(i, j, q) \in 1 .. n /\ Source(i, j, Target(i, j, q)) = q
BY DEF Source, Target

LEMMA SourceOrder ==
  ASSUME NEW n \in Nat, NEW i \in 1 .. n, NEW j \in 1 .. n
  PROVE  /\ \A p, q \in 1 .. n : (p < q /\ p # j /\ q # j) => Source(i, j, p) < Source(i, j, q)
         /\ \A p \in 1 .. n : Source(i, j, p) = i => p = j
BY DEF Source

\* A moved element is still in the queue once.
LEMMA EachMoved ==
  ASSUME NEW C, NEW s, Each(s, C), NEW t \in Seq(C), NEW i, NEW j, Shifted(s, i, j, t)
  PROVE  Each(t, C)
<1>0. /\ Len(s) \in Nat /\ i \in 1 .. Len(s) /\ j \in 1 .. Len(s) /\ Len(t) = Len(s)
      /\ \A p \in 1 .. Len(s) : t[p] = s[Source(i, j, p)]
  BY DEF Each, Shifted
<1>1. ASSUME NEW e \in C PROVE \E p \in 1 .. Len(t) : t[p] = e
  <2>1. PICK q \in 1 .. Len(s) : s[q] = e
    BY DEF Each
  <2>2. Target(i, j, q) \in 1 .. Len(s) /\ Source(i, j, Target(i, j, q)) = q
    BY <1>0, SourceTarget
  <2> QED BY <1>0, <2>1, <2>2
<1>2. ASSUME NEW p \in 1 .. Len(t), NEW q \in 1 .. Len(t), t[p] = t[q] PROVE p = q
  <2>1. /\ Source(i, j, p) \in 1 .. Len(s) /\ Target(i, j, Source(i, j, p)) = p
        /\ Source(i, j, q) \in 1 .. Len(s) /\ Target(i, j, Source(i, j, q)) = q
    BY <1>0, SourceTarget
  <2>2. s[Source(i, j, p)] = s[Source(i, j, q)]
    BY <1>0, <1>2
  <2>3. \A x, y \in 1 .. Len(s) : s[x] = s[y] => x = y
    BY DEF Each
  <2>4. Source(i, j, p) = Source(i, j, q)
    BY <2>1, <2>2, <2>3
  <2> QED BY <2>1, <2>4
<1> QED BY <1>1, <1>2 DEF Each

\* Best first.
Sorted(s, f) == \A p, q \in 1 .. Len(s) : p < q => f[s[p]] >= f[s[q]]

\* Where the two loops of fix stop.
StopsDown(s, sc, i, d) ==
    /\ d \in i .. Len(s)
    /\ \A m \in (i + 1) .. d : sc[s[m]] > sc[s[i]]
    /\ d = Len(s) \/ sc[s[d + 1]] <= sc[s[i]]
StopsUp(s, sc, i, u) ==
    /\ u \in 1 .. i
    /\ \A m \in u .. (i - 1) : sc[s[m]] < sc[s[i]]
    /\ u = 1 \/ sc[s[u - 1]] >= sc[s[i]]

LEMMA DownStops ==
  ASSUME NEW C, NEW s \in Seq(C), NEW sc \in [C -> Int], NEW i \in 1 .. Len(s)
  PROVE  StopsDown(s, sc, i, Down(s, sc, i))
<1> DEFINE n == Len(s)
           T == {k \in i .. n : k = n \/ sc[s[k + 1]] <= sc[s[i]]}
<1>0. n \in Nat /\ \A p \in 1 .. n : s[p] \in C /\ sc[s[p]] \in Int
  OBVIOUS
<1>1. T \in SUBSET Nat /\ n \in T
  BY <1>0
<1>2. PICK k \in T : \A m \in T : k <= m
  <2> HIDE DEF T
  <2> QED BY <1>1, Least
<1>3. ASSUME NEW m \in (i + 1) .. k PROVE sc[s[m]] > sc[s[i]]
  <2>1. m - 1 \in i .. n /\ m - 1 \notin T /\ m - 1 # n
    BY <1>0, <1>2
  <2>2. ~(sc[s[(m - 1) + 1]] <= sc[s[i]]) /\ (m - 1) + 1 = m /\ m \in 1 .. n
    BY <1>0, <2>1
  <2> QED BY <1>0, <2>2
<1>4. \E d \in i .. n : /\ \A m \in (i + 1) .. d : sc[s[m]] > sc[s[i]]
                        /\ d = n \/ sc[s[d + 1]] <= sc[s[i]]
  BY <1>2, <1>3
<1> QED BY <1>4 DEF Down, StopsDown

LEMMA UpStops ==
  ASSUME NEW C, NEW s \in Seq(C), NEW sc \in [C -> Int], NEW i \in 1 .. Len(s)
  PROVE  StopsUp(s, sc, i, Up(s, sc, i))
<1> DEFINE n == Len(s)
           T == {k \in 0 .. (i - 1) : i - k = 1 \/ sc[s[i - k - 1]] >= sc[s[i]]}
<1>0. n \in Nat /\ \A p \in 1 .. n : s[p] \in C /\ sc[s[p]] \in Int
  OBVIOUS
<1>1. T \in SUBSET Nat /\ i - 1 \in T
  BY <1>0
<1>2. PICK k \in T : \A m \in T : k <= m
  <2> HIDE DEF T
  <2> QED BY <1>1, Least
<1>3. ASSUME NEW m \in (i - k) .. (i - 1) PROVE sc[s[m]] < sc[s[i]]
  <2>0. k \in 0 .. (i - 1) /\ i \in Nat /\ m \in 1 .. (i - 1) /\ i - m <= k
    BY <1>0, <1>2
  <2>1. i - m - 1 \in 0 .. (i - 1) /\ i - m - 1 \notin T /\ i - (i - m - 1) # 1
    <3>1. i - m - 1 \in 0 .. (i - 1) /\ i - m - 1 < k /\ i - (i - m - 1) # 1
      BY <2>0
    <3> HIDE DEF T
    <3> QED BY <1>2, <2>0, <3>1
  <2>2. ~(sc[s[i - (i - m - 1) - 1]] >= sc[s[i]]) /\ i - (i - m - 1) - 1 = m /\ m \in 1 .. n
    BY <1>0, <2>1
  <2> QED BY <1>0, <2>2
<1>4. \E u \in 1 .. i : /\ \A m \in u .. (i - 1) : sc[s[m]] < sc[s[i]]
                        /\ u = 1 \/ sc[s[u - 1]] >= sc[s[i]]
  <2>1. i - k \in 1 .. i
    BY <1>0, <1>2
  <2> QED BY <1>2, <1>3, <2>1
<1> QED BY <1>4 DEF Up, StopsUp

\* The place the element at i is moved to.
Goes(i, d, u, j) == j = IF d > i THEN d ELSE u

\* Only the score of e has changed.
SameBut(old, sc, e) == \A c \in DOMAIN old : c # e => sc[c] = old[c]

\* The other elements stay in order, and the one that has moved is in its place.
LEMMA Resorted ==
  ASSUME NEW C, NEW s, Each(s, C), NEW old \in [C -> Int], NEW sc \in [C -> Int], NEW e \in C,
         SameBut(old, sc, e), Sorted(s, old),
         NEW i, s[i] = e, NEW d, StopsDown(s, sc, i, d), NEW u, StopsUp(s, sc, i, u),
         NEW j, Goes(i, d, u, j), NEW t, Shifted(s, i, j, t)
  PROVE  Sorted(t, sc)
<1> USE DEF Goes
<1> DEFINE n == Len(s)
           v(p) == sc[s[p]]
<1>0. s \in Seq(C) /\ n \in Nat /\ \A p \in 1 .. n : s[p] \in C /\ v(p) \in Int
  <2>1. s \in Seq(C) /\ n \in Nat
    BY DEF Each
  <2>2. \A p \in 1 .. n : s[p] \in C
    BY <2>1
  <2> QED BY <2>1, <2>2
<1>1. i \in 1 .. n /\ s[i] = e /\ j \in 1 .. n
  BY DEF Shifted
<1>1a. d \in i .. n /\ u \in 1 .. i
  BY DEF StopsDown, StopsUp
<1>1b. n \in Nat /\ i \in Int /\ j \in Int /\ d \in Int /\ u \in Int
  BY <1>0, <1>1, <1>1a
<1>2. d \in i .. n /\ (\A m \in (i + 1) .. d : v(m) > v(i)) /\ (d = n \/ v(d + 1) <= v(i))
  BY DEF StopsDown
<1>3. u \in 1 .. i /\ (\A m \in u .. (i - 1) : v(m) < v(i)) /\ (u = 1 \/ v(u - 1) >= v(i))
  BY DEF StopsUp
<1>6. Len(t) = n /\ \A p \in 1 .. n : t[p] = s[Source(i, j, p)]
  BY DEF Shifted
<1>8. ASSUME NEW p \in 1 .. n, NEW q \in 1 .. n, p < q, p # i, q # i PROVE v(p) >= v(q)
  <2>1. s[p] # e /\ s[q] # e
    BY <1>1, <1>8 DEF Each
  <2> QED BY <1>0, <1>8, <2>1 DEF Sorted, SameBut
<1> HIDE DEF v
<1>9. ASSUME NEW q \in 1 .. n, q > d PROVE v(q) <= v(i)
  <2>1. d # n /\ d + 1 \in 1 .. n /\ d + 1 # i /\ q # i
    BY <1>0, <1>1, <1>2, <1>9
  <2>2. q = d + 1 \/ v(d + 1) >= v(q)
    <3>1. q = d + 1 \/ d + 1 < q
      BY <1>0, <1>1, <1>2, <1>9
    <3> QED BY <1>8, <2>1, <3>1
  <2>3. v(q) \in Int /\ v(d + 1) \in Int /\ v(i) \in Int
    BY <1>0, <1>1, <2>1
  <2> QED BY <1>2, <2>1, <2>2, <2>3
<1>10. ASSUME NEW p \in 1 .. n, p < u PROVE v(p) >= v(i)
  <2>1. u # 1 /\ u - 1 \in 1 .. n /\ u - 1 # i /\ p # i
    BY <1>1, <1>1a, <1>1b, <1>10
  <2>2. p = u - 1 \/ v(p) >= v(u - 1)
    <3>1. p = u - 1 \/ p < u - 1
      BY <1>0, <1>1, <1>3, <1>10
    <3> QED BY <1>8, <2>1, <3>1
  <2>3. v(p) \in Int /\ v(u - 1) \in Int /\ v(i) \in Int
    BY <1>0, <1>1, <2>1
  <2> QED BY <1>3, <2>1, <2>2, <2>3
<1>11. ASSUME NEW q \in 1 .. n, q > j PROVE v(i) >= v(Source(i, j, q))
  <2>1. CASE d > i
    <3>1. j = d /\ Source(i, j, q) = q
      BY <1>1, <1>1a, <1>1b, <1>11, <2>1 DEF Source
    <3> QED BY <1>0, <1>1, <1>9, <1>11, <3>1
  <2>2. CASE ~(d > i)
    <3>1. j = u /\ d = i
      BY <1>0, <1>1, <1>2, <2>2
    <3>2. CASE q <= i
      <4>0. Source(i, j, q) = q - 1
        BY <1>1, <1>1b, <1>11, <3>2 DEF Source
      <4>1. Source(i, j, q) = q - 1 /\ q - 1 \in u .. (i - 1) /\ q - 1 \in 1 .. n
        BY <1>1, <1>1a, <1>1b, <1>11, <3>1, <3>2, <4>0
      <4>2. v(q - 1) < v(i) /\ v(q - 1) \in Int /\ v(i) \in Int
        BY <1>0, <1>1, <1>3, <4>1
      <4> QED BY <4>1, <4>2
    <3>3. CASE q > i
      <4>1. Source(i, j, q) = q
        BY <1>1, <1>1b, <1>11, <3>3 DEF Source
      <4> QED BY <1>0, <1>1, <1>9, <3>1, <3>3, <4>1
    <3> QED BY <1>0, <1>1, <3>2, <3>3
  <2> QED BY <2>1, <2>2
<1>12. ASSUME NEW p \in 1 .. n, p < j PROVE v(Source(i, j, p)) >= v(i)
  <2>1. CASE d > i
    <3>1. j = d
      BY <2>1
    <3>2. CASE p >= i
      <4>1. Source(i, j, p) = p + 1
        BY <1>1, <1>1b, <1>12, <3>2 DEF Source
      <4>2. p + 1 \in (i + 1) .. d /\ p + 1 \in 1 .. n
        BY <1>1, <1>1a, <1>1b, <1>12, <3>1, <3>2
      <4>3. v(p + 1) > v(i) /\ v(p + 1) \in Int /\ v(i) \in Int
        BY <1>0, <1>1, <1>2, <4>2
      <4> QED BY <4>1, <4>3
    <3>3. CASE p < i
      <4>0. Source(i, j, p) = p
        BY <1>1, <1>1a, <1>1b, <1>12, <2>1, <3>1, <3>3 DEF Source
      <4>1. /\ Source(i, j, p) = p /\ i + 1 \in (i + 1) .. d /\ i + 1 \in 1 .. n
            /\ p < i + 1 /\ p # i /\ i + 1 # i
        BY <1>1, <1>1a, <1>1b, <2>1, <3>3, <4>0
      <4>2. v(p) >= v(i + 1) /\ v(i + 1) > v(i)
        BY <1>2, <1>8, <4>1
      <4> QED BY <1>0, <1>1, <4>1, <4>2
    <3> QED BY <1>0, <1>1, <3>2, <3>3
  <2>2. CASE ~(d > i)
    <3>1. j = u
      BY <2>2
    <3>2. Source(i, j, p) = p
      BY <1>1, <1>1a, <1>1b, <1>12, <3>1 DEF Source
    <3> QED BY <1>10, <1>12, <3>1, <3>2
  <2> QED BY <2>1, <2>2
<1>13. ASSUME NEW p \in 1 .. n, NEW q \in 1 .. n, p < q
       PROVE  v(Source(i, j, p)) >= v(Source(i, j, q))
  <2>1. Source(i, j, j) = i
    BY DEF Source
  <2>2. CASE p = j
    BY <1>11, <1>13, <2>1, <2>2
  <2>3. CASE q = j
    BY <1>12, <1>13, <2>1, <2>3
  <2>4. CASE p # j /\ q # j
    <3>1. /\ Source(i, j, p) \in 1 .. n /\ Source(i, j, q) \in 1 .. n
          /\ Source(i, j, p) < Source(i, j, q)
      BY <1>0, <1>1, <1>13, <2>4, SourceTarget, SourceOrder
    <3>2. Source(i, j, p) # i /\ Source(i, j, q) # i
      BY <1>0, <1>1, <2>4, SourceOrder
    <3> QED BY <1>8, <3>1, <3>2
  <2> QED BY <2>2, <2>3, <2>4
<1>14. Sorted(t, sc)
  <2> SUFFICES ASSUME NEW p \in 1 .. n, NEW q \in 1 .. n, p < q
               PROVE  sc[t[p]] >= sc[t[q]]
    BY <1>6 DEF Sorted
  <2>1. v(Source(i, j, p)) >= v(Source(i, j, q))
    BY <1>13
  <2>2. t[p] = s[Source(i, j, p)] /\ t[q] = s[Source(i, j, q)]
    BY <1>6
  <2> QED BY <2>1, <2>2 DEF v
<1> QED BY <1>14

\* The queue is sorted again when the element whose score has changed is moved.
LEMMA MovedSorted ==
  ASSUME NEW C, NEW s, Each(s, C), NEW old \in [C -> Int], NEW sc \in [C -> Int], NEW e \in C,
         SameBut(old, sc, e), Sorted(s, old)
  PROVE  Each(Moved(s, sc, e), C) /\ Sorted(Moved(s, sc, e), sc)
<1>0. s \in Seq(C) /\ Len(s) \in Nat
  BY DEF Each
<1>1. PICK i \in 1 .. Len(s) : i = (CHOOSE p \in DOMAIN s : s[p] = e) /\ s[i] = e
  <2>1. DOMAIN s = 1 .. Len(s)
    BY <1>0
  <2>2. \E p \in DOMAIN s : s[p] = e
    BY <2>1 DEF Each
  <2> QED BY <2>1, <2>2
<1>2. PICK d : d = Down(s, sc, i) /\ StopsDown(s, sc, i, d)
  BY <1>0, DownStops
<1>3. PICK u : u = Up(s, sc, i) /\ StopsUp(s, sc, i, u)
  BY <1>0, UpStops
<1>4a. d \in i .. Len(s) /\ u \in 1 .. i
  BY <1>2, <1>3 DEF StopsDown, StopsUp
<1>4. PICK j \in 1 .. Len(s) : j = IF d > i THEN d ELSE u
  <2>1. d \in 1 .. Len(s) /\ u \in 1 .. Len(s)
    BY <1>0, <1>4a
  <2> QED BY <2>1
<1>5. PICK t : t = InsertAt(RemoveAt(s, i), j, s[i])
  OBVIOUS
<1>6. t = Moved(s, sc, e)
  BY <1>1, <1>2, <1>3, <1>4, <1>5 DEF Moved
<1>7. t \in Seq(C) /\ Shifted(s, i, j, t)
  BY <1>0, <1>5, InsertRemove
<1>8. Each(t, C)
  BY <1>7, EachMoved
<1>9. Sorted(t, sc)
  <2>1. s[i] = e /\ StopsDown(s, sc, i, d) /\ StopsUp(s, sc, i, u) /\ Shifted(s, i, j, t)
    BY <1>1, <1>2, <1>3, <1>7
  <2>2. Goes(i, d, u, j)
    BY <1>4 DEF Goes
  <2> QED BY <2>1, <2>2, Resorted
<1> QED BY <1>6, <1>8, <1>9

-----------------------------------------------------------------------------
(***************************************************************************)
(* The abstract score board.                                               *)
(***************************************************************************)

\* Scores on the scale, with at least one on each side of the middle.
BoardInv == Board!OnScale /\ Board!TwoSided

\* The middle of the scale, in terms the SMT solver can reason about.
LEMMA HalfFact ==
  ASSUME Board!Constants
  PROVE  Board!Half \in Nat /\ 2 * Board!Half <= MaxScore /\ MaxScore <= 2 * Board!Half + 1
  BY DEF Board!Constants, Board!Half

\* A new queue has all its scores in the middle.
LEMMA FreshInv ==
  ASSUME Board!Constants, NEW k \in 0 .. MaxCandidates, NEW sc, sc = Board!Fresh(k)
  PROVE  /\ sc \in [Board!Ids(k) -> 0 .. MaxScore]
         /\ DOMAIN sc # {} => /\ \E e \in DOMAIN sc : sc[e] >= Board!Half
                              /\ \E e \in DOMAIN sc : sc[e] <= Board!Half
  <1>1. \A e \in Board!Ids(k) : Board!Half \in 0 .. MaxScore /\ sc[e] = Board!Half
    BY HalfFact DEF Board!Constants, Board!Fresh
  <1>2. sc \in [Board!Ids(k) -> 0 .. MaxScore]
    BY <1>1 DEF Board!Fresh
  <1>3. ASSUME DOMAIN sc # {}
        PROVE  \E e \in DOMAIN sc : sc[e] >= Board!Half /\ sc[e] <= Board!Half
    BY <1>1, <1>2, <1>3, HalfFact
  <1> QED BY <1>2, <1>3

\* Changing one score to a value on the scale keeps all of them on it.
LEMMA UpdateOnScale ==
  ASSUME Board!Constants, NEW k \in 0 .. MaxCandidates, score \in [Board!Ids(k) -> 0 .. MaxScore],
         NEW e \in DOMAIN score, NEW v \in 0 .. MaxScore
  PROVE  [score EXCEPT ![e] = v] \in [Board!Ids(k) -> 0 .. MaxScore]
  OBVIOUS

\* Moving one-sided scores so that a value between the lowest and the highest
\* of them lands in the middle leaves the scale at neither end, and leaves
\* scores on both sides of the middle.
LEMMA ShiftInv ==
  ASSUME Board!Constants, NEW k \in 0 .. MaxCandidates, NEW sc \in [Board!Ids(k) -> 0 .. MaxScore],
         NEW lo \in Board!Ids(k), NEW hi \in Board!Ids(k), NEW a \in 0 .. MaxScore,
         sc[lo] <= a, a <= sc[hi],
         Board!AllLow(sc) \/ Board!AllHigh(sc),
         NEW new, new = [c \in DOMAIN sc |-> sc[c] + Board!Half - a]
  PROVE  /\ new \in [Board!Ids(k) -> 0 .. MaxScore]
         /\ \E e \in DOMAIN new : new[e] >= Board!Half
         /\ \E e \in DOMAIN new : new[e] <= Board!Half
  <1>1. \A c \in Board!Ids(k) : new[c] = sc[c] + Board!Half - a /\ sc[c] \in 0 .. MaxScore
    OBVIOUS
  <1>2. \A c \in Board!Ids(k) : sc[c] + Board!Half - a \in 0 .. MaxScore
    <2> SUFFICES ASSUME NEW c \in Board!Ids(k) PROVE sc[c] + Board!Half - a \in 0 .. MaxScore
      OBVIOUS
    <2>1. sc[c] \in Int /\ sc[lo] \in Int /\ sc[hi] \in Int /\ a \in Int
          /\ 0 <= sc[c] /\ sc[c] <= MaxScore /\ 0 <= sc[lo] /\ sc[hi] <= MaxScore
      BY <1>1 DEF Board!Constants
    <2>2. CASE Board!AllLow(sc)
      <3>1. sc[c] < Board!Half /\ sc[hi] < Board!Half  BY <2>2 DEF Board!AllLow
      <3> QED BY <3>1, <2>1, HalfFact DEF Board!Constants
    <2>3. CASE Board!AllHigh(sc)
      <3>1. sc[c] > Board!Half /\ sc[lo] > Board!Half  BY <2>3 DEF Board!AllHigh
      <3> QED BY <3>1, <2>1, HalfFact DEF Board!Constants
    <2> QED BY <2>2, <2>3
  <1>3. new \in [Board!Ids(k) -> 0 .. MaxScore]
    BY <1>2
  <1>4. new[hi] >= Board!Half /\ new[lo] <= Board!Half
    BY <1>1, HalfFact DEF Board!Constants
  <1> QED BY <1>3, <1>4

\* The scores stay on the scale and on both sides of its middle, for every
\* number of candidates and every length of the scale.
THEOREM BoardSafe ==
  ASSUME Board!Constants
  PROVE  Board!Spec => [](Board!OnScale /\ Board!TwoSided)
  <1>1. Board!Init => BoardInv
    BY FreshInv DEF Board!Init, BoardInv, Board!OnScale, Board!TwoSided
  <1>2. BoardInv /\ [Board!Next]_score => BoardInv'
    <2> SUFFICES ASSUME BoardInv, [Board!Next]_score PROVE BoardInv'
      OBVIOUS
    <2>1. CASE Board!Reset
      BY <2>1, FreshInv DEF Board!Reset, BoardInv, Board!OnScale, Board!TwoSided
    <2>2. ASSUME NEW e \in DOMAIN score, NEW v \in 0 .. MaxScore, Board!Change(e, v)
          PROVE  BoardInv'
      <3> DEFINE sc == [score EXCEPT ![e] = v]
      <3>1. PICK k \in 0 .. MaxCandidates : score \in [Board!Ids(k) -> 0 .. MaxScore]
        BY DEF BoardInv, Board!OnScale
      <3>2. sc \in [Board!Ids(k) -> 0 .. MaxScore]
        BY <3>1, UpdateOnScale
      <3>3. score' = sc /\ ~Board!AllLow(sc) /\ ~Board!AllHigh(sc)
        BY <2>2 DEF Board!Change
      <3>4. \A c \in DOMAIN sc : sc[c] \in Int
        BY <3>2
      <3>5. /\ \E c \in DOMAIN sc : sc[c] >= Board!Half
            /\ \E c \in DOMAIN sc : sc[c] <= Board!Half
        BY <3>3, <3>4, HalfFact DEF Board!AllLow, Board!AllHigh
      <3> HIDE DEF sc
      <3> QED BY <3>2, <3>3, <3>5 DEF BoardInv, Board!OnScale, Board!TwoSided
    <2>3. ASSUME NEW e \in DOMAIN score, NEW v \in 0 .. MaxScore,
                 NEW a \in 0 .. MaxScore, Board!Shift(e, v, a)
          PROVE  BoardInv'
      <3> DEFINE sc == [score EXCEPT ![e] = v]
      <3>1. PICK k \in 0 .. MaxCandidates : score \in [Board!Ids(k) -> 0 .. MaxScore]
        BY DEF BoardInv, Board!OnScale
      <3>2. sc \in [Board!Ids(k) -> 0 .. MaxScore]
        BY <3>1, UpdateOnScale
      <3>3. PICK lo, hi \in DOMAIN sc : sc[lo] <= a /\ a <= sc[hi]
        BY <2>3 DEF Board!Shift
      <3>4. /\ Board!AllLow(sc) \/ Board!AllHigh(sc)
            /\ score' = [c \in DOMAIN sc |-> sc[c] + Board!Half - a]
        BY <2>3 DEF Board!Shift
      <3> HIDE DEF sc
      <3>5. lo \in Board!Ids(k) /\ hi \in Board!Ids(k)
        BY <3>2
      <3>6. /\ score' \in [Board!Ids(k) -> 0 .. MaxScore]
            /\ \E c \in DOMAIN score' : score'[c] >= Board!Half
            /\ \E c \in DOMAIN score' : score'[c] <= Board!Half
        BY <3>2, <3>3, <3>4, <3>5, ShiftInv
      <3> QED BY <3>6 DEF BoardInv, Board!OnScale, Board!TwoSided
    <2>4. CASE UNCHANGED score
      BY <2>4 DEF BoardInv, Board!OnScale, Board!TwoSided
    <2> QED BY <2>1, <2>2, <2>3, <2>4 DEF Board!Next
  <1> QED BY <1>1, <1>2, PTL DEF Board!Spec, BoardInv

-----------------------------------------------------------------------------
(***************************************************************************)
(* The invariant of the queue.                                             *)
(***************************************************************************)

Ids(k) == 0 .. (k - 1)

\* The queue of the candidates C: each of them once, best first, with exact
\* counters. fix relies on all of it: the loops that move an element assume
\* that the others are in order, and the counters decide when scores shift.
QueueOf(C, s, sc, n, lows, highs) ==
    /\ sc \in [C -> Scale]
    /\ n \in [C -> Streaks]
    /\ Each(s, C)
    /\ Sorted(s, sc)
    /\ lows = Cardinality(LowIn(sc, C))
    /\ highs = Cardinality(HighIn(sc, C))

QueueInv ==
    \E k \in 0 .. MaxCandidates : QueueOf(Ids(k), elems, score, streak, nLow, nHigh)

\* A connection that is not stale scores a candidate of the queue, and it has
\* been counted exactly when it has been a success or a failure, never both.
ConnOK(c, C) ==
    /\ (c.st # "none" /\ ~c.stale) => c.e \in C
    /\ c.counted = IF c.success \/ c.failure THEN 1 ELSE 0
    /\ ~(c.success /\ c.failure)
    /\ c.failure => c.st = "closed"
    /\ c.st \in {"none", "dialing"} => ~c.success

ConnType ==
    [st : {"none", "dialing", "open", "closed"}, e : Nat, stale : BOOLEAN,
     success : BOOLEAN, failure : BOOLEAN, readfailed : BOOLEAN, counted : Nat]

ConnInv ==
    /\ conn \in [Conns -> ConnType]
    /\ \A k \in Conns : ConnOK(conn[k], Candidates)

IInv == QueueInv /\ ConnInv

\* A new queue is one.
LEMMA NewQueue ==
  ASSUME NEW k \in Nat
  PROVE  QueueOf(Ids(k), NewElems(k), NewScores(k), NewStreaks(k), 0, 0)
<1> DEFINE C == Ids(k)
           s == NewElems(k)
           sc == NewScores(k)
<1>0. Half \in Scale /\ 0 \in Streaks
  BY ScoreAssumption, HalfInt DEF Half, Scale, Streaks
<1>1. sc \in [C -> Scale] /\ NewStreaks(k) \in [C -> Streaks]
  BY <1>0 DEF NewScores, NewStreaks, Ids
<1>2. s \in Seq(C) /\ Len(s) = k /\ \A i \in 1 .. k : s[i] = i - 1
  BY DEF NewElems, Ids
<1>3. Each(s, C)
  <2>1. \A e \in C : e + 1 \in 1 .. k /\ s[e + 1] = e
    BY <1>2 DEF Ids
  <2> HIDE DEF s
  <2> QED BY <1>2, <2>1 DEF Each
<1>4. \A e \in C : sc[e] = Half
  BY DEF NewScores, Ids
<1>5. Sorted(s, sc)
  <2>1. \A p \in 1 .. k : s[p] \in C
    BY <1>2
  <2> HIDE DEF s, sc
  <2> QED BY <1>2, <1>4, <2>1, HalfInt DEF Sorted
<1>6. LowIn(sc, C) = {} /\ HighIn(sc, C) = {}
  <2> HIDE DEF sc
  <2> QED BY <1>4, HalfInt DEF LowIn, HighIn
<1> QED BY <1>1, <1>3, <1>5, <1>6, FS_EmptySet DEF QueueOf

\* One score changes: the two counters follow it.
LEMMA ChangeCounts ==
  ASSUME NEW C, IsFiniteSet(C), NEW old \in [C -> Int], NEW sc \in [C -> Int], NEW e \in C,
         SameBut(old, sc, e)
  PROVE  /\ Cardinality(LowIn(sc, C)) =
              Cardinality(LowIn(old, C)) + LowChange(old[e], sc[e])
         /\ Cardinality(HighIn(sc, C)) =
              Cardinality(HighIn(old, C)) + HighChange(old[e], sc[e])
<1>0. PICK D : D = C \ {e}
  OBVIOUS
<1>1. D \in SUBSET C /\ e \notin D /\ D \cup {e} = C
  BY <1>0
<1>2. LowIn(sc, D) = LowIn(old, D) /\ HighIn(sc, D) = HighIn(old, D)
  BY <1>1 DEF LowIn, HighIn, SameBut
<1>3. ASSUME NEW f \in [C -> Int]
      PROVE  /\ Cardinality(LowIn(f, D)) \in Nat /\ Cardinality(HighIn(f, D)) \in Nat
             /\ Cardinality(LowIn(f, C)) = Cardinality(LowIn(f, D)) + Low(f[e])
             /\ Cardinality(HighIn(f, C)) = Cardinality(HighIn(f, D)) + High(f[e])
  <2>1. /\ Cardinality(LowIn(f, D)) \in Nat /\ Cardinality(HighIn(f, D)) \in Nat
        /\ Cardinality(LowIn(f, D \cup {e})) = Cardinality(LowIn(f, D)) + Low(f[e])
        /\ Cardinality(HighIn(f, D \cup {e})) = Cardinality(HighIn(f, D)) + High(f[e])
    BY <1>1, CountOne
  <2> QED BY <1>1, <2>1
<1>5. /\ Low(sc[e]) \in Int /\ Low(old[e]) \in Int
      /\ High(sc[e]) \in Int /\ High(old[e]) \in Int
  BY DEF Low, High
<1> QED BY <1>2, <1>3, <1>5 DEF LowChange, HighChange

\* The counters tell whether all scores are low, or all high.
LEMMA AllCounted ==
  ASSUME NEW C, NEW s, Each(s, C), NEW sc \in [C -> Int]
  PROVE  /\ (\A e \in C : sc[e] < Half) <=> ~(Cardinality(LowIn(sc, C)) < Len(s))
         /\ (\A e \in C : sc[e] > Half) <=> ~(Cardinality(HighIn(sc, C)) < Len(s))
<1>0. IsFiniteSet(C) /\ Cardinality(C) = Len(s)
  BY EachCount
<1>1. IsFiniteSet(C) /\ Cardinality(C) = Len(s) /\ Len(s) \in Nat
  BY <1>0, FS_CardinalityType
<1>2. ASSUME NEW D \in SUBSET C PROVE (D = C) <=> ~(Cardinality(D) < Len(s))
  <2>1. IsFiniteSet(D) /\ Cardinality(D) <= Cardinality(C) /\ (Cardinality(C) = Cardinality(D) => C = D)
    BY <1>1, FS_Subset
  <2>2. Cardinality(D) \in Nat
    BY <2>1, FS_CardinalityType
  <2> QED BY <1>1, <2>1, <2>2
<1>3. LowIn(sc, C) \in SUBSET C /\ HighIn(sc, C) \in SUBSET C
  BY DEF LowIn, HighIn
<1>4. /\ (\A e \in C : sc[e] < Half) <=> LowIn(sc, C) = C
      /\ (\A e \in C : sc[e] > Half) <=> HighIn(sc, C) = C
  BY DEF LowIn, HighIn
<1>5. /\ (LowIn(sc, C) = C) <=> ~(Cardinality(LowIn(sc, C)) < Len(s))
      /\ (HighIn(sc, C) = C) <=> ~(Cardinality(HighIn(sc, C)) < Len(s))
  BY <1>2, <1>3
<1> QED BY <1>4, <1>5

-----------------------------------------------------------------------------
(***************************************************************************)
(* fix keeps the invariant, and changes the scores as the board does.      *)
(***************************************************************************)

\* A common offset keeps the order.
LEMMA OffsetSorted ==
  ASSUME NEW C, NEW s \in Seq(C), NEW sc \in [C -> Int], NEW off \in Int, Sorted(s, sc),
         NEW new, \A c \in C : new[c] = sc[c] + off
  PROVE  Sorted(s, new)
<1> SUFFICES ASSUME NEW p \in 1 .. Len(s), NEW q \in 1 .. Len(s), p < q
             PROVE  new[s[p]] >= new[s[q]]
  BY DEF Sorted
<1>1. s[p] \in C /\ s[q] \in C
  OBVIOUS
<1>2. sc[s[p]] >= sc[s[q]]
  BY DEF Sorted
<1>3. sc[s[p]] \in Int /\ sc[s[q]] \in Int
  BY <1>1
<1> QED BY <1>1, <1>2, <1>3

\* The offset that fix adds to the scores sc of C: the counters decide it.
OffsetOf(C, s, sc, off) ==
    off = IF Cardinality(LowIn(sc, C)) < Len(s) /\ Cardinality(HighIn(sc, C)) < Len(s)
          THEN 0 ELSE Offset(s, sc)

\* What it is for: nothing while the scores are on both sides of the middle,
\* and otherwise what brings a value a between two scores to the middle.
Centred(C, sc, a) ==
    /\ Board!AllLow(sc) \/ Board!AllHigh(sc)
    /\ a \in Scale
    /\ \E lo, hi \in C : sc[lo] <= a /\ a <= sc[hi]
OffsetMeans(C, sc, off) ==
    \/ off = 0 /\ ~Board!AllLow(sc) /\ ~Board!AllHigh(sc)
    \/ \E a : Centred(C, sc, a) /\ off = Half - a

LEMMA OffsetDecided ==
  ASSUME NEW C, NEW s, Each(s, C), C # {}, NEW sc \in [C -> Scale],
         NEW off, OffsetOf(C, s, sc, off)
  PROVE  OffsetMeans(C, sc, off)
<1>0. Scale \in SUBSET Int
  BY ScoreAssumption DEF Scale
<1>1. sc \in [C -> Int] /\ DOMAIN sc = C
  BY <1>0
<1>2. /\ (\A e \in C : sc[e] < Half) <=> ~(Cardinality(LowIn(sc, C)) < Len(s))
      /\ (\A e \in C : sc[e] > Half) <=> ~(Cardinality(HighIn(sc, C)) < Len(s))
  BY <1>1, AllCounted
<1>3. /\ Board!AllLow(sc) <=> \A e \in C : sc[e] < Half
      /\ Board!AllHigh(sc) <=> \A e \in C : sc[e] > Half
  BY <1>1 DEF Board!AllLow, Board!AllHigh, Board!Half, Half
<1>4. CASE Board!AllLow(sc) \/ Board!AllHigh(sc)
  <2>1. PICK a : a = Total(s, sc) \div Len(s)
    OBVIOUS
  <2>2. a \in Scale /\ \E lo, hi \in C : sc[lo] <= a /\ a <= sc[hi]
    BY <2>1, MeanBetween
  <2>3. off = Half - a
    BY <1>2, <1>3, <1>4, <2>1 DEF Offset, OffsetOf
  <2> QED BY <1>4, <2>2, <2>3 DEF OffsetMeans, Centred
<1>5. CASE ~(Board!AllLow(sc) \/ Board!AllHigh(sc))
  <2>1. off = 0
    BY <1>2, <1>3, <1>5 DEF OffsetOf
  <2> QED BY <1>5, <2>1 DEF OffsetMeans
<1> QED BY <1>4, <1>5

\* All scores move by the same amount.
AllMoved(sc, a, n) == n = [c \in DOMAIN sc |-> sc[c] + Board!Half - a]

LEMMA CentredOnScale ==
  ASSUME NEW k \in 0 .. MaxCandidates, NEW sc \in [Ids(k) -> Scale], NEW a, Centred(Ids(k), sc, a),
         NEW n, AllMoved(sc, a, n)
  PROVE  n \in [Ids(k) -> Scale]
<1>0. Board!Constants
  BY ScoreAssumption, CandidatesAssumption DEF Board!Constants
<1>1. /\ a \in 0 .. MaxScore /\ (Board!AllLow(sc) \/ Board!AllHigh(sc))
      /\ \E lo, hi \in Ids(k) : sc[lo] <= a /\ a <= sc[hi]
  BY DEF Centred, Scale
<1>2. PICK lo \in Ids(k), hi \in Ids(k) : sc[lo] <= a /\ a <= sc[hi]
  BY <1>1
<1>3. Ids(k) = Board!Ids(k) /\ Scale = 0 .. MaxScore
  BY DEF Ids, Board!Ids, Scale
<1>4. sc \in [Board!Ids(k) -> 0 .. MaxScore] /\ lo \in Board!Ids(k) /\ hi \in Board!Ids(k)
  BY <1>3
<1>5. n \in [Board!Ids(k) -> 0 .. MaxScore]
  <2>1. n = [c \in DOMAIN sc |-> sc[c] + Board!Half - a]
    BY DEF AllMoved
  <2> QED BY <1>0, <1>1, <1>2, <1>4, <2>1, ShiftInv
<1> QED BY <1>3, <1>5

Adds(sc, off) == score' = [c \in DOMAIN sc |-> sc[c] + off]

\* The counters, not the scores, decide between a change and a shift; that
\* they are exact makes it the step of the board.
LEMMA ScoresFixed ==
  ASSUME NEW k \in 0 .. MaxCandidates, NEW C, C = Ids(k), score \in [C -> Scale],
         NEW e \in C, NEW new \in Scale, NEW sc, sc = [score EXCEPT ![e] = new],
         NEW off, OffsetMeans(C, sc, off), Adds(sc, off)
  PROVE  off \in Int /\ score' \in [C -> Scale] /\ [Board!Next]_score
<1>0. Board!Constants /\ Scale \in SUBSET Int
  BY ScoreAssumption, CandidatesAssumption DEF Board!Constants, Scale
<1>1. sc \in [C -> Scale] /\ sc \in [C -> Int] /\ DOMAIN sc = C /\ DOMAIN score = C
  BY <1>0
<1>1a. e \in DOMAIN score /\ new \in 0 .. MaxScore
  BY <1>1 DEF Scale
<1>4. CASE off = 0 /\ ~Board!AllLow(sc) /\ ~Board!AllHigh(sc)
  <2>1. \A c \in C : sc[c] + off = sc[c]
    BY <1>1, <1>4
  <2>2. score' = sc
    BY <1>1, <2>1 DEF Adds
  <2>3. Board!Change(e, new)
    BY <1>4, <2>2 DEF Board!Change
  <2>4. [Board!Next]_score
    BY <1>1a, <2>3 DEF Board!Next
  <2> QED BY <1>1, <1>4, <2>2, <2>4
<1>5. ASSUME NEW a, Centred(C, sc, a), off = Half - a
      PROVE  off \in Int /\ score' \in [C -> Scale] /\ [Board!Next]_score
  <2>1. PICK lo \in C, hi \in C : sc[lo] <= a /\ a <= sc[hi]
    BY <1>5 DEF Centred
  <2>2. a \in 0 .. MaxScore /\ a \in Int
    BY <1>0, <1>5 DEF Centred, Scale
  <2>5. Half \in Int /\ off \in Int /\ Board!Half = Half
    BY <1>5, <2>2, HalfInt DEF Board!Half, Half
  <2>6. \A c \in C : sc[c] + off = sc[c] + Half - a
    <3> SUFFICES ASSUME NEW c \in C PROVE sc[c] + off = sc[c] + Half - a
      OBVIOUS
    <3>1. sc[c] \in Int
      BY <1>1
    <3> QED BY <1>5, <2>2, <2>5, <3>1
  <2>7. score' = [c \in DOMAIN sc |-> sc[c] + Board!Half - a]
    BY <1>1, <2>5, <2>6 DEF Adds
  <2>8. Board!AllLow(sc) \/ Board!AllHigh(sc)
    BY <1>5 DEF Centred
  <2>9. Board!Shift(e, new, a)
    BY <1>1, <2>1, <2>7, <2>8 DEF Board!Shift
  <2>10. [Board!Next]_score
    BY <1>1a, <2>2, <2>9 DEF Board!Next
  <2>12. PICK n : n = [c \in DOMAIN sc |-> sc[c] + Board!Half - a]
    OBVIOUS
  <2>13. n \in [C -> Scale]
    <3>1. sc \in [Ids(k) -> Scale] /\ Centred(Ids(k), sc, a)
      BY <1>1, <1>5
    <3>2. AllMoved(sc, a, n)
      BY <2>12 DEF AllMoved
    <3>3. n \in [Ids(k) -> Scale]
      BY <3>1, <3>2, CentredOnScale
    <3> QED BY <3>3
  <2>14. score' \in [C -> Scale]
    BY <2>7, <2>12, <2>13
  <2> QED BY <2>5, <2>10, <2>14
<1> QED BY <1>4, <1>5 DEF OffsetMeans

LEMMA FixKeeps ==
  ASSUME NEW k \in 0 .. MaxCandidates,
         QueueOf(Ids(k), elems, score, streak, nLow, nHigh),
         NEW e \in Ids(k), NEW success \in BOOLEAN, Fix(e, success)
  PROVE  QueueOf(Ids(k), elems', score', streak', nLow', nHigh') /\ [Board!Next]_score
<1>0. PICK C : C = Ids(k)
  OBVIOUS
<1>1. /\ e \in C /\ score \in [C -> Scale] /\ streak \in [C -> Streaks]
      /\ Each(elems, C) /\ Sorted(elems, score)
      /\ nLow = Cardinality(LowIn(score, C)) /\ nHigh = Cardinality(HighIn(score, C))
  BY <1>0 DEF QueueOf
<1>2. PICK new : new = IF success THEN SuccScore(score[e], streak[e])
                       ELSE FailScore(score[e], streak[e])
  OBVIOUS
<1>3. /\ new \in Scale
      /\ SuccN(streak[e]) \in Streaks /\ FailN(streak[e]) \in Streaks
  BY <1>1, <1>2, ElementTyped
<1>4. PICK sc : sc = [score EXCEPT ![e] = new]
  OBVIOUS
<1>5. Scale \in SUBSET Int
  BY ScoreAssumption DEF Scale
<1>6. /\ sc \in [C -> Int] /\ score \in [C -> Int]
      /\ SameBut(score, sc, e) /\ sc[e] = new /\ DOMAIN sc = C /\ DOMAIN score = C
  BY <1>1, <1>3, <1>4, <1>5 DEF SameBut
<1>7. PICK low : low = nLow + LowChange(score[e], new)
  OBVIOUS
<1>8. PICK high : high = nHigh + HighChange(score[e], new)
  OBVIOUS
<1>9. IsFiniteSet(C)
  BY <1>1, EachCount
<1>10. low = Cardinality(LowIn(sc, C)) /\ high = Cardinality(HighIn(sc, C))
  BY <1>1, <1>6, <1>7, <1>8, <1>9, ChangeCounts
<1>11. PICK off : off = IF low < Len(elems) /\ high < Len(elems) THEN 0 ELSE Offset(elems, sc)
  OBVIOUS
<1>12. /\ streak' = [streak EXCEPT ![e] = IF success THEN SuccN(@) ELSE FailN(@)]
       /\ elems' = Moved(elems, sc, e)
       /\ score' = [c \in C |-> sc[c] + off]
       /\ nLow' = low + Total(elems, [c \in DOMAIN sc |-> LowChange(sc[c], sc[c] + off)])
       /\ nHigh' = high + Total(elems, [c \in DOMAIN sc |-> HighChange(sc[c], sc[c] + off)])
  BY <1>2, <1>4, <1>6, <1>7, <1>8, <1>11 DEF Fix, Candidates
<1>13. off \in Int /\ score' \in [C -> Scale] /\ [Board!Next]_score
  <2>1. Adds(sc, off)
    BY <1>6, <1>12 DEF Adds
  <2>2. OffsetOf(C, elems, sc, off)
    BY <1>10, <1>11 DEF OffsetOf
  <2>3. C # {} /\ sc \in [C -> Scale]
    BY <1>1, <1>3, <1>4
  <2>4. OffsetMeans(C, sc, off)
    BY <1>1, <2>2, <2>3, OffsetDecided
  <2> QED BY <1>0, <1>1, <1>3, <1>4, <2>1, <2>4, ScoresFixed
<1>14. streak' \in [C -> Streaks]
  BY <1>1, <1>3, <1>12
<1>15. Each(elems', C) /\ Sorted(elems', sc)
  BY <1>1, <1>6, <1>12, MovedSorted
<1>16. Sorted(elems', score')
  <2>1. elems' \in Seq(C)
    BY <1>15 DEF Each
  <2>2. \A c \in C : score'[c] = sc[c] + off
    BY <1>12
  <2> QED BY <1>6, <1>13, <1>15, <2>1, <2>2, OffsetSorted
<1>17. /\ nLow' = Cardinality(LowIn(score', C))
       /\ nHigh' = Cardinality(HighIn(score', C))
  <2>1. PICK b : b = score'
    OBVIOUS
  <2>2. PICK lows : lows = [c \in DOMAIN sc |-> LowChange(sc[c], sc[c] + off)]
    OBVIOUS
  <2>3. PICK highs : highs = [c \in DOMAIN sc |-> HighChange(sc[c], sc[c] + off)]
    OBVIOUS
  <2>4. b \in [C -> Int]
    BY <1>5, <1>13, <2>1
  <2>5. \A c \in C : lows[c] = LowChange(sc[c], b[c]) /\ highs[c] = HighChange(sc[c], b[c])
    BY <1>6, <1>12, <2>1, <2>2, <2>3
  <2>6. /\ Total(elems, lows) = Cardinality(LowIn(b, C)) - Cardinality(LowIn(sc, C))
        /\ Total(elems, highs) = Cardinality(HighIn(b, C)) - Cardinality(HighIn(sc, C))
    BY <1>1, <1>6, <2>4, <2>5, TotalCounts
  <2>7. /\ LowIn(b, C) \in SUBSET C /\ LowIn(sc, C) \in SUBSET C
        /\ HighIn(b, C) \in SUBSET C /\ HighIn(sc, C) \in SUBSET C
    BY DEF LowIn, HighIn
  <2>8. /\ Cardinality(LowIn(b, C)) \in Nat /\ Cardinality(LowIn(sc, C)) \in Nat
        /\ Cardinality(HighIn(b, C)) \in Nat /\ Cardinality(HighIn(sc, C)) \in Nat
    BY <1>9, <2>7, FS_Subset, FS_CardinalityType
  <2>9. nLow' = low + Total(elems, lows) /\ nHigh' = high + Total(elems, highs)
    BY <1>12, <2>2, <2>3
  <2>10. nLow' = Cardinality(LowIn(b, C)) /\ nHigh' = Cardinality(HighIn(b, C))
    BY <1>10, <2>6, <2>8, <2>9
  <2> QED BY <2>1, <2>10
<1> QED BY <1>0, <1>13, <1>14, <1>15, <1>16, <1>17 DEF QueueOf

-----------------------------------------------------------------------------
(***************************************************************************)
(* The invariant holds, for every number of candidates and connections.    *)
(***************************************************************************)

\* A connection that scores leaves a queue of the same candidates.
LEMMA ScoreKeeps ==
  ASSUME IInv, NEW k \in Conns, conn[k].st # "none", NEW success \in BOOLEAN, Score(k, success)
  PROVE  QueueInv' /\ Candidates' = Candidates /\ [Board!Next]_score
<1>1. PICK n \in 0 .. MaxCandidates : QueueOf(Ids(n), elems, score, streak, nLow, nHigh)
  BY DEF IInv, QueueInv
<1>2. Candidates = Ids(n)
  BY <1>1 DEF QueueOf, Candidates
<1>3. CASE conn[k].stale \/ Frozen(conn[k].e, success)
  <2>1. UNCHANGED queueVars
    BY <1>3 DEF Score
  <2> QED BY <1>1, <2>1 DEF queueVars, QueueInv, Candidates
<1>4. CASE ~(conn[k].stale \/ Frozen(conn[k].e, success))
  <2>1. Fix(conn[k].e, success)
    BY <1>4 DEF Score
  <2>2. conn[k].e \in Ids(n)
    BY <1>2, <1>4 DEF IInv, ConnInv, ConnOK
  <2>3. QueueOf(Ids(n), elems', score', streak', nLow', nHigh') /\ [Board!Next]_score
    BY <1>1, <2>1, <2>2, FixKeeps
  <2>4. Candidates' = Ids(n)
    BY <2>3 DEF QueueOf, Candidates
  <2>5. QueueInv'
    BY <2>3 DEF QueueInv
  <2> QED BY <1>2, <2>3, <2>4, <2>5
<1> QED BY <1>3, <1>4

LEMMA Unscored ==
  ASSUME IInv, UNCHANGED queueVars
  PROVE  QueueInv' /\ Candidates' = Candidates /\ [Board!Next]_score
BY DEF IInv, queueVars, QueueInv, Candidates

LEMMA InitIInv == Init => IInv /\ Board!Init
<1> SUFFICES ASSUME Init PROVE IInv /\ Board!Init
  OBVIOUS
<1>1. PICK k \in 1 .. MaxCandidates :
         elems = NewElems(k) /\ score = NewScores(k) /\ streak = NewStreaks(k)
  BY DEF Init
<1>2. k \in 0 .. MaxCandidates /\ k \in Nat
  BY CandidatesAssumption
<1>3. QueueInv
  <2>1. QueueOf(Ids(k), NewElems(k), NewScores(k), NewStreaks(k), 0, 0)
    BY <1>2, NewQueue
  <2>2. nLow = 0 /\ nHigh = 0
    BY DEF Init
  <2> QED BY <1>1, <1>2, <2>1, <2>2 DEF QueueInv
<1>4. ConnInv
  BY DEF Init, ConnInv, ConnType, ConnOK, NoConn
<1>5. Board!Init
  BY <1>1, <1>2 DEF Board!Init, Board!Fresh, Board!Ids, Board!Half, NewScores, Half
<1> QED BY <1>3, <1>4, <1>5 DEF IInv

\* The elements that tie with the first end somewhere.
LEMMA TieEnds ==
  ASSUME NEW C, NEW s \in Seq(C), NEW sc \in [C -> Int], Len(s) # 0
  PROVE  \E m \in 1 .. Len(s) : /\ sc[s[m]] >= sc[s[1]]
                                /\ m = Len(s) \/ sc[s[m + 1]] < sc[s[1]]
<1> DEFINE T == {p \in 1 .. Len(s) : p = Len(s) \/ sc[s[p + 1]] < sc[s[1]]}
<1>0. Len(s) \in Nat \ {0} /\ \A p \in 1 .. Len(s) : s[p] \in C /\ sc[s[p]] \in Int
  OBVIOUS
<1>1. T \in SUBSET Nat /\ Len(s) \in T
  BY <1>0
<1>2. PICK m \in T : \A p \in T : m <= p
  <2> HIDE DEF T
  <2> QED BY <1>1, Least
<1>3. m \in 1 .. Len(s) /\ (m = Len(s) \/ sc[s[m + 1]] < sc[s[1]])
  BY <1>2
<1>4. sc[s[m]] >= sc[s[1]]
  <2>1. CASE m = 1
    BY <1>0, <1>3, <2>1
  <2>2. CASE m # 1
    <3>1. PICK q \in 1 .. Len(s) : q + 1 = m /\ q # Len(s) /\ q < m
      <4>1. m - 1 \in 1 .. Len(s) /\ (m - 1) + 1 = m /\ m - 1 # Len(s) /\ m - 1 < m
        BY <1>0, <1>3, <2>2
      <4> QED BY <4>1
    <3>2. q \notin T
      <4> HIDE DEF T
      <4> QED BY <1>2, <1>3, <3>1
    <3>3. ~(sc[s[m]] < sc[s[1]])
      BY <3>1, <3>2
    <3>4. sc[s[m]] \in Int /\ sc[s[1]] \in Int
      <4>1. 1 \in 1 .. Len(s)
        BY <1>0
      <4> QED BY <1>0, <1>3, <4>1
    <3> QED BY <3>3, <3>4
  <2> QED BY <2>1, <2>2
<1> QED BY <1>3, <1>4

\* One connection changes.
LEMMA OneConn ==
  ASSUME IInv, Candidates' = Candidates, NEW k \in Conns, NEW c \in ConnType, ConnOK(c, Candidates),
         conn' = [conn EXCEPT ![k] = c]
  PROVE  ConnInv'
<1>1. conn' \in [Conns -> ConnType]
  BY DEF IInv, ConnInv
<1>2. ASSUME NEW j \in Conns PROVE ConnOK(conn'[j], Candidates')
  <2>1. conn'[j] = IF j = k THEN c ELSE conn[j]
    BY DEF IInv, ConnInv
  <2>2. ConnOK(conn[j], Candidates)
    BY DEF IInv, ConnInv
  <2> QED BY <2>1, <2>2
<1> QED BY <1>1, <1>2 DEF ConnInv

LEMMA NextIInv == IInv /\ [Next]_vars => IInv' /\ [Board!Next]_score
<1> SUFFICES ASSUME IInv, [Next]_vars PROVE IInv' /\ [Board!Next]_score
  OBVIOUS
<1>t. conn \in [Conns -> ConnType] /\ \A k \in Conns : ConnOK(conn[k], Candidates)
  BY DEF IInv, ConnInv
<1>1. ASSUME NEW k \in 0 .. MaxCandidates, Reload(k) PROVE IInv' /\ [Board!Next]_score
  <2>0. k \in Nat
    BY CandidatesAssumption
  <2>1. QueueInv'
    <3>1. QueueOf(Ids(k), NewElems(k), NewScores(k), NewStreaks(k), 0, 0)
      BY <2>0, NewQueue
    <3> QED BY <1>1, <3>1 DEF QueueInv, Reload
  <2>2. ConnInv'
    <3>1. conn' = [c \in Conns |-> [conn[c] EXCEPT !.stale = conn[c].st # "none", !.e = 0]]
      BY <1>1 DEF Reload
    <3>2. ASSUME NEW c \in Conns PROVE conn'[c] \in ConnType /\ ConnOK(conn'[c], Candidates')
      <4>1. conn[c] \in ConnType /\ ConnOK(conn[c], Candidates)
        BY <1>t
      <4>2. conn'[c] = [conn[c] EXCEPT !.stale = conn[c].st # "none", !.e = 0]
        BY <3>1
      <4>3. PICK r : r = conn'[c]
        OBVIOUS
      <4>4. PICK x \in BOOLEAN : x = (conn[c].st # "none")
        OBVIOUS
      <4>5. r = [conn[c] EXCEPT !.stale = x, !.e = 0]
        BY <4>2, <4>3, <4>4
      <4>6. r \in ConnType
        BY <4>1, <4>5 DEF ConnType
      <4>7. /\ r.st = conn[c].st /\ r.success = conn[c].success /\ r.failure = conn[c].failure
            /\ r.counted = conn[c].counted /\ r.stale = x
        BY <4>1, <4>5 DEF ConnType
      <4> QED BY <4>1, <4>3, <4>4, <4>6, <4>7 DEF ConnOK
    <3> QED BY <3>1, <3>2 DEF ConnInv
  <2>3. [Board!Next]_score
    <3>1. score' = Board!Fresh(k)
      BY <1>1 DEF Reload, NewScores, Half, Board!Fresh, Board!Ids, Board!Half
    <3> QED BY <3>1 DEF Board!Next, Board!Reset
  <2> QED BY <2>1, <2>2, <2>3 DEF IInv
<1>2. ASSUME NEW k \in Conns, Pick(k) PROVE IInv' /\ [Board!Next]_score
  <2>1. QueueInv' /\ Candidates' = Candidates /\ [Board!Next]_score
    BY <1>2, Unscored DEF Pick
  <2>2. ASSUME NEW n \in 0 .. MaxCandidates, QueueOf(Ids(n), elems, score, streak, nLow, nHigh)
        PROVE  Candidates = Ids(n) /\ elems \in Seq(Candidates) /\ Candidates \subseteq Nat
    BY <2>2 DEF QueueOf, Candidates, Each, Ids
  <2>3. elems \in Seq(Candidates) /\ Candidates \subseteq Nat
    BY <2>2 DEF IInv, QueueInv
  <2>4. PICK i \in 1 .. Len(elems) :
           conn' = [conn EXCEPT ![k] = [NoConn EXCEPT !.st = "dialing", !.e = elems[i]]]
    <3>1. Len(elems) \in Nat \ {0} /\ DOMAIN elems = 1 .. Len(elems)
      BY <1>2, <2>3 DEF Pick
    <3> DEFINE Tie(m) == /\ score[elems[m]] >= score[elems[1]]
                         /\ m = Len(elems) \/ score[elems[m + 1]] < score[elems[1]]
    <3>2. \E m \in DOMAIN elems : Tie(m)
      <4>1. PICK n \in 0 .. MaxCandidates : QueueOf(Ids(n), elems, score, streak, nLow, nHigh)
        BY DEF IInv, QueueInv
      <4>2. score \in [Ids(n) -> Scale] /\ elems \in Seq(Ids(n)) /\ Scale \in SUBSET Int
        BY <4>1, ScoreAssumption DEF QueueOf, Each, Scale
      <4>3. score \in [Ids(n) -> Int]
        BY <4>2
      <4> QED BY <3>1, <4>2, <4>3, TieEnds
    <3>3. PICK m : m = CHOOSE p \in DOMAIN elems : Tie(p)
      OBVIOUS
    <3>4. m \in DOMAIN elems
      <4> HIDE DEF Tie
      <4> QED BY <3>2, <3>3
    <3>5. \E i \in 1 .. m : conn' = [conn EXCEPT ![k] = [NoConn EXCEPT !.st = "dialing", !.e = elems[i]]]
      BY <1>2, <3>3 DEF Pick
    <3>6. \A i \in 1 .. m : i \in 1 .. Len(elems)
      BY <3>1, <3>4
    <3> QED BY <3>5, <3>6
  <2>5. elems[i] \in Candidates /\ elems[i] \in Nat
    <3>1. elems[i] \in Candidates
      BY <2>3, ElementOfSeq
    <3> QED BY <2>3, <3>1
  <2>6. PICK c : c = [NoConn EXCEPT !.st = "dialing", !.e = elems[i]]
    OBVIOUS
  <2>7. c \in ConnType /\ ConnOK(c, Candidates)
    BY <2>5, <2>6 DEF ConnType, ConnOK, NoConn
  <2>8. conn' = [conn EXCEPT ![k] = c]
    BY <2>4, <2>6
  <2>9. ConnInv'
    BY <2>1, <2>7, <2>8, OneConn
  <2> QED BY <2>1, <2>9 DEF IInv
<1>3. ASSUME NEW k \in Conns, DialFails(k) PROVE IInv' /\ [Board!Next]_score
  <2>1. QueueInv' /\ Candidates' = Candidates /\ [Board!Next]_score
    BY <1>3, ScoreKeeps DEF DialFails
  <2>2. NoConn \in ConnType /\ ConnOK(NoConn, Candidates)
    BY DEF ConnType, ConnOK, NoConn
  <2>3. ConnInv'
    BY <1>3, <2>1, <2>2, OneConn DEF DialFails
  <2> QED BY <2>1, <2>3 DEF IInv
<1>4. ASSUME NEW k \in Conns, DialSucceeds(k) PROVE IInv' /\ [Board!Next]_score
  <2>1. QueueInv' /\ Candidates' = Candidates /\ [Board!Next]_score
    BY <1>4, Unscored DEF DialSucceeds
  <2>2. PICK c : c = [conn[k] EXCEPT !.st = "open"]
    OBVIOUS
  <2>3. c \in ConnType /\ ConnOK(c, Candidates)
    BY <1>t, <1>4, <2>2 DEF ConnType, ConnOK, DialSucceeds
  <2>4. conn' = [conn EXCEPT ![k] = c]
    BY <1>t, <1>4, <2>2 DEF DialSucceeds
  <2>5. ConnInv'
    BY <2>1, <2>3, <2>4, OneConn
  <2> QED BY <2>1, <2>5 DEF IInv
<1>5. ASSUME NEW k \in Conns, NEW data \in BOOLEAN, NEW err \in BOOLEAN, Read(k, data, err)
      PROVE  IInv' /\ [Board!Next]_score
  <2>1. QueueInv' /\ Candidates' = Candidates /\ [Board!Next]_score
    <3>1. CASE data /\ ~conn[k].success
      <4>1. Score(k, TRUE) /\ conn[k].st # "none"
        BY <1>5, <3>1 DEF Read
      <4> QED BY <4>1, ScoreKeeps
    <3>2. CASE ~(data /\ ~conn[k].success)
      BY <1>5, <3>2, Unscored DEF Read
    <3> QED BY <3>1, <3>2
  <2>2. PICK c : c = [conn[k] EXCEPT !.success = @ \/ data, !.readfailed = @ \/ err,
                        !.counted = @ + (IF data /\ ~conn[k].success THEN 1 ELSE 0)]
    OBVIOUS
  <2>3. c \in ConnType /\ ConnOK(c, Candidates)
    <3>1. conn[k] \in ConnType /\ ConnOK(conn[k], Candidates) /\ conn[k].st = "open"
      BY <1>t, <1>5 DEF Read
    <3>2. /\ c \in ConnType /\ c.st = "open" /\ c.e = conn[k].e /\ c.stale = conn[k].stale
          /\ c.failure = conn[k].failure /\ c.success = (conn[k].success \/ data)
          /\ c.counted = conn[k].counted + (IF data /\ ~conn[k].success THEN 1 ELSE 0)
      <4>1. PICK x \in BOOLEAN : x = (conn[k].success \/ data)
        OBVIOUS
      <4>2. PICK y \in BOOLEAN : y = (conn[k].readfailed \/ err)
        OBVIOUS
      <4>3. PICK z : z = conn[k].counted + (IF data /\ ~conn[k].success THEN 1 ELSE 0)
        OBVIOUS
      <4>4. c = [conn[k] EXCEPT !.success = x, !.readfailed = y, !.counted = z]
        BY <2>2, <4>1, <4>2, <4>3
      <4>5. z \in Nat
        BY <3>1, <4>3 DEF ConnType
      <4>6. /\ c \in ConnType /\ c.st = "open" /\ c.e = conn[k].e /\ c.stale = conn[k].stale
            /\ c.failure = conn[k].failure /\ c.success = x /\ c.counted = z
        BY <3>1, <4>4, <4>5 DEF ConnType
      <4> QED BY <4>1, <4>3, <4>6
    <3>3. c.failure = FALSE /\ conn[k].failure = FALSE
      BY <3>1, <3>2 DEF ConnOK, ConnType
    <3>4. c.counted = IF c.success \/ c.failure THEN 1 ELSE 0
      BY <3>1, <3>2, <3>3 DEF ConnOK, ConnType
    <3> QED BY <3>1, <3>2, <3>3, <3>4 DEF ConnOK
  <2>4. conn' = [conn EXCEPT ![k] = c]
    BY <1>t, <1>5, <2>2 DEF Read, ConnType
  <2>5. ConnInv'
    BY <2>1, <2>3, <2>4, OneConn
  <2> QED BY <2>1, <2>5 DEF IInv
<1>6. ASSUME NEW k \in Conns, Close(k) PROVE IInv' /\ [Board!Next]_score
  <2>1. QueueInv' /\ Candidates' = Candidates /\ [Board!Next]_score
    <3>1. CASE Fails(k)
      <4>1. Score(k, FALSE) /\ conn[k].st # "none"
        BY <1>6, <3>1 DEF Close
      <4> QED BY <4>1, ScoreKeeps
    <3>2. CASE ~Fails(k)
      BY <1>6, <3>2, Unscored DEF Close
    <3> QED BY <3>1, <3>2
  <2>2. PICK c : c = [conn[k] EXCEPT !.st = "closed", !.failure = @ \/ Fails(k),
                        !.counted = @ + (IF Fails(k) THEN 1 ELSE 0)]
    OBVIOUS
  <2>3. c \in ConnType /\ ConnOK(c, Candidates)
    <3>1. conn[k] \in ConnType /\ ConnOK(conn[k], Candidates) /\ conn[k].st \in {"open", "closed"}
      BY <1>t, <1>6 DEF Close
    <3>2. Fails(k) = (~conn[k].success /\ ~conn[k].failure /\ conn[k].readfailed)
      BY DEF Fails
    <3>3. /\ c \in ConnType /\ c.st = "closed" /\ c.e = conn[k].e /\ c.stale = conn[k].stale
          /\ c.success = conn[k].success /\ c.failure = (conn[k].failure \/ Fails(k))
          /\ c.counted = conn[k].counted + (IF Fails(k) THEN 1 ELSE 0)
      <4>1. PICK x \in BOOLEAN : x = (conn[k].failure \/ Fails(k))
        OBVIOUS
      <4>2. PICK z : z = conn[k].counted + (IF Fails(k) THEN 1 ELSE 0)
        OBVIOUS
      <4>3. c = [conn[k] EXCEPT !.st = "closed", !.failure = x, !.counted = z]
        BY <2>2, <4>1, <4>2
      <4>4. z \in Nat
        BY <3>1, <4>2 DEF ConnType
      <4>5. /\ c \in ConnType /\ c.st = "closed" /\ c.e = conn[k].e /\ c.stale = conn[k].stale
            /\ c.success = conn[k].success /\ c.failure = x /\ c.counted = z
        BY <3>1, <4>3, <4>4 DEF ConnType
      <4> QED BY <4>1, <4>2, <4>5
    <3>4. c.counted = IF c.success \/ c.failure THEN 1 ELSE 0
      BY <3>1, <3>2, <3>3 DEF ConnOK, ConnType
    <3>5. ~(c.success /\ c.failure)
      BY <3>1, <3>2, <3>3 DEF ConnOK
    <3> QED BY <3>1, <3>3, <3>4, <3>5 DEF ConnOK
  <2>4. conn' = [conn EXCEPT ![k] = c]
    BY <1>t, <1>6, <2>2 DEF Close, ConnType
  <2>5. ConnInv'
    BY <2>1, <2>3, <2>4, OneConn
  <2> QED BY <2>1, <2>5 DEF IInv
<1>7. ASSUME NEW k \in Conns, Forget(k) PROVE IInv' /\ [Board!Next]_score
  <2>1. QueueInv' /\ Candidates' = Candidates /\ [Board!Next]_score
    BY <1>7, Unscored DEF Forget
  <2>2. NoConn \in ConnType /\ ConnOK(NoConn, Candidates)
    BY DEF ConnType, ConnOK, NoConn
  <2>3. ConnInv'
    BY <1>7, <2>1, <2>2, OneConn DEF Forget
  <2> QED BY <2>1, <2>3 DEF IInv
<1>8. CASE UNCHANGED vars
  <2>1. UNCHANGED queueVars /\ conn' = conn
    BY <1>8 DEF vars, queueVars
  <2>2. QueueInv' /\ Candidates' = Candidates /\ [Board!Next]_score
    BY <2>1, Unscored
  <2>3. ConnInv'
    BY <1>t, <2>1, <2>2 DEF ConnInv
  <2> QED BY <2>2, <2>3 DEF IInv
<1> QED BY <1>1, <1>2, <1>3, <1>4, <1>5, <1>6, <1>7, <1>8 DEF Next

LEMMA Invariance == Spec => []IInv
<1>1. Init => IInv
  BY InitIInv
<1>2. IInv /\ [Next]_vars => IInv'
  BY NextIInv
<1> QED BY <1>1, <1>2, PTL DEF Spec

\* However the connections of any number of clients interleave, and whenever
\* a reload replaces the queue, fix leaves a queue that holds every candidate
\* once, in descending order of score, and counters that are exact.
THEOREM QueueStaysExact == Spec => []QueueExact
<1>1. IInv => QueueExact
  <2> SUFFICES ASSUME IInv PROVE QueueExact
    OBVIOUS
  <2>1. PICK n \in 0 .. MaxCandidates : QueueOf(Ids(n), elems, score, streak, nLow, nHigh)
    BY DEF IInv, QueueInv
  <2>2. /\ Candidates = Ids(n) /\ Each(elems, Candidates) /\ Sorted(elems, score)
        /\ nLow = Cardinality(LowIn(score, Candidates))
        /\ nHigh = Cardinality(HighIn(score, Candidates))
    BY <2>1 DEF QueueOf, Candidates
  <2>3. elems \in Seq(Candidates) /\ DOMAIN elems = 1 .. Len(elems)
    BY <2>2 DEF Each
  <2>4. ToSet(elems) = Candidates
    <3>1. \A p \in 1 .. Len(elems) : elems[p] \in Candidates
      BY <2>3
    <3>2. \A e \in Candidates : \E p \in 1 .. Len(elems) : elems[p] = e
      BY <2>2 DEF Each
    <3> QED BY <2>3, <3>1, <3>2 DEF ToSet
  <2>5. \A i, j \in DOMAIN elems : i < j => score[elems[i]] >= score[elems[j]]
    BY <2>2, <2>3 DEF Sorted
  <2> QED BY <2>2, <2>4, <2>5 DEF QueueExact, LowIn, HighIn
<1> QED BY <1>1, Invariance, PTL

\* A connection is scored at most once, however often Read and Close are
\* called and whatever they return.
THEOREM ScoredAtMostOnce == Spec => []ScoredOnce
<1>1. IInv => ScoredOnce
  <2> SUFFICES ASSUME IInv, NEW k \in Conns PROVE conn[k].counted <= 1
    BY DEF ScoredOnce
  <2>1. conn[k].counted = IF conn[k].success \/ conn[k].failure THEN 1 ELSE 0
    BY DEF IInv, ConnInv, ConnOK
  <2> QED BY <2>1
<1> QED BY <1>1, Invariance, PTL

\* fix implements the score board: every step of a connection or a reload
\* changes the scores as the board allows, or leaves them alone. The counters
\* that fix keeps decide which; the proof needs them to be exact.
THEOREM BoardImplemented == Spec => ImplementsBoard
<1>1. Init => Board!Init
  BY InitIInv
<1>2. IInv /\ [Next]_vars => [Board!Next]_score
  BY NextIInv
<1> QED BY <1>1, <1>2, Invariance, PTL DEF Spec, ImplementsBoard, Board!Spec

\* So the scores of the queue stay on the scale, without fix clamping them
\* when it adds the offset, and on both sides of its middle.
THEOREM ScoresSafe == Spec => [](Board!OnScale /\ Board!TwoSided)
<1>1. Board!Constants
  BY ScoreAssumption, CandidatesAssumption DEF Board!Constants
<1> QED BY <1>1, BoardImplemented, BoardSafe, PTL DEF ImplementsBoard

-----------------------------------------------------------------------------
(***************************************************************************)
(* The round-robin balancer.                                               *)
(***************************************************************************)

PCs == {"idle", "compare", "load", "swap", "next", "store", "dial"}
CallType == [pc : PCs, g : 0 .. (MaxReloads + 1), i : Nat]

SizesInv == gen \in Generations /\ size \in [Generations -> 0 .. MaxCandidates]

TypeInv ==
    /\ SizesInv
    /\ counter \in [Generations -> Nat]
    /\ index \in [Conns -> 0 .. (MaxReloads + 1)]
    /\ loaded \in [Conns -> Nat]
    /\ call \in [Conns -> [Calls -> CallType]]
    /\ turns \in [Generations -> [Indices -> Nat]]

\* The candidate is d places after i, of n in a circle.
After(i, d, n) == IF i + d < n THEN i + d ELSE i + d - n

\* Going round from s to the counter v one passes i.
Ahead(s, v, i) == IF (s <= i /\ i < v) \/ (v < s /\ (s <= i \/ i < v)) THEN 1 ELSE 0

\* The turns t of n candidates with the counter at v: the candidates between
\* where it began and where it is have had one turn more than the others.
Even(t, n, v) ==
    \E s \in 0 .. (n - 1), q \in Nat :
        \A i \in 0 .. (n - 1) : t[i] = q + Ahead(s, v, i)

\* A counter is a candidate, and its turns are even.
TurnOK(g) ==
    /\ g > gen => \A i \in Indices : turns[g][i] = 0
    /\ size[g] > 0 => counter[g] < size[g] /\ Even(turns[g], size[g], counter[g])

TurnInv == \A g \in Generations : TurnOK(g)

\* A call me of a connection with index x: the generation whose counter it uses
\* has as many candidates as the one it has read.
CallOK(me, x) ==
    /\ me.pc # "idle" => me.g \in 1 .. gen /\ size[me.g] > 0
    /\ me.pc \notin {"idle", "compare"} => x # 0 /\ size[x] = size[me.g]
    /\ me.pc \in {"swap", "store"} => me.i < size[me.g]

\* indexLoaded l of a connection with index x is a candidate of x, but while its
\* only call takes a turn because a reload has given it another x.
LoadedOK(calls, x, l) ==
    (x # 0 /\ (KeptSize \/ \A k \in Calls : calls[k].pc \notin {"load", "swap", "store"}))
        => l < size[x]

ClosureOK(calls, x, l) ==
    /\ x <= gen
    /\ IF x = 0 THEN l = 0 ELSE size[x] > 0
    /\ \A k \in Calls : CallOK(calls[k], x)
    /\ LoadedOK(calls, x, l)

CallsInv == \A c \in Conns : ClosureOK(call[c], index[c], loaded[c])

RoundRobinInv == TypeInv /\ TurnInv /\ CallsInv

\* What the calls of a connection need in order to share its variables.
Shared == OneCall \/ KeptSize

SharedInv == SizesInv /\ (Shared => RoundRobinInv)

LEMMA Bounds ==
  MaxCandidates \in Nat /\ MaxReloads \in Nat /\ MaxAttempts \in Nat
BY BoundsAssumption

\* Counting modulo n.
LEMMA NextMod ==
  ASSUME NEW n \in Nat, NEW i \in Nat, i < n
  PROVE  (i + 1) % n = After(i, 1, n) /\ After(i, 1, n) \in Nat /\ After(i, 1, n) < n
BY DEF After

LEMMA CallTyped ==
  ASSUME TypeInv, NEW c \in Conns, NEW k \in Calls
  PROVE  call[c][k] \in CallType
BY DEF TypeInv

LEMMA CallFields ==
  ASSUME NEW r \in CallType
  PROVE  r.pc \in PCs /\ r.g \in Nat /\ r.g <= MaxReloads + 1 /\ r.i \in Nat
BY Bounds DEF CallType

LEMMA MovedOn ==
  ASSUME NEW r \in CallType, NEW st \in PCs, NEW R, R = [r EXCEPT !.pc = st]
  PROVE  R \in CallType /\ R.pc = st /\ R.g = r.g /\ R.i = r.i
BY DEF CallType

\* One call of a connection takes a step.
LEMMA CallEffect ==
  ASSUME TypeInv, NEW c \in Conns, NEW k \in Calls, NEW R \in CallType,
         call' = [call EXCEPT ![c][k] = R]
  PROVE  /\ call' \in [Conns -> [Calls -> CallType]]
         /\ call'[c][k] = R
         /\ \A d \in Conns \ {c} : call'[d] = call[d]
BY DEF TypeInv

\* A step of one call: it leaves the other connections alone, and if the
\* connection makes other calls, the generation it goes to has the same size.
LEMMA ClosureStep ==
  ASSUME TypeInv, CallsInv, Shared, UNCHANGED <<gen, size>>,
         NEW c \in Conns, NEW k \in Calls, NEW R \in CallType,
         call' = [call EXCEPT ![c][k] = R],
         \A d \in Conns \ {c} : index'[d] = index[d] /\ loaded'[d] = loaded[d],
         index'[c] <= gen,
         IF index'[c] = 0 THEN loaded'[c] = 0 ELSE size[index'[c]] > 0,
         CallOK(R, index'[c]),
         (KeptSize /\ index[c] # 0) => (index'[c] # 0 /\ size[index'[c]] = size[index[c]]),
         LoadedOK(call'[c], index'[c], loaded'[c])
  PROVE  CallsInv'
<1>1. /\ call' \in [Conns -> [Calls -> CallType]] /\ call'[c][k] = R
      /\ \A j \in Calls \ {k} : call'[c][j] = call[c][j]
      /\ \A d \in Conns \ {c} : call'[d] = call[d]
  BY DEF TypeInv
<1>2. KeptSize' <=> KeptSize
  BY DEF KeptSize
<1>3. ASSUME NEW d \in Conns, d # c PROVE ClosureOK(call[d], index[d], loaded[d])'
  <2>1. ClosureOK(call[d], index[d], loaded[d])
    BY DEF CallsInv
  <2>2. call'[d] = call[d] /\ index'[d] = index[d] /\ loaded'[d] = loaded[d]
    BY <1>1, <1>3
  <2> QED BY <2>1, <2>2, <1>2 DEF ClosureOK, CallOK, LoadedOK
<1>4. ASSUME NEW j \in Calls PROVE CallOK(call'[c][j], index'[c])
  <2>1. CASE j = k
    BY <1>1, <2>1
  <2>2. CASE j # k
    <3>1. CallOK(call[c][j], index[c])
      BY DEF CallsInv, ClosureOK
    <3>2. KeptSize /\ call'[c][j] = call[c][j]
      BY <1>1, <2>2 DEF Shared, OneCall
    <3> QED BY <3>1, <3>2 DEF CallOK
  <2> QED BY <2>1, <2>2
<1>5. ClosureOK(call[c], index[c], loaded[c])'
  BY <1>2, <1>4 DEF ClosureOK, CallOK, LoadedOK
<1> QED BY <1>3, <1>5 DEF CallsInv

LEMMA TurnStep ==
  ASSUME RoundRobinInv, UNCHANGED <<gen, size, counter, turns>>
  PROVE  TurnInv'
BY DEF RoundRobinInv, TurnInv, TurnOK, Even

\* A step that changes neither index nor indexLoaded.
LEMMA CallStep ==
  ASSUME RoundRobinInv, Shared, UNCHANGED <<gen, size, index, loaded>>,
         NEW c \in Conns, NEW k \in Calls, NEW R \in CallType,
         call' = [call EXCEPT ![c][k] = R],
         CallOK(R, index[c]),
         R.pc \in {"load", "swap", "store"} \/ call[c][k].pc \notin {"load", "swap", "store"}
  PROVE  CallsInv'
<1>1. /\ call'[c][k] = R /\ \A j \in Calls \ {k} : call'[c][j] = call[c][j]
  BY DEF RoundRobinInv, TypeInv
<1>2. ClosureOK(call[c], index[c], loaded[c])
  BY DEF RoundRobinInv, CallsInv
<1>3. LoadedOK(call'[c], index'[c], loaded'[c])
  BY <1>1, <1>2 DEF ClosureOK, LoadedOK
<1> QED BY <1>2, <1>3, ClosureStep DEF RoundRobinInv, ClosureOK

\* opts := <-optsOut
LEMMA BeginStep ==
  ASSUME RoundRobinInv, Shared, NEW c \in Conns, NEW k \in Calls, Begin(c, k)
  PROVE  RoundRobinInv'
<1> DEFINE R == IF size[gen] = 0 THEN NoCall ELSE [pc |-> "compare", g |-> gen, i |-> 0]
<1>0. /\ UNCHANGED <<gen, size, counter, index, loaded, turns>> /\ call[c][k].pc = "idle"
      /\ call' = [call EXCEPT ![c][k] = R]
  BY DEF Begin
<1>1. /\ R \in CallType /\ R.pc \in {"idle", "compare"}
      /\ R.pc = "compare" => R.g \in 1 .. gen /\ size[R.g] > 0
  BY Bounds DEF RoundRobinInv, TypeInv, SizesInv, CallType, PCs, NoCall, Generations
<1> HIDE DEF R
<1>2. TypeInv'
  BY <1>0, <1>1, CallEffect DEF RoundRobinInv, TypeInv, SizesInv
<1>3. TurnInv'
  BY <1>0, TurnStep
<1>4. CallOK(R, index[c])
  BY <1>1 DEF CallOK
<1>5. CallsInv'
  BY <1>0, <1>1, <1>4, CallStep
<1> QED BY <1>2, <1>3, <1>5 DEF RoundRobinInv

\* index == nil || index != opts.index
LEMMA CompareStep ==
  ASSUME RoundRobinInv, Shared, NEW c \in Conns, NEW k \in Calls, Compare(c, k)
  PROVE  RoundRobinInv'
<1> DEFINE me == call[c][k]
           st == IF index[c] # me.g THEN "load" ELSE "next"
           R == [me EXCEPT !.pc = st]
<1>0. /\ UNCHANGED <<gen, size, counter, loaded, turns>> /\ me.pc = "compare"
      /\ index' = [index EXCEPT ![c] = me.g]
      /\ call' = [call EXCEPT ![c][k] = R]
  BY DEF Compare, RoundRobinInv, TypeInv
<1>1. me \in CallType /\ R \in CallType /\ R.pc = st /\ R.g = me.g /\ R.i = me.i
  BY CallTyped, MovedOn DEF RoundRobinInv, PCs
<1> HIDE DEF R
<1>2. /\ call' \in [Conns -> [Calls -> CallType]] /\ call'[c][k] = R
      /\ \A j \in Calls \ {k} : call'[c][j] = call[c][j]
  BY <1>0, <1>1 DEF RoundRobinInv, TypeInv
<1>3. /\ index' \in [Conns -> 0 .. (MaxReloads + 1)] /\ index'[c] = me.g
      /\ \A d \in Conns \ {c} : index'[d] = index[d]
  BY <1>0, <1>1 DEF RoundRobinInv, TypeInv, CallType
<1>4. TypeInv'
  BY <1>0, <1>2, <1>3 DEF RoundRobinInv, TypeInv, SizesInv
<1>5. TurnInv'
  BY <1>0, TurnStep
<1>6. ClosureOK(call[c], index[c], loaded[c]) /\ CallOK(me, index[c])
  BY DEF RoundRobinInv, CallsInv, ClosureOK
<1>7. me.g \in 1 .. gen /\ size[me.g] > 0 /\ me.g # 0 /\ me.g <= gen /\ gen \in Nat
  BY <1>0, <1>6, Bounds DEF CallOK, RoundRobinInv, TypeInv, SizesInv, Generations
<1>8. ASSUME KeptSize, index[c] # 0 PROVE size[me.g] = size[index[c]]
  <2>1. index[c] \in 1 .. gen
    BY <1>6, <1>7, <1>8, Bounds DEF ClosureOK, RoundRobinInv, TypeInv
  <2> QED BY <1>7, <1>8, <2>1 DEF KeptSize
<1>9. CallOK(R, me.g)
  BY <1>0, <1>1, <1>7 DEF CallOK
<1>10. LoadedOK(call'[c], me.g, loaded[c])
  <2>1. SUFFICES ASSUME KeptSize \/ \A j \in Calls : call'[c][j].pc \notin {"load", "swap", "store"}
                 PROVE  loaded[c] < size[me.g]
    BY DEF LoadedOK
  <2>2. CASE KeptSize
    BY <1>6, <1>7, <1>8, <2>2 DEF ClosureOK, LoadedOK
  <2>3. CASE ~KeptSize
    <3>1. R.pc # "load" /\ index[c] = me.g /\ \A j \in Calls : j = k
      BY <1>1, <1>2, <2>1, <2>3 DEF Shared, OneCall
    <3>2. \A j \in Calls : call[c][j].pc = "compare"
      BY <1>0, <3>1
    <3> QED BY <1>6, <1>7, <3>1, <3>2 DEF ClosureOK, LoadedOK
  <2> QED BY <2>2, <2>3
<1>11. CallsInv'
  BY <1>0, <1>1, <1>3, <1>7, <1>8, <1>9, <1>10, ClosureStep DEF RoundRobinInv
<1> QED BY <1>4, <1>5, <1>11 DEF RoundRobinInv

\* index.Load()
LEMMA LoadStep ==
  ASSUME RoundRobinInv, Shared, NEW c \in Conns, NEW k \in Calls, Load(c, k)
  PROVE  RoundRobinInv'
<1> DEFINE me == call[c][k]
           R == [me EXCEPT !.pc = "swap", !.i = counter[index[c]]]
<1>0. /\ UNCHANGED <<gen, size, counter, index, loaded, turns>> /\ me.pc = "load"
      /\ call' = [call EXCEPT ![c][k] = R]
  BY DEF Load, RoundRobinInv, TypeInv, CallType
<1>1. /\ CallOK(me, index[c]) /\ index[c] <= gen /\ gen \in Generations
      /\ index[c] \in 0 .. (MaxReloads + 1)
  BY DEF RoundRobinInv, CallsInv, ClosureOK, TypeInv, SizesInv
<1>2. index[c] \in Generations /\ size[index[c]] = size[me.g] /\ size[me.g] > 0
  BY <1>0, <1>1, Bounds DEF CallOK, Generations
<1>3. counter[index[c]] \in Nat /\ counter[index[c]] < size[me.g]
  BY <1>2 DEF RoundRobinInv, TypeInv, TurnInv, TurnOK
<1>4. R \in CallType /\ R.pc = "swap" /\ R.g = me.g /\ R.i = counter[index[c]]
  <2> DEFINE v == counter[index[c]]
  <2>1. v \in Nat /\ me \in CallType
    BY <1>3, CallTyped DEF RoundRobinInv
  <2>2. R = [me EXCEPT !.pc = "swap", !.i = v]
    OBVIOUS
  <2> HIDE DEF v, me, R
  <2>3. R \in CallType /\ R.pc = "swap" /\ R.g = me.g /\ R.i = v
    BY <2>1, <2>2 DEF CallType, PCs
  <2> QED BY <2>3 DEF v
<1> HIDE DEF R
<1>5. TypeInv'
  BY <1>0, <1>4, CallEffect DEF RoundRobinInv, TypeInv, SizesInv
<1>6. TurnInv'
  BY <1>0, TurnStep
<1>7. CallOK(R, index[c])
  BY <1>0, <1>1, <1>3, <1>4 DEF CallOK
<1>8. CallsInv'
  BY <1>0, <1>4, <1>7, CallStep
<1> QED BY <1>5, <1>6, <1>8 DEF RoundRobinInv

\* indexLoaded + 1
LEMMA NextIndexStep ==
  ASSUME RoundRobinInv, Shared, NEW c \in Conns, NEW k \in Calls, NextIndex(c, k)
  PROVE  RoundRobinInv'
<1> DEFINE me == call[c][k]
           v == (loaded[c] + 1) % size[me.g]
           R == [me EXCEPT !.pc = "store", !.i = v]
<1>0. /\ UNCHANGED <<gen, size, counter, index, loaded, turns>> /\ me.pc = "next"
      /\ call' = [call EXCEPT ![c][k] = R]
  BY DEF NextIndex, RoundRobinInv, TypeInv, CallType
<1>1. /\ CallOK(me, index[c]) /\ LoadedOK(call[c], index[c], loaded[c])
      /\ gen \in Generations /\ loaded[c] \in Nat
  BY DEF RoundRobinInv, CallsInv, ClosureOK, TypeInv, SizesInv
<1>2. index[c] # 0 /\ size[index[c]] = size[me.g] /\ size[me.g] > 0 /\ me.g \in Generations
  BY <1>0, <1>1, Bounds DEF CallOK, Generations
<1>3. loaded[c] < size[me.g]
  BY <1>0, <1>1, <1>2 DEF LoadedOK, Shared, OneCall
<1>4. v \in Nat /\ v < size[me.g]
  BY <1>1, <1>2, <1>3, NextMod, Bounds DEF RoundRobinInv, TypeInv, SizesInv
<1>5. R \in CallType /\ R.pc = "store" /\ R.g = me.g /\ R.i = v
  <2>1. me \in CallType
    BY CallTyped DEF RoundRobinInv
  <2> HIDE DEF v, me
  <2> QED BY <1>4, <2>1 DEF CallType, PCs
<1> HIDE DEF R, v
<1>6. TypeInv'
  BY <1>0, <1>5, CallEffect DEF RoundRobinInv, TypeInv, SizesInv
<1>7. TurnInv'
  BY <1>0, TurnStep
<1>8. CallOK(R, index[c])
  BY <1>0, <1>1, <1>4, <1>5 DEF CallOK
<1>9. CallsInv'
  BY <1>0, <1>5, <1>8, CallStep
<1> QED BY <1>6, <1>7, <1>9 DEF RoundRobinInv

\* indexLoaded = ...
LEMMA StoreIndexStep ==
  ASSUME RoundRobinInv, Shared, NEW c \in Conns, NEW k \in Calls, StoreIndex(c, k)
  PROVE  RoundRobinInv'
<1> DEFINE me == call[c][k]
           R == [me EXCEPT !.pc = "dial"]
<1>0. /\ UNCHANGED <<gen, size, counter, index, turns>> /\ me.pc = "store"
      /\ call' = [call EXCEPT ![c][k] = R]
      /\ loaded' = [loaded EXCEPT ![c] = me.i]
  BY DEF StoreIndex, RoundRobinInv, TypeInv, CallType
<1>1. me \in CallType /\ R \in CallType /\ R.pc = "dial" /\ R.g = me.g /\ R.i = me.i /\ me.i \in Nat
  BY CallTyped, CallFields, MovedOn DEF RoundRobinInv, PCs
<1> HIDE DEF R
<1>2. /\ loaded' \in [Conns -> Nat] /\ loaded'[c] = me.i
      /\ \A d \in Conns \ {c} : loaded'[d] = loaded[d]
  BY <1>0, <1>1 DEF RoundRobinInv, TypeInv
<1>3. TypeInv'
  BY <1>0, <1>1, <1>2, CallEffect DEF RoundRobinInv, TypeInv, SizesInv
<1>4. TurnInv'
  BY <1>0, TurnStep
<1>5. CallOK(me, index[c]) /\ index[c] <= gen
  BY DEF RoundRobinInv, CallsInv, ClosureOK
<1>6. index[c] # 0 /\ size[index[c]] = size[me.g] /\ size[me.g] > 0 /\ me.i < size[me.g]
  BY <1>0, <1>5 DEF CallOK
<1>7. CallOK(R, index[c])
  BY <1>0, <1>1, <1>5 DEF CallOK
<1>8. LoadedOK(call'[c], index[c], me.i)
  BY <1>6 DEF LoadedOK
<1>9. CallsInv'
  BY <1>0, <1>1, <1>2, <1>5, <1>6, <1>7, <1>8, ClosureStep DEF RoundRobinInv
<1> QED BY <1>3, <1>4, <1>9 DEF RoundRobinInv

\* Candidate v has its turn and the counter goes on: when it is back where it
\* began, all have had the same number of turns.
LEMMA TurnTaken ==
  ASSUME NEW n \in Nat, NEW v \in 0 .. (n - 1), NEW t, NEW T, Even(t, n, v),
         \A i \in 0 .. (n - 1) : T[i] = IF i = v THEN t[i] + 1 ELSE t[i]
  PROVE  Even(T, n, After(v, 1, n))
<1>0. PICK s \in 0 .. (n - 1), q \in Nat : \A i \in 0 .. (n - 1) : t[i] = q + Ahead(s, v, i)
  BY DEF Even
<1>1. CASE After(v, 1, n) = s
  <2>1. \A i \in 0 .. (n - 1) : T[i] = (q + 1) + Ahead(s, After(v, 1, n), i)
    BY <1>0, <1>1 DEF Ahead, After
  <2> QED BY <2>1 DEF Even
<1>2. CASE After(v, 1, n) # s
  <2>1. \A i \in 0 .. (n - 1) : T[i] = q + Ahead(s, After(v, 1, n), i)
    BY <1>0, <1>2 DEF Ahead, After
  <2> QED BY <2>1 DEF Even
<1> QED BY <1>1, <1>2

LEMMA TurnFrame ==
  ASSUME NEW h \in Generations, TurnOK(h), UNCHANGED <<gen, size>>,
         counter'[h] = counter[h], turns'[h] = turns[h]
  PROVE  TurnOK(h)'
<1>1. size'[h] = size[h] /\ gen' = gen
  OBVIOUS
<1> QED BY <1>1 DEF TurnOK, Even

LEMMA TurnStepAt ==
  ASSUME RoundRobinInv, UNCHANGED <<gen, size>>, NEW g \in Generations, g <= gen,
         NEW v \in Nat, v < size[g], counter[g] = v,
         counter' = [counter EXCEPT ![g] = (v + 1) % size[g]],
         turns' = [turns EXCEPT ![g][v] = @ + 1]
  PROVE  /\ counter' \in [Generations -> Nat] /\ turns' \in [Generations -> [Indices -> Nat]]
         /\ TurnInv'
<1>0. PICK n \in Nat : n = size[g] /\ n <= MaxCandidates /\ v < n
  BY Bounds DEF RoundRobinInv, TypeInv, SizesInv
<1>1. PICK w \in Nat : w = After(v, 1, n) /\ w < n /\ w = (v + 1) % n
  BY <1>0, NextMod
<1>2. v \in 0 .. (n - 1) /\ 0 .. (n - 1) \subseteq Indices /\ gen \in Nat /\ g \in Nat
  <2>1. v \in 0 .. (n - 1) /\ 0 .. (n - 1) \subseteq Indices
    BY <1>0, Bounds DEF Indices
  <2>2. gen \in Nat /\ g \in Nat
    BY Bounds DEF RoundRobinInv, TypeInv, SizesInv, Generations
  <2> QED BY <2>1, <2>2
<1>3. /\ counter' \in [Generations -> Nat] /\ counter'[g] = w
      /\ \A h \in Generations \ {g} : counter'[h] = counter[h]
  BY <1>0, <1>1 DEF RoundRobinInv, TypeInv, SizesInv
<1>4. /\ turns' \in [Generations -> [Indices -> Nat]]
      /\ \A h \in Generations \ {g} : turns'[h] = turns[h]
      /\ \A i \in Indices : turns'[g][i] = IF i = v THEN turns[g][i] + 1 ELSE turns[g][i]
  <2>1. turns \in [Generations -> [Indices -> Nat]] /\ v \in Indices
    BY <1>2 DEF RoundRobinInv, TypeInv, SizesInv
  <2>2. turns[g][v] \in Nat
    BY <2>1
  <2>3. PICK x \in Nat : x = turns[g][v] + 1
    BY <2>2
  <2>4. turns' = [turns EXCEPT ![g][v] = x]
    BY <2>3
  <2> QED BY <2>1, <2>3, <2>4
<1>5. TurnOK(g)'
  <2>1. Even(turns[g], n, v)
    BY <1>0, <1>2 DEF RoundRobinInv, TurnInv, TurnOK
  <2>2. \A i \in 0 .. (n - 1) : turns'[g][i] = IF i = v THEN turns[g][i] + 1 ELSE turns[g][i]
    BY <1>2, <1>4
  <2>3. Even(turns'[g], n, w)
    BY <1>1, <1>2, <2>1, <2>2, TurnTaken
  <2>4. Even(turns[g], size[g], counter[g])'
    BY <1>0, <1>3, <2>3 DEF Even
  <2> QED BY <1>0, <1>1, <1>2, <1>3, <2>4 DEF TurnOK
<1>6. ASSUME NEW h \in Generations, h # g PROVE TurnOK(h)'
  <2>1. TurnOK(h) /\ counter'[h] = counter[h] /\ turns'[h] = turns[h]
    BY <1>3, <1>4, <1>6 DEF RoundRobinInv, TurnInv
  <2> QED BY <2>1, TurnFrame
<1>7. TurnInv'
  BY <1>5, <1>6 DEF TurnInv
<1> QED BY <1>3, <1>4, <1>7

\* index.CompareAndSwap(i, (i+1)%n)
LEMMA SwapStep ==
  ASSUME RoundRobinInv, Shared, NEW c \in Conns, NEW k \in Calls, CompareAndSwap(c, k)
  PROVE  RoundRobinInv'
<1> DEFINE me == call[c][k]
           st == IF counter[index[c]] = me.i THEN "store" ELSE "load"
           R == [me EXCEPT !.pc = st]
<1>0. /\ UNCHANGED <<gen, size, index, loaded>> /\ me.pc = "swap"
      /\ call' = [call EXCEPT ![c][k] = R]
  BY DEF CompareAndSwap, RoundRobinInv, TypeInv
<1>1. /\ me \in CallType /\ R \in CallType /\ R.pc = st /\ R.g = me.g /\ R.i = me.i
      /\ me.i \in Nat
  BY CallTyped, CallFields, MovedOn DEF RoundRobinInv, PCs
<1> HIDE DEF R
<1>2. /\ CallOK(me, index[c]) /\ index[c] <= gen /\ gen \in Generations
      /\ index[c] \in 0 .. (MaxReloads + 1)
  BY DEF RoundRobinInv, CallsInv, ClosureOK, TypeInv, SizesInv
<1>3. index[c] \in Generations /\ size[index[c]] = size[me.g] /\ me.i < size[index[c]]
  BY <1>0, <1>2, Bounds DEF CallOK, Generations
<1>4. CallsInv'
  <2>1. CallOK(R, index[c])
    BY <1>0, <1>1, <1>2 DEF CallOK
  <2> QED BY <1>0, <1>1, <2>1, CallStep
<1>5. CASE counter[index[c]] # me.i
  <2>1. UNCHANGED <<counter, turns>>
    BY <1>5 DEF CompareAndSwap
  <2>2. TypeInv'
    BY <1>0, <1>1, <2>1, CallEffect DEF RoundRobinInv, TypeInv, SizesInv
  <2>3. TurnInv'
    BY <1>0, <2>1, TurnStep
  <2> QED BY <1>4, <2>2, <2>3 DEF RoundRobinInv
<1>6. CASE counter[index[c]] = me.i
  <2>1. /\ counter' = [counter EXCEPT ![index[c]] = (me.i + 1) % size[index[c]]]
        /\ turns' = [turns EXCEPT ![index[c]][me.i] = @ + 1]
    BY <1>3, <1>6 DEF CompareAndSwap
  <2>2. /\ counter' \in [Generations -> Nat] /\ turns' \in [Generations -> [Indices -> Nat]]
        /\ TurnInv'
    BY <1>0, <1>1, <1>2, <1>3, <1>6, <2>1, TurnStepAt
  <2>3. TypeInv'
    BY <1>0, <1>1, <2>2, CallEffect DEF RoundRobinInv, TypeInv, SizesInv
  <2> QED BY <1>4, <2>2, <2>3 DEF RoundRobinInv
<1> QED BY <1>5, <1>6

\* opts.Candidates[indexLoaded].Dialer()
LEMMA DialStep ==
  ASSUME RoundRobinInv, Shared, NEW c \in Conns, NEW k \in Calls, Dial(c, k)
  PROVE  RoundRobinInv'
<1>0. /\ UNCHANGED <<gen, size, counter, index, loaded, turns>> /\ call[c][k].pc = "dial"
      /\ call' = [call EXCEPT ![c][k] = NoCall]
  BY DEF Dial
<1>1. NoCall \in CallType /\ NoCall.pc = "idle"
  BY Bounds DEF NoCall, CallType, PCs
<1>2. TypeInv'
  BY <1>0, <1>1, CallEffect DEF RoundRobinInv, TypeInv, SizesInv
<1>3. TurnInv'
  BY <1>0, TurnStep
<1>4. CallOK(NoCall, index[c])
  BY <1>1 DEF CallOK
<1>5. CallsInv'
  BY <1>0, <1>1, <1>4, CallStep
<1> QED BY <1>2, <1>3, <1>5 DEF RoundRobinInv

\* A reload with other candidates leaves the generations in use alone.
LEMMA ReloadStep ==
  ASSUME RoundRobinInv, Shared', NEW n \in 0 .. MaxCandidates, NEW i \in Indices, ReloadCandidates(n, i)
  PROVE  RoundRobinInv'
<1>0. PICK h : h = gen + 1
  OBVIOUS
<1>1. /\ UNCHANGED <<index, loaded, call, turns>> /\ gen' = h
      /\ h \in Generations /\ gen \in Nat /\ h = gen + 1 /\ n \in Nat /\ i \in Nat
      /\ i < n \/ i = 0
  BY <1>0, Bounds DEF ReloadCandidates, RoundRobinInv, TypeInv, SizesInv, Generations, Indices
<1>2. size' = [size EXCEPT ![h] = n] /\ counter' = [counter EXCEPT ![h] = i]
  BY <1>0 DEF ReloadCandidates
<1>3. /\ size' \in [Generations -> 0 .. MaxCandidates] /\ size'[h] = n
      /\ \A g \in Generations \ {h} : size'[g] = size[g]
  BY <1>1, <1>2 DEF RoundRobinInv, TypeInv, SizesInv
<1>4. /\ counter' \in [Generations -> Nat] /\ counter'[h] = i
      /\ \A g \in Generations \ {h} : counter'[g] = counter[g]
  BY <1>1, <1>2 DEF RoundRobinInv, TypeInv, SizesInv
<1>5. TypeInv'
  BY <1>1, <1>3, <1>4 DEF RoundRobinInv, TypeInv, SizesInv
<1>6. TurnInv'
  <2>1. TurnOK(h)'
    <3>1. \A j \in Indices : turns[h][j] = 0
      <4>1. TurnOK(h) /\ h > gen
        BY <1>1 DEF RoundRobinInv, TurnInv
      <4> QED BY <4>1 DEF TurnOK
    <3>2. ASSUME n > 0 PROVE Even(turns[h], n, i)
      <4>1. i \in 0 .. (n - 1) /\ 0 .. (n - 1) \subseteq Indices
        BY <1>1, <3>2, Bounds DEF Indices
      <4>2. \A j \in 0 .. (n - 1) : turns[h][j] = 0 + Ahead(i, i, j)
        BY <1>1, <3>1, <4>1 DEF Ahead
      <4> QED BY <4>1, <4>2 DEF Even
    <3>3. n > 0 => Even(turns[h], size[h], counter[h])'
      BY <1>1, <1>3, <1>4, <3>2 DEF Even
    <3> QED BY <1>1, <1>3, <1>4, <3>3 DEF TurnOK
  <2>2. ASSUME NEW g \in Generations, g # h PROVE TurnOK(g)'
    <3>1. TurnOK(g) /\ size'[g] = size[g] /\ counter'[g] = counter[g] /\ turns' = turns /\ g \in Nat
      BY <1>1, <1>3, <1>4, <2>2, Bounds DEF RoundRobinInv, TurnInv, Generations
    <3>2. g > gen' => g > gen
      BY <1>1, <3>1
    <3> QED BY <3>1, <3>2 DEF TurnOK, Even
  <2> QED BY <2>1, <2>2 DEF TurnInv
<1>7. \A g \in 1 .. gen : size'[g] = size[g]
  BY <1>1, <1>3, Bounds DEF RoundRobinInv, TypeInv, SizesInv, Generations
<1>8. KeptSize' => KeptSize
  BY <1>1, <1>7 DEF KeptSize
<1>9. ASSUME NEW c \in Conns PROVE ClosureOK(call[c], index[c], loaded[c])'
  <2>1. ClosureOK(call[c], index[c], loaded[c]) /\ index[c] \in Nat
    BY Bounds DEF RoundRobinInv, CallsInv, TypeInv
  <2>2. index[c] # 0 => size'[index[c]] = size[index[c]]
    BY <1>1, <1>7, <2>1 DEF ClosureOK
  <2>3. index[c] <= gen'
    BY <1>1, <2>1 DEF ClosureOK
  <2>4. ASSUME NEW k \in Calls PROVE CallOK(call[c][k], index[c])'
    <3>1. CallOK(call[c][k], index[c])
      BY <2>1 DEF ClosureOK
    <3>2. call[c][k].pc # "idle" => call[c][k].g \in 1 .. gen /\ call[c][k].g \in 1 .. gen'
      BY <1>1, <3>1 DEF CallOK
    <3> QED BY <1>1, <1>7, <2>2, <3>1, <3>2 DEF CallOK
  <2>5. LoadedOK(call[c], index[c], loaded[c])'
    BY <1>1, <1>8, <2>1, <2>2 DEF ClosureOK, LoadedOK
  <2> QED BY <1>1, <2>1, <2>2, <2>3, <2>4, <2>5 DEF ClosureOK
<1> QED BY <1>5, <1>6, <1>9 DEF RoundRobinInv, CallsInv

LEMMA InitRoundRobinInv == RoundRobinInit => RoundRobinInv
<1> SUFFICES ASSUME RoundRobinInit PROVE RoundRobinInv
  OBVIOUS
<1>1. PICK n \in 0 .. MaxCandidates : size = [g \in Generations |-> IF g = 1 THEN n ELSE 0]
  BY DEF RoundRobinInit
<1>2. PICK i \in Indices : /\ i < size[1] \/ i = 0
                           /\ counter = [g \in Generations |-> IF g = 1 THEN i ELSE 0]
  BY DEF RoundRobinInit
<1>3. n \in Nat /\ i \in Nat /\ 1 \in Generations /\ gen = 1 /\ size[1] = n
  BY <1>1, Bounds DEF RoundRobinInit, Indices, Generations
<1>4. NoCall \in CallType /\ NoCall.pc = "idle"
  BY Bounds DEF NoCall, CallType, PCs
<1>5. TypeInv
  <2>1. size \in [Generations -> 0 .. MaxCandidates]
    BY <1>1, Bounds
  <2>2. counter \in [Generations -> Nat]
    BY <1>2, <1>3
  <2>3. index \in [Conns -> 0 .. (MaxReloads + 1)]
    BY Bounds DEF RoundRobinInit
  <2>4. call \in [Conns -> [Calls -> CallType]] /\ turns \in [Generations -> [Indices -> Nat]]
    BY <1>4 DEF RoundRobinInit
  <2> QED BY <1>3, <2>1, <2>2, <2>3, <2>4 DEF RoundRobinInit, TypeInv, SizesInv
<1>6. ASSUME NEW g \in Generations PROVE TurnOK(g)
  <2>1. \A j \in Indices : turns[g][j] = 0
    BY DEF RoundRobinInit
  <2>2. ASSUME size[g] > 0 PROVE counter[g] < size[g] /\ Even(turns[g], size[g], counter[g])
    <3>1. size[g] = n /\ counter[g] = i /\ i < n
      BY <1>1, <1>2, <1>3, <2>2
    <3>2. i \in 0 .. (n - 1) /\ 0 .. (n - 1) \subseteq Indices
      BY <1>3, <3>1, Bounds DEF Indices
    <3>3. \A j \in 0 .. (n - 1) : turns[g][j] = 0 + Ahead(i, i, j)
      BY <1>3, <2>1, <3>2 DEF Ahead
    <3>4. Even(turns[g], n, i)
      BY <3>2, <3>3 DEF Even
    <3> QED BY <3>1, <3>4
  <2> QED BY <2>1, <2>2 DEF TurnOK
<1>7. ASSUME NEW c \in Conns PROVE ClosureOK(call[c], index[c], loaded[c])
  <2>1. index[c] = 0 /\ loaded[c] = 0 /\ \A k \in Calls : call[c][k] = NoCall
    BY DEF RoundRobinInit
  <2> QED BY <1>3, <1>4, <2>1 DEF ClosureOK, CallOK, LoadedOK
<1> QED BY <1>5, <1>6, <1>7 DEF RoundRobinInv, TurnInv, CallsInv

\* Sizes never change once they are set, so what is shared after a step was
\* shared before it.
LEMMA NextSharedInv == SharedInv /\ [RoundRobinNext]_roundRobinVars => SharedInv'
<1> SUFFICES ASSUME SharedInv, [RoundRobinNext]_roundRobinVars PROVE SharedInv'
  OBVIOUS
<1>0. SizesInv
  BY DEF SharedInv
<1>1. ASSUME NEW n \in 0 .. MaxCandidates, NEW i \in Indices, ReloadCandidates(n, i) PROVE SharedInv'
  <2>1. gen' = gen + 1 /\ gen' \in Generations /\ size' = [size EXCEPT ![gen + 1] = n] /\ gen \in Nat
    BY <1>0, <1>1, Bounds DEF ReloadCandidates, SizesInv, Generations
  <2>2. SizesInv'
    BY <1>0, <2>1 DEF SizesInv
  <2>3. \A g \in 1 .. gen : size'[g] = size[g] /\ g \in 1 .. gen'
    BY <1>0, <2>1, Bounds DEF SizesInv, Generations
  <2>4. 1 \in 1 .. gen
    BY <1>0, Bounds DEF SizesInv, Generations
  <2>5. KeptSize' => KeptSize
    BY <2>3, <2>4 DEF KeptSize
  <2>6. Shared' => Shared
    BY <2>5 DEF Shared, OneCall
  <2> QED BY <1>1, <2>2, <2>6, ReloadStep DEF SharedInv
<1>2. ASSUME NEW c \in Conns, NEW k \in Calls,
             \/ Begin(c, k) \/ Compare(c, k) \/ Load(c, k) \/ CompareAndSwap(c, k)
             \/ NextIndex(c, k) \/ StoreIndex(c, k) \/ Dial(c, k)
      PROVE  SharedInv'
  <2>1. UNCHANGED <<gen, size>>
    BY <1>2 DEF Begin, Compare, Load, CompareAndSwap, NextIndex, StoreIndex, Dial
  <2>2. SizesInv' /\ (Shared' => Shared)
    BY <1>0, <2>1 DEF SizesInv, Shared, OneCall, KeptSize
  <2>3. ASSUME Shared PROVE RoundRobinInv'
    BY <1>2, <2>3, BeginStep, CompareStep, LoadStep, SwapStep, NextIndexStep, StoreIndexStep, DialStep
    DEF SharedInv
  <2> QED BY <2>2, <2>3 DEF SharedInv
<1>3. ASSUME UNCHANGED roundRobinVars PROVE SharedInv'
  <2>1. UNCHANGED <<gen, size, counter, index, loaded, call, turns>>
    BY <1>3 DEF roundRobinVars
  <2>2. SizesInv' /\ (Shared' <=> Shared) /\ (KeptSize' <=> KeptSize)
    BY <1>0, <2>1 DEF SizesInv, Shared, OneCall, KeptSize
  <2>3. ASSUME Shared PROVE RoundRobinInv'
    <3>1. RoundRobinInv
      BY <2>3 DEF SharedInv
    <3>2. TypeInv'
      BY <2>1, <2>2, <3>1 DEF RoundRobinInv, TypeInv
    <3>3. TurnInv'
      BY <2>1, <3>1, TurnStep
    <3>4. CallsInv'
      BY <2>1, <2>2, <3>1 DEF RoundRobinInv, CallsInv, ClosureOK, CallOK, LoadedOK
    <3> QED BY <3>2, <3>3, <3>4 DEF RoundRobinInv
  <2> QED BY <2>2, <2>3 DEF SharedInv
<1> QED BY <1>1, <1>2, <1>3 DEF RoundRobinNext

\* Attempts made one at a time may share index and indexLoaded whatever is
\* reloaded, and attempts that overlap (ConnOptions.Parallel) as long as no
\* reload changes the number of candidates: getRemote of roundrobin.go then
\* addresses one of the candidates it has read, and the compare-and-swap hands
\* out the turns evenly.
THEOREM AlwaysSafeUnlessResized == RoundRobinSpec => []SafeUnlessResized
<1>1. RoundRobinInit => SharedInv
  BY InitRoundRobinInv DEF SharedInv, RoundRobinInv, TypeInv
<1>2. SharedInv => SafeUnlessResized
  <2> SUFFICES ASSUME RoundRobinInv, Shared PROVE InRange /\ TurnsFair
    BY DEF SharedInv, SafeUnlessResized, Shared
  <2>1. InRange
    <3> SUFFICES ASSUME NEW c \in Conns, NEW k \in Calls, call[c][k].pc = "dial"
                 PROVE  loaded[c] < size[call[c][k].g]
      BY DEF InRange
    <3>1. CallOK(call[c][k], index[c]) /\ LoadedOK(call[c], index[c], loaded[c])
      BY DEF RoundRobinInv, CallsInv, ClosureOK
    <3>2. index[c] # 0 /\ size[index[c]] = size[call[c][k].g]
      BY <3>1 DEF CallOK
    <3> QED BY <3>1, <3>2 DEF LoadedOK, Shared, OneCall
  <2>2. TurnsFair
    <3> SUFFICES ASSUME NEW g \in Generations,
                        NEW i \in 0 .. (size[g] - 1), NEW j \in 0 .. (size[g] - 1)
                 PROVE  turns[g][i] <= turns[g][j] + 1
      BY DEF TurnsFair
    <3>1. size[g] > 0
      BY Bounds DEF RoundRobinInv, TypeInv, SizesInv
    <3>2. Even(turns[g], size[g], counter[g])
      BY <3>1 DEF RoundRobinInv, TurnInv, TurnOK
    <3>3. PICK q \in Nat : turns[g][i] \in {q, q + 1} /\ turns[g][j] \in {q, q + 1}
      BY <3>2 DEF Even, Ahead
    <3> QED BY <3>3
  <2> QED BY <2>1, <2>2
<1> QED BY <1>1, <1>2, NextSharedInv, PTL DEF RoundRobinSpec
=============================================================================
