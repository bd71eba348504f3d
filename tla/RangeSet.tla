------------------------------ MODULE RangeSet ------------------------------
(***************************************************************************)
(* Sets of addresses (internal/netiputil) as operators. An AddrRangeSet is *)
(* a sequence of ranges <<low, high>>, high excluded, sorted and apart.    *)
(*                                                                         *)
(* Addresses are numbers: 0 .. 2^Width - 1 stand for the ones of IPv4, the *)
(* next 2^Width for the ones of IPv6, which is how netip compares them.    *)
(***************************************************************************)
EXTENDS Integers, Sequences, FiniteSetsExt

CONSTANT Width  \* of an address, in bits

Family == 2 ^ Width
Addrs == 0 .. 2 * Family - 1

-----------------------------------------------------------------------------
\* sort.Search over s: the least index for which Holds, or one more than the last.
Search(s, Holds(_)) == Min({n \in DOMAIN s : Holds(s[n])} \cup {Len(s) + 1})
LowBehind(s, v) == Search(s, LAMBDA r : r[1] > v)
HighBehind(s, v) == Search(s, LAMBDA r : r[2] > v)

\* ParsePrefix: the addresses that agree with addr on their first bits. The
\* last address of a family has no Next: then the range lacks it and is closed.
ParsePrefix(addr, bits) ==
    LET size == 2 ^ (Width - bits)
        low == addr - (addr % size)
        last == low + size - 1
        closed == last % Family = Family - 1
    IN [low |-> low, high |-> IF closed THEN last ELSE last + 1, closed |-> closed]

\* The ranges from i on and before j are replaced by one, with the one before
\* or behind them if lo or hi is in it or touches it.
Replace(s, lo, hi, i, j) ==
    LET left == i > 1 /\ s[i - 1][2] >= lo
        right == j <= Len(s) /\ s[j][1] <= hi
        from == IF left THEN i - 1 ELSE i
        to == IF right THEN j + 1 ELSE j
        new == <<IF left THEN s[i - 1][1] ELSE lo, IF right THEN s[j][2] ELSE hi>>
    IN IF i > j \/ (from = to /\ new[1] >= new[2]) THEN s
       ELSE SubSeq(s, 1, from - 1) \o <<new>> \o SubSeq(s, to, Len(s))

AddFrom(s, lo, hi, i) ==
    LET off == IF i > 1 THEN i - 2 ELSE 0
    IN Replace(s, lo, hi, i, off + HighBehind(SubSeq(s, off + 1, Len(s)), hi))

AddRange(s, lo, hi) == AddFrom(s, lo, hi, LowBehind(s, lo))

RangeHas(s, v, i) == i <= Len(s) /\ s[i][1] <= v
HasAddr(s, v) == RangeHas(s, v, HighBehind(s, v))
=============================================================================
