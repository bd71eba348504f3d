------------------------------ MODULE RoutesMC ------------------------------
(* Instances of Routes for TLC: plans of one load with many kinds of lines, *)
(* and plans of several loads with files.                                   *)
EXTENDS AllowList

Line(patt, port, exclude) == [kind |-> "pattern", patt |-> patt, port |-> port, exclude |-> exclude]
Prefix(addr, bits, exclude) == [kind |-> "prefix", addr |-> addr, bits |-> bits, exclude |-> exclude]
File(f) == [kind |-> "file", file |-> f]
Every == Line(<<"*", "*">>, None, FALSE)

Route(name, what, proxy) == [name |-> name, what |-> what, proxy |-> proxy]
Conf(routes, redirects) ==
    [routes |-> routes, proxy |-> "direct", redirects |-> redirects, rwhosts |-> NoMap]
Once(what) == <<Conf(<<Route(None, what, "p")>>, NoMap)>>

Strings(S, n) == UNION {[1 .. m -> S] : m \in 0 .. n}
Patterns ==
    Strings({"a", ".", ":", "*", "?", "_"}, 3) \cup [1 .. 4 -> {"a", ".", "*", "?"}]
Groups ==
    {<<"[">> \o s \o <<"]">> \o t : s \in [1 .. 3 -> {"a", "-", "^", "."}], t \in {<<>>, <<"*">>}}
    \cup {<<"[", "a">>, <<"[", "]", "a", "]">>, <<"[", "^", "]">>, <<"[", "c", "-", "a", "]">>}

\* Two kinds of patterns for which the code departs from its comments. In the
\* first, one kind of asterisk is separated from the other by nothing but what
\* it moves behind, as in "*_**". The second begin with a '.' and an asterisk,
\* perhaps with question marks between them, as ".*a".
Tangled(patt) ==
    LET atoms == Reversed(patt)
    IN \E i \in 2 .. Len(atoms) : {atoms[i - 1], atoms[i]} = {magicAsterisk, magicAsterisk2}
Loose(patt) ==
    LET atoms == AtomsOf(patt)
    IN /\ patt # <<>> /\ patt[1] = "."
       /\ \E n \in 2 .. Len(atoms) : /\ atoms[n] = magicAsterisk
                                     /\ \A i \in 2 .. (n - 1) : atoms[i] = magicQuestion
TangledPatterns == {patt \in Patterns \cup Groups : Tangled(patt)}
LoosePatterns == {patt \in Patterns \cup Groups : Loose(patt) /\ ~Tangled(patt)}

\* One line that includes; three prefixes; patterns that share a text, with
\* ports and excludes.
OneLine(patterns) == {<<Line(patt, None, FALSE)>> : patt \in patterns}
Blocks ==
    {Prefix(x[1], x[2], FALSE) : x \in {<<0, 0>>, <<2, 1>>, <<0, 2>>, <<1, 2>>, <<3, 2>>, <<4, 1>>,
                                        <<7, 2>>}}
SameHost ==
    {Line(<<"a">>, port, FALSE) : port \in {None, 80, 443}}
    \cup {Line(<<"a">>, None, TRUE), Line(<<"a">>, 80, TRUE), Every, Prefix(6, 1, TRUE)}

\* Two routes on two files, one of which may name the other; reloads with the
\* same routes, with other ones, with none, and with other redirects.
A == Line(<<"a">>, None, FALSE)
B == Line(<<"b">>, None, FALSE)
MCContents == [f1 |-> {<<A>>, <<B>>, <<File("f2")>>}, f2 |-> {<<B>>, None}]
MCWritten == [f1 |-> <<A>>, f2 |-> <<B>>]
Two(p) == <<Route("r", <<File("f1")>>, "p"), Route("s", <<Every>>, p)>>
To(h) == [x \in {h} |-> "u"]
Reloads ==
    { <<Conf(Two("q"), To("h")), Conf(Two("q"), To("h")), Conf(Two("x"), To("i"))>>,
      <<Conf(<<Route(None, <<File("f1"), B>>, "p")>>, NoMap), Conf(<<>>, To("h")),
        Conf(Two("q"), [x \in {"i"} |-> ""])>> }

MCPlans ==
    {Once(what) : what \in OneLine((Patterns \cup Groups) \ (LoosePatterns \cup TangledPatterns))
                          \cup [1 .. 3 -> Blocks] \cup [1 .. 3 -> SameHost]} \cup Reloads
LoosePlans == {Once(what) : what \in OneLine(LoosePatterns)}

Host(host, port) == [host |-> host, port |-> port, addr |-> None]
MCProbes ==
    {Host(s, 80) : s \in {t \in Strings({"a", ".", ":"}, 3) \cup [1 .. 4 -> {"a", "."}] :
                             Len(t) > 0 /\ t[1] # "."}}
    \cup {[host |-> Text(addr), port |-> 443, addr |-> addr] : addr \in Addrs}
MCAsked == {Host(<<"a">>, 80), Host(<<"b">>, 443)}
=============================================================================
