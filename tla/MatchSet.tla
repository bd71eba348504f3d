------------------------------ MODULE MatchSet ------------------------------
(***************************************************************************)
(* Patterns of hosts (internal/matchset) as operators: how a pattern is    *)
(* parsed, turned around and run along a host, next to what the comments   *)
(* in the source say that it means.                                        *)
(*                                                                         *)
(* Bytes are the strings of length 1 in Bytes. An atom is a pair: "lit"    *)
(* and its byte in a set, "set" and the bytes of a group, or the name of a *)
(* magic atom; utf8 is what the source keeps atoms in, and is left out.    *)
(***************************************************************************)
EXTENDS Integers, Sequences, FiniteSetsExt, SequencesExt

\* The bytes that occur, in the order of their values.
Bytes == <<"*", "-", ".", "0", "1", "2", "3", "4", "5", "6", "7",
           ":", "?", "[", "]", "^", "_", "a", "b", "c">>
Value(by) == CHOOSE n \in DOMAIN Bytes : Bytes[n] = by
AllBytes == ToSet(Bytes)
ByteRange(lo, hi) == {by \in AllBytes : Value(lo) <= Value(by) /\ Value(by) <= Value(hi)}

Magic(name) == <<name, {}>>
magicDot        == Magic("magicDot")
magicAsterisk   == Magic("magicAsterisk")
magicAsterisk2  == Magic("magicAsterisk2")
magicQuestion   == Magic("magicQuestion")
magicUnderscore == Magic("magicUnderscore")
Literal(by) == <<"lit", {by}>>

\* s from its n-th element on.
From(s, n) == SubSeq(s, n, Len(s))

-----------------------------------------------------------------------------
(***************************************************************************)
(* Parsing.                                                                *)
(***************************************************************************)

\* One byte of a group that does not end it. char holds the last byte read, if
\* any; maybe: the group began with a '^', which inverts it unless that turns
\* out to begin a range.
GroupByte(g, i, by) ==
    LET skips == g.maybe /\ ~g.range
    IN IF by = "-" /\ g.char # {} /\ ~g.range THEN [g EXCEPT !.range = TRUE]
       ELSE IF g.range
       THEN [g EXCEPT !.set = @ \cup UNION {ByteRange(lo, by) : lo \in g.char},
                      !.char = {}, !.range = FALSE, !.maybe = FALSE]
       ELSE [g EXCEPT !.set = IF skips THEN @ ELSE @ \cup g.char, !.char = {by},
                      !.inverted = @ \/ skips, !.maybe = i = 1 /\ by = "^"]

\* Where a group ends: at its first ']' that is not its first byte.
GroupEnd(bytes) ==
    Min({i \in 2 .. Len(bytes) : bytes[i] = "]"} \cup {Len(bytes) + 1})

\* The set of a group, and the bytes left behind its ']'.
charSetFromGroup(bytes) ==
    LET end == GroupEnd(bytes)
        g == FoldLeftDomain(LAMBDA acc, i : GroupByte(acc, i, bytes[i]),
                            [char |-> {}, range |-> FALSE, set |-> {}, inverted |-> FALSE,
                             maybe |-> FALSE],
                            SubSeq(bytes, 1, end - 1))
        set == g.set \cup (IF g.maybe THEN {} ELSE g.char) \cup (IF g.range THEN {"-"} ELSE {})
    IN [set |-> IF g.inverted \/ g.maybe THEN AllBytes \ set ELSE set,
        left |-> From(bytes, end + 1)]

readAtom(bytes) ==
    LET first == bytes[1]
        group == charSetFromGroup(Tail(bytes))
        Atom(a, n) == [atom |-> a, left |-> From(bytes, n + 1)]
    IN CASE first = "[" -> [atom |-> IF group.set = AllBytes THEN magicUnderscore
                                      ELSE <<"set", group.set>>,
                            left |-> group.left]
         [] first = "*" -> IF Len(bytes) > 1 /\ bytes[2] = "*" THEN Atom(magicAsterisk2, 2)
                           ELSE Atom(magicAsterisk, 1)
         [] first = "?" -> Atom(magicQuestion, 1)
         [] first = "_" -> Atom(magicUnderscore, 1)
         [] OTHER -> Atom(Literal(first), 1)

RECURSIVE ReadAll(_)
ReadAll(bytes) ==
    IF bytes = <<>> THEN <<>>
    ELSE LET r == readAtom(bytes) IN <<r.atom>> \o ReadAll(r.left)

\* The loop of parse: asterisks in a row are one, and move behind the
\* questions or underscores that follow them.
ParseAtom(p, atom) ==
    LET Push(a) == [atoms |-> Append(p.atoms, a), last |-> a]
        Replace(a) == Append(Front(p.atoms), a)
    IN CASE atom = magicAsterisk ->
              IF p.last \in {magicAsterisk, magicAsterisk2} THEN p ELSE Push(atom)
         [] atom = magicAsterisk2 ->
              IF p.last = magicAsterisk THEN [atoms |-> Replace(atom), last |-> atom]
              ELSE IF p.last = magicAsterisk2 THEN p ELSE Push(atom)
         [] atom = magicQuestion /\ p.last = magicAsterisk ->
              [p EXCEPT !.atoms = Append(Replace(atom), magicAsterisk)]
         [] atom = magicUnderscore /\ p.last = magicAsterisk2 ->
              [p EXCEPT !.atoms = Append(Replace(atom), magicAsterisk2)]
         [] OTHER -> Push(atom)

\* A '.' at either end is magic; so is the empty pattern.
WithDots(atoms) ==
    IF atoms = <<>> THEN <<magicDot>>
    ELSE [i \in DOMAIN atoms |-> IF i \in {1, Len(atoms)} /\ atoms[i] = Literal(".")
                                 THEN magicDot ELSE atoms[i]]
parse(bytes) ==
    WithDots(FoldLeft(ParseAtom, [atoms |-> <<>>, last |-> magicDot], ReadAll(bytes)).atoms)

\* Add: the atoms reversed, with asterisks moved behind again.
SwapAtoms(s, i) ==
    IF <<s[i], s[i + 1]>> \in {<<magicAsterisk, magicQuestion>>, <<magicAsterisk2, magicUnderscore>>}
    THEN SubSeq(s, 1, i - 1) \o <<s[i + 1], s[i]>> \o From(s, i + 2) ELSE s
Settled(atoms) == FoldLeftDomain(SwapAtoms, atoms, Tail(atoms))
Reversed(patt) == Settled(Reverse(parse(patt)))

-----------------------------------------------------------------------------
(***************************************************************************)
(* Matching.                                                               *)
(***************************************************************************)

\* checkPattern for the first byte of rest; first: it is called with i = 0.
\* hit: accumulate was called; more: the patterns left for the next byte.
RECURSIVE checkPattern(_, _, _)
checkPattern(patt, rest, first) ==
    LET atom == patt[1]
        next == Tail(patt)
        by == rest[1]
        last == Len(rest) = 1
        none == [hit |-> FALSE, more |-> {}]
        down == IF next # <<>> THEN checkPattern(next, rest, TRUE) ELSE none
        excepts == by \in {".", ":"} /\ atom \in {magicAsterisk, magicQuestion}
        \* What may be left when the last byte is matched.
        fits == \/ next = <<>>
                \/ Len(next) = 1 /\ next[1] \in {magicDot, magicAsterisk, magicAsterisk2}
                \/ /\ Len(next) = 2 /\ next[1] \in {magicAsterisk, magicAsterisk2}
                   /\ next[2] = magicDot
    IN CASE atom = magicDot ->
              IF next = <<>> THEN [none EXCEPT !.hit = first \/ by = "."]
              ELSE [hit |-> first /\ down.hit,
                    more |-> {patt} \cup (IF first THEN down.more ELSE {})
                                    \cup (IF by = "." THEN {next} ELSE {})]
         [] atom \in {magicAsterisk, magicAsterisk2} ->
              IF excepts THEN down
              ELSE IF last THEN [down EXCEPT !.hit = @ \/ next = <<>>]
              ELSE [down EXCEPT !.more = @ \cup {patt}]
         [] OTHER ->
              IF atom = magicUnderscore \/ (atom = magicQuestion /\ ~excepts) \/ by \in atom[2]
              THEN IF last THEN [none EXCEPT !.hit = fits]
                   ELSE [none EXCEPT !.more = IF next = <<>> THEN {} ELSE {next}]
              ELSE none

\* match, for one pattern: whether its data are accumulated.
Matches(patt, source) ==
    LET bytes == Reverse(source)
        Step(p, i) ==
            LET rs == {checkPattern(q, From(bytes, i), i = 1) : q \in p.more}
            IN [hit |-> p.hit \/ \E r \in rs : r.hit, more |-> UNION {r.more : r \in rs}]
    IN FoldLeftDomain(Step, [hit |-> FALSE, more |-> {Reversed(patt)}], bytes).hit

-----------------------------------------------------------------------------
(***************************************************************************)
(* What a pattern means, from the comments of matchset.go.                 *)
(***************************************************************************)

RECURSIVE GroupItems(_)
GroupItems(s) ==
    IF s = <<>> THEN {}
    ELSE IF Len(s) > 2 /\ s[2] = "-" THEN ByteRange(s[1], s[3]) \cup GroupItems(From(s, 4))
    ELSE {s[1]} \cup GroupItems(Tail(s))

\* A group without its brackets: a leading '^' that begins no range inverts it.
GroupMeans(s) ==
    IF s # <<>> /\ s[1] = "^" /\ ~(Len(s) > 2 /\ s[2] = "-")
    THEN AllBytes \ GroupItems(Tail(s)) ELSE GroupItems(s)

RECURSIVE AtomsOf(_)
AtomsOf(bytes) ==
    IF bytes = <<>> THEN <<>>
    ELSE LET r == readAtom(bytes)
             group == SubSeq(bytes, 2, GroupEnd(Tail(bytes)))
         IN <<IF bytes[1] = "[" THEN <<"set", GroupMeans(group)>> ELSE r.atom>> \o AtomsOf(r.left)

RECURSIVE Spells(_, _)
\* s is spelled by atoms that are read one by one.
Spells(atoms, s) ==
    IF atoms = <<>> THEN s = <<>>
    ELSE LET any == IF atoms[1] \in {magicAsterisk, magicQuestion}
                    THEN AllBytes \ {".", ":"} ELSE AllBytes
         IN CASE atoms[1] \in {magicAsterisk, magicAsterisk2} ->
                   \E n \in 0 .. Len(s) : /\ \A i \in 1 .. n : s[i] \in any
                                          /\ Spells(Tail(atoms), From(s, n + 1))
              [] atoms[1] \in {magicQuestion, magicUnderscore} ->
                   s # <<>> /\ s[1] \in any /\ Spells(Tail(atoms), Tail(s))
              [] OTHER -> s # <<>> /\ s[1] \in atoms[1][2] /\ Spells(Tail(atoms), Tail(s))

\* "Starting with '.' means it could match any characters at the beginning", up
\* to a '.' or none at all, and the same for the end.
SpellsPart(atoms, source, lead, trail) ==
    LET core == SubSeq(atoms, IF lead THEN 2 ELSE 1, Len(atoms) - (IF trail THEN 1 ELSE 0))
        dots == {i \in DOMAIN source : source[i] = "."}
        starts == {1} \cup (IF lead THEN {i + 1 : i \in dots} ELSE {})
        ends == {Len(source)} \cup (IF trail THEN {i - 1 : i \in dots} ELSE {})
    IN \/ core = <<>>
       \/ \E i \in starts, j \in ends : i <= j + 1 /\ Spells(core, SubSeq(source, i, j))

AtomsMean(atoms, source) ==
    SpellsPart(atoms, source, Head(atoms) = Literal("."), Last(atoms) = Literal("."))

Means(patt, source) == patt = <<>> \/ AtomsMean(AtomsOf(patt), source)
=============================================================================
