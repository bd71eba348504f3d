----------------------------- MODULE AllowList -----------------------------
(***************************************************************************)
(* The allow lists of the HTTP proxy's routes (http.go), in their place in *)
(* Routes: Expand is what it reads, and Allow is what its lists allow.     *)
(*                                                                         *)
(* A line is a pattern, perhaps with a port, a prefix of addresses, or the *)
(* name of a file with more lines.                                         *)
(***************************************************************************)
EXTENDS Routes, MatchSet, RangeSet

CONSTANT Probes     \* addresses to check a list with

-----------------------------------------------------------------------------
(***************************************************************************)
(* Allow lists. The includes and the excludes each are a function from     *)
(* patterns to ports (None: any port) and a set of ranges.                 *)
(***************************************************************************)

RECURSIVE Expand(_, _)
\* The lines, with the ones of the files in place of their names; Missing if
\* one of these is not there.
Expand(fs, lines) ==
    IF lines = <<>> THEN <<>>
    ELSE LET line == lines[1]
             first == IF line.kind # "file" THEN <<line>>
                      ELSE IF fs[line.file] = Missing THEN Missing
                      ELSE Expand(fs, fs[line.file])
             rest == Expand(fs, Tail(lines))
         IN IF Missing \in {first, rest} THEN Missing ELSE first \o rest

NarrowsPorts(settings, patt, port) ==   \* mutant: a later line with a port takes the others away
    [settings EXCEPT !.patterns =
        Put(@, patt, IF port = None THEN None
                     ELSE {port} \cup (IF patt \in DOMAIN @ /\ @[patt] # None THEN @[patt] ELSE {}))]

\* Without a port a pattern stands for all ports from then on.
AddPattern(settings, patt, port) ==
    LET known == patt \in DOMAIN settings.patterns
        ports == IF port = None \/ (known /\ settings.patterns[patt] = None) THEN None
                 ELSE {port} \cup (IF known THEN settings.patterns[patt] ELSE {})
    IN [settings EXCEPT !.patterns = Put(@, patt, ports)]

\* An address in the way it is written.
Text(addr) == <<CHOOSE by \in {"0", "1", "2", "3", "4", "5", "6", "7"} : Value(by) = Value("0") + addr>>

\* A closed range comes with its last address as a pattern.
AddAddrs(settings, r) ==
    [settings EXCEPT !.ranges = AddRange(@, r.low, r.high),
                     !.patterns = IF r.closed THEN Put(@, Text(r.high), None) ELSE @]
AddPrefix(settings, line) == AddAddrs(settings, ParsePrefix(line.addr, line.bits))

parseLine(p, line) ==
    LET side == IF line.exclude THEN "excludes" ELSE "includes"
    IN [p EXCEPT ![side] = IF line.kind = "prefix" THEN AddPrefix(@, line)
                           ELSE AddPattern(@, line.patt, line.port)]

\* allowList.Init.
Parsed(lines) ==
    LET empty == [patterns |-> [x \in {} |-> None], ranges |-> <<>>]
    IN FoldLeft(parseLine, [includes |-> empty, excludes |-> empty], lines)

match(settings, a) ==
    \/ a.addr # None /\ HasAddr(settings.ranges, a.addr)
    \/ \E patt \in DOMAIN settings.patterns :
          /\ Matches(patt, a.host)
          /\ settings.patterns[patt] = None \/ a.port \in settings.patterns[patt]

ListAllows(l, a) == match(l.includes, a) /\ ~match(l.excludes, a)
Allow(lines, a) == ListAllows(Parsed(lines), a)

\* What the lines mean: one by one, whatever their order.
LineMeans(line, a) ==
    IF line.kind = "prefix"
    THEN a.addr # None /\ a.addr \div Family = line.addr \div Family
                       /\ a.addr \div 2 ^ (Width - line.bits) = line.addr \div 2 ^ (Width - line.bits)
    ELSE Means(line.patt, a.host) /\ line.port \in {None, a.port}
LinesMean(lines, a) ==
    /\ \E i \in DOMAIN lines : ~lines[i].exclude /\ LineMeans(lines[i], a)
    /\ \A i \in DOMAIN lines : lines[i].exclude => ~LineMeans(lines[i], a)

-----------------------------------------------------------------------------
\* A list that a load has made allows exactly the addresses that its lines
\* mean: some line includes it, no line excludes it, by a pattern of the host
\* and the port or by a prefix, each line for itself. The merging of ranges,
\* the collecting of ports, the reordering of asterisks and the matching of
\* hosts from their end leave no trace. It is what the comments on the magic
\* atoms say ("matches zero or more characters, any characters except '.' and
\* ':'"), and the code departs from them for two kinds of patterns.
AllowsExactly ==
    ld.pc = "send" =>
        \A i \in DOMAIN ld.new.routes :
            LET lines == ld.new.routes[i].list.read
            IN \A a \in Probes \cup Asked : Allow(lines, a) <=> LinesMean(lines, a)
=============================================================================
