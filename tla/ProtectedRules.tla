----------------------------- MODULE ProtectedRules -----------------------------
(***************************************************************************)
(* Selective protection (protected.go): compiling the `protected` list, and *)
(* matching requests against the compiled rules.  A string is the sequence *)
(* of its characters, because what can go wrong here goes wrong at a dot,  *)
(* a colon or a bracket.                                                   *)
(***************************************************************************)
EXTENDS Strings

CONSTANTS
    Absent,     \* a key that is not there
    OtherType,  \* a value that is not of the type it should be
    Dropped,    \* what an invalid entry compiles to
    Chars,      \* the characters
    Lower,      \* the lower case of every upper case letter
    Digits

\* Nothing that a rule or an authority is taken apart at is a letter or a digit.
ASSUME CharactersAssumption ==
    /\ {".", "*", ":", "[", "]", "?"} \subseteq Chars
    /\ DOMAIN Lower \subseteq Chars \ {".", "*"}
    /\ \A ch \in DOMAIN Lower : Lower[ch] \in Chars \ {".", "*"}
    /\ Digits \subseteq Chars \ {":"}

Text == Seq(Chars)

\* What a list of strings can be in the configuration, and the `protected` list.
StringLists == {Absent, OtherType} \cup Seq(Text \cup {OtherType})
Entries == {OtherType} \cup [hosts : StringLists, paths : StringLists]
ProtectedLists == {Absent, OtherType} \cup Seq(Entries)

\* What is dropped is told from every host, path and rule that is kept.
ASSUME DroppedAssumption ==
    /\ Dropped \notin Text \cup [wild : BOOLEAN, name : Text]
    /\ Dropped \notin [anyHost : BOOLEAN, hosts : SUBSET [wild : BOOLEAN, name : Text],
                       anyPath : BOOLEAN, paths : SUBSET Text]

ToLower(s) == [i \in DOMAIN s |-> IF s[i] \in DOMAIN Lower THEN Lower[s[i]] ELSE s[i]]

-----------------------------------------------------------------------------
(* Compiling.                                                              *)

\* A host entry: a name, or "*." and the name under which one label is free.
CompileHost(h) ==
    LET wild == IsPrefix(<<"*", ".">>, h)
        name == IF wild THEN After(h, 2) ELSE h
    IN  IF h = OtherType \/ name = <<>> \/ Contains(name, "*") THEN Dropped
        ELSE [wild |-> wild, name |-> ToLower(name)]

CompilePath(p) == IF p \in {OtherType, <<>>} THEN Dropped ELSE p

\* A list that is absent or empty restricts nothing.
Unrestricted(list) == list \in {Absent, <<>>}

\* One bad entry drops the rule as a whole.
CompileRule(entry) ==
    IF entry = OtherType THEN Dropped
    ELSE LET hosts == {CompileHost(h) : h \in ToSet(entry.hosts)}
             paths == {CompilePath(p) : p \in ToSet(entry.paths)}
         IN  IF \/ entry.hosts = Absent /\ entry.paths = Absent
                \/ OtherType \in {entry.hosts, entry.paths}
                \/ ~ Unrestricted(entry.hosts) /\ Dropped \in hosts
                \/ ~ Unrestricted(entry.paths) /\ Dropped \in paths
             THEN Dropped
             ELSE [anyHost |-> Unrestricted(entry.hosts),
                   hosts   |-> IF Unrestricted(entry.hosts) THEN {} ELSE hosts,
                   anyPath |-> Unrestricted(entry.paths),
                   paths   |-> IF Unrestricted(entry.paths) THEN {} ELSE paths]

CompiledList(list) ==
    IF list \in {Absent, OtherType} THEN {}
    ELSE {CompileRule(entry) : entry \in ToSet(list)} \ {Dropped}

-----------------------------------------------------------------------------
(* Matching.                                                               *)

\* The port taken off, lower case.  Only one colon with digits after it is a
\* port; brackets are taken off with whatever follows them.
NormalizeAuthority(a) ==
    LET close == SelectInSeq(a, LAMBDA ch : ch = "]")
        colon == SelectLastInSeq(a, LAMBDA ch : ch = ":")
        hasPort ==
            /\ colon > 1
            /\ ToSet(After(a, colon)) \subseteq Digits
            /\ ~ Contains(Before(a, colon), ":")
    IN  ToLower(IF IsPrefix(<<"[">>, a)
                THEN IF close = 0 THEN a ELSE SubSeq(a, 2, close - 1)
                ELSE IF hasPort THEN Before(a, colon) ELSE a)

\* The suffix compared without its dot.
SeedMatchesSuffix(h, host) ==
    IF ~ h.wild THEN host = h.name
    ELSE LET rest == SubSeq(host, 1, Len(host) - Len(h.name))
         IN  IsStrictSuffix(h.name, host) /\ ~ Contains(SubSeq(rest, 1, Len(rest) - 1), ".")

\* One label more than the suffix, no dot in it.
HostMatches(h, host) ==
    IF ~ h.wild THEN host = h.name
    ELSE LET suffix == <<".">> \o h.name
         IN  /\ IsStrictSuffix(suffix, host)
             /\ ~ Contains(SubSeq(host, 1, Len(host) - Len(suffix)), ".")

RuleMatches(rule, host, path) ==
    /\ rule.anyHost \/ \E h \in rule.hosts : HostMatches(h, host)
    /\ rule.anyPath \/ \E p \in rule.paths : IsPrefix(p, path)

\* The query does not count.
WithoutQuery(path) ==
    LET query == SelectInSeq(path, LAMBDA ch : ch = "?")
    IN  IF query = 0 THEN path ELSE Before(path, query)

MatchProtectedRules(compiled, authority, path) ==
    \E rule \in compiled :
        RuleMatches(rule, NormalizeAuthority(authority), WithoutQuery(path))

-----------------------------------------------------------------------------
(* What the documentation calls a match (README.md, `protected`), as a     *)
(* decomposition of the strings.                                           *)

\* All pairs of strings that make s with `mid` between them.
Splits(s, mid) ==
    {<<SubSeq(s, 1, i), SubSeq(s, i + Len(mid) + 1, Len(s))>> :
        i \in {j \in 0..(Len(s) - Len(mid)) : SubSeq(s, j + 1, j + Len(mid)) = mid}}

\* The host of an authority: host, host:port, [address] or [address]:port.
HostsOf(authority) ==
    LET ports == {<<>>} \cup {<<":">> \o d : d \in BoundedSeq(Digits, Len(authority))}
    IN  {s \in {SubSeq(authority, i, j) : i \in 1..2, j \in 0..Len(authority)} :
            \E port \in ports :
               \/ authority = <<"[">> \o s \o <<"]">> \o port
               \/ authority = s \o port /\ ~ IsPrefix(<<"[">>, s)
                    /\ (Contains(s, ":") => port = <<>> /\ \E k, l \in DOMAIN s : k < l /\ s[k] = ":" /\ s[l] = ":")}

\* An authority has a host, and no host has a "]" in it.
HasHost(authority) ==
    /\ HostsOf(authority) # {}
    /\ \A host \in HostsOf(authority) : host # <<>> /\ ~ Contains(host, "]")

\* The text of a host entry against a host: the same but for case, or one label
\* in place of the star.
MeansHost(text, host) ==
    \/ ToLower(text) = ToLower(host)
    \/ \E split \in Splits(host, <<".">>) :
         /\ split[1] # <<>> /\ ~ Contains(split[1], ".")
         /\ ToLower(text) = <<"*", ".">> \o ToLower(split[2])

MeansRule(entry, host, path) ==
    /\ entry.hosts \in {Absent, <<>>} \/ \E text \in ToSet(entry.hosts) : MeansHost(text, host)
    /\ entry.paths \in {Absent, <<>>} \/ \E p \in ToSet(entry.paths) : IsPrefix(p, path)

\* No string, nothing, or a star that is not the one leading label.
InvalidHost(text) ==
    \/ text \in {OtherType, <<>>, <<"*", ".">>}
    \/ \E i \in DOMAIN text : text[i] = "*" /\ (i > 1 \/ Len(text) = 1 \/ text[2] # ".")

\* Bad host entries, paths that are no strings or empty, and the empty rule.
Invalid(entry) ==
    \/ entry = OtherType
    \/ OtherType \in {entry.hosts, entry.paths}
    \/ entry.hosts = Absent /\ entry.paths = Absent
    \/ entry.hosts # Absent /\ \E text \in ToSet(entry.hosts) : InvalidHost(text)
    \/ entry.paths # Absent /\ \E p \in ToSet(entry.paths) : p \in {OtherType, <<>>}

\* What stands before the first "?".
PathsOf(path) ==
    IF Contains(path, "?")
    THEN {split[1] : split \in {s \in Splits(path, <<"?">>) : ~ Contains(s[1], "?")}}
    ELSE {path}

ValidEntries(list) ==
    IF list \in {Absent, OtherType} THEN {} ELSE {entry \in ToSet(list) : ~ Invalid(entry)}

Meant(list, authority, path) ==
    \/ ValidEntries(list) = {}
    \/ \E entry \in ValidEntries(list), host \in HostsOf(authority), p \in PathsOf(path) :
         MeansRule(entry, host, p)
================================================================================
