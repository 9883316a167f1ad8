------------------------------ MODULE CookieHeader ------------------------------
(***************************************************************************)
(* Reading a Cookie header: by the filter (main.go, parseChallengeCookies  *)
(* and getCookie) and by the script of the challenge page (challenge.html, *)
(* gc).  A header is a sequence of "=", ";", " " and words, a word being   *)
(* what holds none of these.                                               *)
(***************************************************************************)
EXTENDS Strings

CONSTANTS
    Words,
    CookieNames  \* the words that name the cookies of the filter

ASSUME WordsAssumption ==
    /\ Words \cap {"=", ";", " "} = {}
    /\ CookieNames \subseteq Words

Pieces == Words \cup {"=", ";", " "}
Headers == Seq(Pieces)

NoValue == <<>>       \* an empty value counts as none for every reader

NoCookies == [name \in CookieNames |-> NoValue]

-----------------------------------------------------------------------------
(* The filter.                                                             *)

\* One round of the scan, from position i on: separators are passed over, the name
\* goes to the next "=", the value from there to the next ";".
NameStart(h, i) == NextIn(h, ToSet(h) \ {" ", ";"}, i)
NameEnd(h, i) == NextIn(h, {"="}, NameStart(h, i))
ValueEnd(h, i) == NextIn(h, {";"}, NameEnd(h, i) + 1)

PairAt(h, i) ==
    [name  |-> TrimSpace(SubSeq(h, NameStart(h, i), NameEnd(h, i) - 1)),
     value |-> TrimSpace(SubSeq(h, NameEnd(h, i) + 1, ValueEnd(h, i) - 1))]

\* The scan goes on after the "=", not after the value.
SeedScan(h) ==
    LET from[i \in 1..(Len(h) + 2)] ==
          IF NameEnd(h, i) > Len(h) THEN <<>> ELSE <<PairAt(h, i)>> \o from[NameEnd(h, i) + 1]
    IN  from

\* The pairs found from a position on, until no "=" is left.
Scan(h) ==
    LET from[i \in 1..(Len(h) + 2)] ==
          IF NameEnd(h, i) > Len(h) THEN <<>> ELSE <<PairAt(h, i)>> \o from[ValueEnd(h, i) + 1]
    IN  from

Pairs(h) == Scan(h)[1]

\* The first pair of a name kept.
SeedFirstPairWins(h) ==
    [name \in CookieNames |->
        LET places == {i \in DOMAIN Pairs(h) : Pairs(h)[i].name = <<name>>}
        IN  IF places = {} THEN NoValue ELSE Pairs(h)[Min(places)].value]

\* The last pair of a name wins.
ParseChallengeCookies(h) ==
    [name \in CookieNames |->
        LET places == {i \in DOMAIN Pairs(h) : Pairs(h)[i].name = <<name>>}
        IN  IF places = {} THEN NoValue ELSE Pairs(h)[Max(places)].value]

\* At the start of the header, else after the first "; ", else after the first ";".
GetCookie(h, name) ==
    LET ends(prefix) == {i + Len(prefix) : i \in Occurrences(prefix, h)}
        starts == IF IsPrefix(<<name, "=">>, h) THEN {3}
                  ELSE IF ends(<<";", " ", name, "=">>) # {} THEN ends(<<";", " ", name, "=">>)
                  ELSE ends(<<";", name, "=">>)
    IN  IF starts = {} THEN NoValue
        ELSE TrimSpace(SubSeq(h, Min(starts), NextIn(h, {";"}, Min(starts)) - 1))

-----------------------------------------------------------------------------
(* The page.                                                               *)

\* What stands between the only "; name=" and the next ";"; none if the name is
\* there twice.
PageReads(h, name) ==
    LET text  == <<";", " ">> \o h
        found == Occurrences(<<";", " ", name, "=">>, text)
        start == Min(found) + 4
    IN  IF Cardinality(found) # 1 THEN NoValue
        ELSE SubSeq(text, start, NextIn(text, {";"}, start) - 1)

-----------------------------------------------------------------------------
(* What a header means: its parts between the ";".                         *)

Parts(h) ==
    {p \in (1..(Len(h) + 1)) \X (0..Len(h)) :
        /\ p[1] <= p[2] + 1
        /\ p[1] = 1 \/ h[p[1] - 1] = ";"
        /\ NextIn(h, {";"}, p[1]) = p[2] + 1}

PartText(h, p) == SubSeq(h, p[1], p[2])

IsNamed(text) == "=" \in ToSet(text)

\* No part but an empty one is without a name.
AllNamed(h) ==
    \A p \in Parts(h) : IsNamed(PartText(h, p)) \/ ToSet(PartText(h, p)) \subseteq {" "}

NameIn(text) == TrimSpace(Before(text, NextIn(text, {"="}, 1)))
ValueIn(text) == TrimSpace(After(text, NextIn(text, {"="}, 1)))

\* The last part of the name counts.
MeansCookie(h, name) ==
    LET named == {p \in Parts(h) : IsNamed(PartText(h, p)) /\ NameIn(PartText(h, p)) = <<name>>}
    IN  IF named = {} THEN NoValue
        ELSE LET last == CHOOSE p \in named : \A q \in named : q[1] <= p[1]
             IN  ValueIn(PartText(h, last))

\* As a browser writes it: "; " between the cookies, no other space, and no name of
\* a cookie twice.
Canonical(h) ==
    /\ h # <<>>
    /\ \A p \in Parts(h) :
         LET text == PartText(h, p)
             bare == IF p[1] = 1 THEN text ELSE Tail(text)
         IN  /\ p[1] # 1 => text # <<>> /\ Head(text) = " "
             /\ bare # <<>> /\ " " \notin ToSet(bare)
    /\ \A p, q \in Parts(h) :
         IsNamed(PartText(h, p)) /\ IsNamed(PartText(h, q))
           /\ NameIn(PartText(h, p)) = NameIn(PartText(h, q)) => p = q
================================================================================
