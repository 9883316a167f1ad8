--------------------------- MODULE MCRequestHeaders ---------------------------
(***************************************************************************)
(* Instances of RequestHeaders for TLC.                                    *)
(***************************************************************************)
EXTENDS RequestHeaders

SomeChars == {"a", "b", "A", "B", "1", "/", ".", "*", ":", "[", "]", "?"}
TwoLetters == [ch \in {"A", "B"} |-> IF ch = "A" THEN "a" ELSE "b"]

Hosts(list) == [hosts |-> list, paths |-> Absent]
OnPaths(list) == [hosts |-> Absent, paths |-> list]

\* Host entries, good and bad: a, A.b, *.a, *.A.b, *.b, then **.a, *, *., a.*
HostTexts ==
    {<<"a">>, <<"A", ".", "b">>, <<"*", ".", "a">>, <<"*", ".", "A", ".", "b">>,
     <<"*", ".", "b">>, <<"*", "*", ".", "a">>, <<"*">>, <<"*", ".">>,
     <<"a", ".", "*">>, <<>>}

\* Every host entry alone; lists with a rule to drop, with several hosts and
\* paths, with nothing in them; values of the wrong type.
Lists ==
    {<<Hosts(<<h>>)>> : h \in HostTexts}
    \cup {<<Hosts(<<h>>), [hosts |-> <<<<"a">>>>, paths |-> <<<<"/", "a">>>>]>> : h \in HostTexts}
    \cup {<<Hosts(<<<<"b">>, h>>)>> : h \in HostTexts}
    \cup {Absent, OtherType, <<>>, <<OtherType>>, <<Hosts(Absent)>>, <<Hosts(OtherType)>>,
          <<Hosts(<<>>)>>, <<Hosts(<<OtherType>>)>>, <<OnPaths(OtherType)>>,
          <<OnPaths(<<<<>>>>)>>, <<OnPaths(<<<<"/">>>>)>>, <<OnPaths(<<<<"/", "a">>>>)>>,
          <<OnPaths(<<<<"/", "a">>>>), Hosts(<<<<"b">>>>)>>}

\* All names of up to five letters and dots, with and without a port; addresses
\* with colons, in brackets and without.
Names == BoundedSeq({"a", "B", "."}, 5) \ {<<>>}
Addresses == {<<":", ":", "1">>, <<"1", ":", ":", "a">>}
Bracketed(s) == <<"[">> \o s \o <<"]">>
WithPort(s) == s \o <<":", "1", "1">>
AllAuthorities ==
    Names \cup {WithPort(n) : n \in Names} \cup {n \o <<":">> : n \in Names}
    \cup Addresses \cup {Bracketed(s) : s \in Addresses}
    \cup {WithPort(Bracketed(s)) : s \in Addresses}

SomePaths == {<<"/">>, <<"/", "a">>, <<"/", "a", "b">>, <<"/", "b", "?", "/", "a">>,
              <<"/", "a", "?", "b", "?">>}

\* Cookie headers: all of up to four words, separators and equal signs; and up to
\* three texts, well spaced or not, with values that look like pairs.
AnyCookie == BoundedSeq({"c", "k", "=", ";", " "}, 4)
NamedTexts ==
    {<<"c", "=", "k">>, <<"k", "=", "c">>, <<"c", "=">>, <<"c", "k", "=", "c">>,
     <<"c", "k", "=", "c", "=", "k">>, <<" ", "k", " ", "=", " ", "c", " ">>}
Joined(texts, glue) ==
    texts \cup {s \o glue \o t : s, t \in texts}
    \cup {s \o glue \o t \o glue \o u : s, t, u \in texts}
CookieHeaders == AnyCookie \cup Joined(NamedTexts, <<";">>) \cup Joined(NamedTexts, <<";", " ">>)

\* A site that sets a cookie without a name, too.
WithNameless == Joined(NamedTexts \cup {<<"k">>}, <<";", " ">>)

Asking(authorities, paths, headers) ==
    [authority: authorities, path: paths, cookie: headers]

SomeRequests ==
    Asking(AllAuthorities, {<<"/">>, <<"/", "a">>}, {<<>>})
    \cup Asking({<<"a">>, <<"b">>}, SomePaths, {<<>>})
    \cup Asking({<<"a">>}, {<<"/">>}, CookieHeaders)

NamelessRequests == Asking({<<"a">>}, {<<"/">>}, WithNameless)

ProtectAll == {Absent}
===============================================================================
