------------------------------ MODULE MCIPIntelDB ------------------------------
(***************************************************************************)
(* Instances of IPIntelDB for TLC: every database of a few records, spread *)
(* over two blocks in every way.                                           *)
(***************************************************************************)
EXTENDS IPIntelDB, FiniteSetsExt

Entry(start, end, source, category, confidence, number) ==
    [family |-> 4, start |-> start, end |-> end, source |-> source,
     category |-> category, confidence |-> confidence, asn |-> number]

\* Strengths of 40.00, 40.05 and 45 points, two categories of equal weight, one
\* that does not count, a confidence over 100; ASNs told by openasn, and two told by
\* another source, one of them bad; ranges that overlap and end where addresses are looked up; IPv6.
Pool ==
    {Entry(1, 3, 1, "vpn", 50, 7),
     Entry(2, 2, 1, "hosting", 89, 8),
     Entry(2, 4, 2, "government", 100, 0),
     Entry(2, 2, 9, "education", 100, 0),
     Entry(2, 3, 1, "", 100, 0),
     Entry(1, 2, 0, "info", 90, 7),
     Entry(3, 3, 0, "hosting", 255, 9),
     [Entry(2, 2, 1, "proxy", 90, 0) EXCEPT !.family = 6]}

\* A block as ip-intel writes it, from at least one record.
Pack(rs) ==
    [family |-> rs[1].family,
     first  |-> Min({rs[i].start : i \in DOMAIN rs}),
     max    |-> Max({rs[i].end : i \in DOMAIN rs}),
     compressed |-> 1, uncompressed |-> 1, inside |-> TRUE,
     raw |-> [length |-> 1, count |-> Len(rs), records |-> rs]]

Packed == {Pack(<<r>>) : r \in Pool}
          \cup {Pack(rs) : rs \in {p \in Pool \X Pool : p[1].family = p[2].family}}

\* Every way of being unreadable.
Damaged(block) ==
    {[block EXCEPT !.raw = Corrupt], [block EXCEPT !.inside = FALSE],
     [block EXCEPT !.compressed = 0], [block EXCEPT !.uncompressed = 256 * MiB + 1],
     [block EXCEPT !.raw.length = 2], [block EXCEPT !.raw.count = 3]}

\* The empty category is none of the scoring's.
AllCategories == DOMAIN CategoryWeights \cup {""}

Of(blocks) == [sources |-> <<"openasn", "list", "cloud">>, asns |-> {7}, blocks |-> blocks]

SomeDatabases ==
    {Of(<<b1, Pack(<<r>>)>>) : b1 \in Packed, r \in Pool}
    \cup {Of(<<Pack(<<r>>), b2>>) : r \in Pool, b2 \in Packed}
    \cup {Of(<<Pack(<<r>>), b2>>) : r \in Pool,
            b2 \in UNION {Damaged(Pack(<<s>>)) : s \in Pool}}

At(form, key) == [form |-> form, key |-> key]
SomeAddresses == {At("v4", 2), At("v4", 3), At("v6", 2)}

GateOn(cats) == [mode |-> "challenge", cats |-> cats, target |-> 0]
SomeGates == {GateOn(cats) : cats \in SUBSET {"vpn", "hosting", "government", "unknown"} \ {{}}}
================================================================================
