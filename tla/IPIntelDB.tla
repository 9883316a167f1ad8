------------------------------- MODULE IPIntelDB -------------------------------
(***************************************************************************)
(* Looking an address up in the embedded database (ipintelbin/db.go,       *)
(* score.go): the records lie in blocks, and only the blocks whose header  *)
(* says they can hold the address are read.  What they have on it is       *)
(* evidence, and the evidence is weighed into a verdict.                   *)
(*                                                                         *)
(* A step of this module is one round of Lookup's loop.  Country, Org and  *)
(* Score of a Result, and its entries for the sources without a match, are *)
(* left out: the plugin reads the verdict only, and they do not touch it.  *)
(***************************************************************************)
EXTENDS IPIntelGate, Sequences, Functions

CONSTANTS
    Databases,  \* what the plugin may be built with
    Addresses,  \* the addresses looked up
    Sources,    \* the names of sources
    Categories, \* the categories of records, known to the scoring or not
    Gates,      \* the ipintel configurations that ask
    Corrupt,    \* compressed data that cannot be decompressed
    Unnamed,    \* the name of a source the manifest does not list
    NoQuery,    \* before the first lookup
    Pending     \* the answer of a lookup that is not over

\* An address as it is written: an IPv4 address may be embedded in an IPv6 one.
Address == [form: {"v4", "v6", "v4in6"}, key: Nat]

Family(a) == IF a.form = "v6" THEN 6 ELSE 4

Record ==
    [family: {4, 6}, start: Nat, end: Nat, source: Nat, category: Categories,
     confidence: 0..255, asn: Nat]

\* A block is its entry in the index and what its bytes decompress to: their
\* length, the number of records they announce, and the records they hold.
Block ==
    [family: {4, 6}, first: Nat, max: Nat, compressed: Int, uncompressed: Int,
     inside: BOOLEAN,
     raw: [length: Nat, count: Nat, records: Seq(Record)] \cup {Corrupt}]

Database == [sources: Seq(Sources), asns: SUBSET Nat, blocks: Seq(Block)]

Evidence == [source: Sources \cup {Unnamed}, category: Categories, confidence: Nat]

MiB == 1024 * 1024

\* Whatever is out of bounds, truncated or damaged makes a block unreadable.
Readable(block) ==
    /\ block.compressed \in 1..(64 * MiB) /\ block.uncompressed \in 1..(256 * MiB)
    /\ block.inside
    /\ block.raw # Corrupt
    /\ block.raw.length = block.uncompressed
    /\ block.raw.count <= 1000000 /\ block.raw.count <= Len(block.raw.records)

RecordsOf(block) == SubSeq(block.raw.records, 1, block.raw.count)

\* The headers are those ip-intel writes: they cover the records of the block.
Truthful(block) ==
    Readable(block) =>
        \A i \in DOMAIN RecordsOf(block) :
            LET r == RecordsOf(block)[i] IN
            r.family = block.family /\ block.first <= r.start /\ r.end <= block.max

ASSUME DatabaseAssumption ==
    /\ Addresses \subseteq Address
    /\ Databases \subseteq Database
    /\ \A d \in Databases : \A i \in DOMAIN d.blocks : Truthful(d.blocks[i])
    /\ NoQuery \notin Addresses
    /\ Pending # NoVerdict /\ {Pending, NoVerdict} \cap Categories = {}

-----------------------------------------------------------------------------
(* Evidence.                                                               *)

\* The blocks that Lookup reads.
Covers(block, a) ==
    block.family = Family(a) /\ block.first <= a.key /\ a.key <= block.max

Matches(r, a) == r.family = Family(a) /\ r.start <= a.key /\ a.key <= r.end

\* A source by its number, which counts from 0.
SourceName(d, id) == IF id < Len(d.sources) THEN d.sources[id + 1] ELSE Unnamed

EvidenceOf(d, r) ==
    [source |-> SourceName(d, r.source), category |-> r.category, confidence |-> r.confidence]

\* What the matching records of a block add, without what is known already.
EvidenceIn(d, rs, a) == {EvidenceOf(d, rs[i]) : i \in {j \in DOMAIN rs : Matches(rs[j], a)}}

\* Weights of the categories; one that is not here does not count.
CategoryWeights ==
    [tor |-> 100, residential_proxy |-> 95, vpn |-> 80, vpn_candidate |-> 0,
     proxy |-> 70, relay |-> 50, hosting |-> 45, enterprise_gateway |-> 35,
     cdn |-> 20, business |-> 10, mobile |-> 5, education |-> 5, government |-> 5,
     residential_isp |-> 0, unknown |-> 0, info |-> 0, country |-> 0]

ASSUME NamesAssumption ==
    /\ DOMAIN CategoryWeights \subseteq Categories
    /\ "bad-asn-list" \in Sources
    /\ \A c \in Gates : c.mode \in {"challenge", "difficulty"} /\ c.cats \subseteq Categories

Weight(category) ==
    IF category \in DOMAIN CategoryWeights THEN CategoryWeights[category] ELSE 0

\* The weight of the category taken for the rank.
SeedASNRank(d, r) ==
    IF r.asn = 0 THEN 0
    ELSE IF SourceName(d, r.source) # "openasn" THEN 1
    ELSE IF Weight(r.category) > 0 THEN Weight(r.category) ELSE 2

\* Which record tells the ASN: openasn before the others, and there one of a
\* category that counts before the others.
ASNRank(d, r) ==
    IF r.asn = 0 THEN 0
    ELSE IF SourceName(d, r.source) # "openasn" THEN 1
    ELSE IF Weight(r.category) > 0 THEN 3 ELSE 2

\* An address of a network on the bad-asn-list counts as hosting.
BadASNEvidence(d, asn) ==
    IF asn # 0 /\ asn \in d.asns
    THEN {[source |-> "bad-asn-list", category |-> "hosting", confidence |-> 60]}
    ELSE {}
-----------------------------------------------------------------------------
(* The verdict.                                                            *)

\* Two categories of equal weight without a place in the order.
SeedCategoryOrder ==
    <<"tor", "residential_proxy", "vpn", "vpn_candidate", "proxy", "relay", "hosting",
      "enterprise_gateway", "cdn", "business", "mobile", "residential_isp", "unknown">>

CategoryOrder ==
    <<"tor", "residential_proxy", "vpn", "vpn_candidate", "proxy", "relay", "hosting",
      "enterprise_gateway", "cdn", "business", "mobile", "education", "government",
      "residential_isp", "unknown">>

\* Its place in the order; all others come after it.
CategoryRank(category) ==
    LET places == {i \in DOMAIN CategoryOrder : CategoryOrder[i] = category}
    IN  IF places = {} THEN Len(CategoryOrder) + 1 ELSE CHOOSE i \in places : TRUE

Capped(confidence) == IF confidence > 100 THEN 100 ELSE confidence

\* In hundredths of a point, and rounded to points as categories are compared.
Strength(e) == Weight(e.category) * Capped(e.confidence)
Points(e) == (Strength(e) + 50) \div 100

\* What counts, and of each category the evidence of highest confidence.
Counting(evidence) == {e \in evidence : Strength(e) > 0}
Heads(evidence) ==
    {e \in Counting(evidence) : \A f \in Counting(evidence) :
        f.category = e.category => Capped(f.confidence) <= Capped(e.confidence)}

\* The rank compared before the score.
SeedPrecedes(e, f) ==
    \/ CategoryRank(e.category) < CategoryRank(f.category)
    \/ CategoryRank(e.category) = CategoryRank(f.category) /\ Points(e) > Points(f)

Precedes(e, f) ==
    \/ Points(e) > Points(f)
    \/ Points(e) = Points(f) /\ CategoryRank(e.category) < CategoryRank(f.category)

\* The categories that may come first: they leave a map in any order, and
\* sort.Slice keeps none among those that do not precede each other.
Verdicts(evidence) ==
    IF Counting(evidence) = {} THEN {"unknown"}
    ELSE {e.category : e \in {h \in Heads(evidence) :
                                \A g \in Heads(evidence) : ~ Precedes(g, h)}}
-----------------------------------------------------------------------------
(* Lookup.                                                                 *)

VARIABLES
    db,        \* the embedded database
    query,     \* the address looked up
    next,      \* the block whose turn it is
    evidence,  \* what the blocks before it had on the address
    asn,       \* the ASN they told
    asnRank,   \* and how well
    answer,    \* the verdict: Pending during the lookup, NoVerdict if it failed
    given      \* history: all the verdicts on every address

vars == <<db, query, next, evidence, asn, asnRank, answer, given>>

Running == answer = Pending

Begin(a) ==
    /\ ~ Running
    /\ query' = a
    /\ next' = 1 /\ evidence' = {} /\ asn' = 0 /\ asnRank' = 0
    /\ answer' = Pending
    /\ UNCHANGED <<db, given>>

Skip ==
    /\ Running /\ next <= Len(db.blocks)
    /\ ~ Covers(db.blocks[next], query)
    /\ next' = next + 1
    /\ UNCHANGED <<db, query, evidence, asn, asnRank, answer, given>>

\* The first of the records of highest rank tells the ASN, if its rank is higher
\* than that of the one that told it so far.
TakeASN(rs) ==
    LET claims == {i \in DOMAIN rs : Matches(rs[i], query) /\ ASNRank(db, rs[i]) > asnRank}
        before(i, j) ==
            \/ ASNRank(db, rs[i]) > ASNRank(db, rs[j])
            \/ ASNRank(db, rs[i]) = ASNRank(db, rs[j]) /\ i <= j
    IN  IF claims = {} THEN UNCHANGED <<asn, asnRank>>
        ELSE \E i \in claims :
                /\ \A j \in claims : before(i, j)
                /\ asn' = rs[i].asn
                /\ asnRank' = ASNRank(db, rs[i])

\* The loop left after the first block that covers the address.
SeedScanOnlyOne ==
    LET rs == RecordsOf(db.blocks[next]) IN
    /\ Running /\ next <= Len(db.blocks)
    /\ Covers(db.blocks[next], query)
    /\ Readable(db.blocks[next])
    /\ evidence' = evidence \cup EvidenceIn(db, rs, query)
    /\ TakeASN(rs)
    /\ next' = Len(db.blocks) + 1
    /\ UNCHANGED <<db, query, answer, given>>

Scan ==
    LET rs == RecordsOf(db.blocks[next]) IN
    /\ Running /\ next <= Len(db.blocks)
    /\ Covers(db.blocks[next], query)
    /\ Readable(db.blocks[next])
    /\ evidence' = evidence \cup EvidenceIn(db, rs, query)
    /\ TakeASN(rs)
    /\ next' = next + 1
    /\ UNCHANGED <<db, query, answer, given>>

Answer(verdict) ==
    /\ answer' = verdict
    /\ given' = [given EXCEPT ![query] = @ \cup {verdict}]
    /\ UNCHANGED <<db, query, next, evidence, asn, asnRank>>

\* One unreadable block fails the lookup, whatever the others had.
Fail ==
    /\ Running /\ next <= Len(db.blocks)
    /\ Covers(db.blocks[next], query)
    /\ ~ Readable(db.blocks[next])
    /\ Answer(NoVerdict)

Conclude ==
    /\ Running /\ next > Len(db.blocks)
    /\ \E verdict \in Verdicts(evidence \cup BadASNEvidence(db, asn)) : Answer(verdict)

Init ==
    /\ db \in Databases
    /\ query = NoQuery /\ next = 1
    /\ evidence = {} /\ asn = 0 /\ asnRank = 0
    /\ answer = NoVerdict
    /\ given = [a \in Addresses |-> {}]

Next == (\E a \in Addresses : Begin(a)) \/ Skip \/ Scan \/ Fail \/ Conclude

Spec == Init /\ [][Next]_vars
-----------------------------------------------------------------------------
(* Properties.                                                             *)

IPIntelDBTypeOK ==
    /\ db \in Database
    /\ query \in Addresses \cup {NoQuery}
    /\ next \in 1..(Len(db.blocks) + 1)
    /\ evidence \subseteq Evidence
    /\ asn \in Nat /\ asnRank \in 0..3
    /\ answer \in Categories \cup {Pending, NoVerdict}
    /\ given \in [Addresses -> SUBSET (Categories \cup {NoVerdict})]
    /\ Running => query \in Addresses

RecordAt(d, p) == RecordsOf(d.blocks[p[1]])[p[2]]

\* What the whole database has on an address: where, by block and place in it,
\* and the records there.
PlacesOn(d, a) ==
    UNION {{i} \X {j \in DOMAIN RecordsOf(d.blocks[i]) : Matches(RecordAt(d, <<i, j>>), a)} :
             i \in {b \in DOMAIN d.blocks : Readable(d.blocks[b])}}

RecordsOn(d, a) == {RecordAt(d, p) : p \in PlacesOn(d, a)}

NoLater(p, q) == p[1] < q[1] \/ (p[1] = q[1] /\ p[2] <= q[2])

\* A lookup fails exactly when a block that may hold the address cannot be read,
\* never over damage elsewhere; and one that succeeds has found every record on
\* the address, and the ASN of the first in the database of those that tell it best,
\* although it reads few blocks, compares the address with their headers only, and
\* keeps only the best of the ASNs it has met (db.go:160-207).
LookupComplete ==
    ~ Running /\ query # NoQuery =>
        IF \E block \in Range(db.blocks) : Covers(block, query) /\ ~ Readable(block)
        THEN answer = NoVerdict
        ELSE /\ answer # NoVerdict
             /\ evidence = {EvidenceOf(db, r) : r \in RecordsOn(db, query)}
             /\ \A r \in RecordsOn(db, query) : ASNRank(db, r) <= asnRank
             /\ IF asnRank = 0 THEN asn = 0
                ELSE \E p \in PlacesOn(db, query) :
                        /\ RecordAt(db, p).asn = asn /\ ASNRank(db, RecordAt(db, p)) = asnRank
                        /\ \A q \in PlacesOn(db, query) :
                             ASNRank(db, RecordAt(db, q)) = asnRank => NoLater(p, q)

\* The same address always gets the same verdict, although the categories leave a
\* map in random order and sort.Slice is not stable (score.go:80-96): otherwise a
\* client would pass the gate and be challenged by turns.
OneVerdict == \A a \in Addresses : \A v, w \in given[a] : v = w

\* "only IPs whose best-matching category is in challenge_categories get the PoW
\* flow; everyone else passes" (README.md:121): unless the lookup failed, an
\* address passes only if something unlisted is known of it that is as strong as
\* everything listed, up to the point lost in rounding, and is challenged only if
\* something listed is as strong as everything unlisted.
Outweighs(some, others) ==
    \A f \in others : \E e \in some : Strength(e) + 100 > Strength(f)

GateMeansBest ==
    ~ Running /\ answer # NoVerdict =>
        \A c \in {g \in Gates : g.mode = "challenge"} :
            LET known    == Counting({EvidenceOf(db, r) : r \in RecordsOn(db, query)}
                                       \cup BadASNEvidence(db, asn))
                listed   == {e \in known : e.category \in c.cats}
            IN  IF PassesVerdict(c, answer) THEN Outweighs(known \ listed, listed)
                ELSE Outweighs(listed, known \ listed)
================================================================================
