---------------------------- MODULE IPIntelDBProofs ----------------------------
(***************************************************************************)
(* What holds of IPIntelDB for all databases with truthful headers and all *)
(* addresses.                                                              *)
(***************************************************************************)
EXTENDS IPIntelDB, TLAPS, SequenceTheorems, WellFoundedInduction

-----------------------------------------------------------------------------
(* Types.                                                                  *)

LEMMA WeightType == ASSUME NEW c PROVE Weight(c) \in Nat
BY DEF Weight, CategoryWeights

LEMMA StrengthType ==
    ASSUME NEW e, e.confidence \in Nat
    PROVE  Capped(e.confidence) \in 0..100 /\ Strength(e) \in Nat /\ Points(e) \in Nat
<1>1. Capped(e.confidence) \in 0..100
    BY DEF Capped
<1>2. \A w, c \in Nat : w * c \in Nat
    OBVIOUS
<1>3. Strength(e) \in Nat
    BY <1>1, <1>2, WeightType DEF Strength
<1> QED
    BY <1>1, <1>3 DEF Points

\* What readBlock returns of a block that can be read (db.go:262, records.go:10).
LEMMA RecordsType ==
    ASSUME NEW d \in Database, NEW i \in DOMAIN d.blocks, Readable(d.blocks[i])
    PROVE  RecordsOf(d.blocks[i]) \in Seq(Record)
<1> DEFINE raw == d.blocks[i].raw
<1>1. d.blocks[i] \in Block
    BY DEF Database
<1>2. raw \in [length: Nat, count: Nat, records: Seq(Record)]
    BY <1>1 DEF Block, Readable
<1>3. raw.count \in Nat /\ raw.records \in Seq(Record) /\ raw.count <= Len(raw.records)
    BY <1>2 DEF Readable
<1>4. \A j \in 1..raw.count : raw.records[j] \in Record
    BY <1>3
<1> QED
    BY <1>3, <1>4, SubSeqProperties DEF RecordsOf

LEMMA EvidenceType ==
    ASSUME NEW d \in Database, NEW r \in Record
    PROVE  EvidenceOf(d, r) \in Evidence /\ ASNRank(d, r) \in 0..3
<1>1. /\ r.source \in Nat /\ r.category \in Categories /\ r.confidence \in 0..255 /\ r.asn \in Nat
      /\ d.sources \in Seq(Sources)
    BY DEF Record, Database
<1>2. SourceName(d, r.source) \in Sources \cup {Unnamed}
    BY <1>1 DEF SourceName
<1>3. EvidenceOf(d, r) \in Evidence
    <2>1. \A x \in 0..255 : x \in Nat
        OBVIOUS
    <2> QED
        BY <1>1, <1>2, <2>1 DEF EvidenceOf, Evidence
<1>4. ASNRank(d, r) \in 0..3
    BY <1>1, WeightType DEF ASNRank
<1> QED
    BY <1>3, <1>4

LEMMA BadASNType == ASSUME NEW d, NEW x PROVE BadASNEvidence(d, x) \subseteq Evidence
<1>1. "bad-asn-list" \in Sources /\ "hosting" \in Categories
    BY NamesAssumption DEF CategoryWeights
<1> QED
    BY <1>1 DEF BadASNEvidence, Evidence

LEMMA VerdictsType ==
    ASSUME NEW ev \in SUBSET Evidence
    PROVE  Verdicts(ev) \subseteq Categories
<1>1. \A e \in Heads(ev) : e.category \in Categories
    BY DEF Heads, Counting, Evidence
<1>2. "unknown" \in Categories
    BY NamesAssumption DEF CategoryWeights
<1> QED
    BY <1>1, <1>2 DEF Verdicts

-----------------------------------------------------------------------------
(* Weighing the evidence.                                                  *)

\* Every category that counts has a place of its own in categoryOrder (score.go:31).
LEMMA RankInjective ==
    ASSUME NEW c, NEW e, Weight(c) > 0, Weight(e) > 0, CategoryRank(c) = CategoryRank(e)
    PROVE  c = e
<1> DEFINE counted == {"tor", "residential_proxy", "vpn", "proxy", "relay", "hosting",
              "enterprise_gateway", "cdn", "business", "mobile", "education", "government"}
           places(x) == {i \in DOMAIN CategoryOrder : CategoryOrder[i] = x}
<1>1. c \in counted /\ e \in counted
    BY DEF Weight, CategoryWeights
<1>2. ASSUME NEW x \in counted
      PROVE  CategoryRank(x) \in places(x)
    <2>1. places(x) # {}
        <3>1. /\ CategoryOrder[1] = "tor" /\ CategoryOrder[2] = "residential_proxy"
              /\ CategoryOrder[3] = "vpn" /\ CategoryOrder[5] = "proxy"
              /\ CategoryOrder[6] = "relay" /\ CategoryOrder[7] = "hosting"
              /\ CategoryOrder[8] = "enterprise_gateway" /\ CategoryOrder[9] = "cdn"
              /\ CategoryOrder[10] = "business" /\ CategoryOrder[11] = "mobile"
              /\ CategoryOrder[12] = "education" /\ CategoryOrder[13] = "government"
              /\ DOMAIN CategoryOrder = 1..15
            BY DEF CategoryOrder
        <3> QED
            BY <3>1
    <2>2. (CHOOSE i \in places(x) : TRUE) \in places(x)
        BY <2>1
    <2> QED
        BY <2>1, <2>2 DEF CategoryRank
<1>3. CategoryOrder[CategoryRank(c)] = c /\ CategoryOrder[CategoryRank(e)] = e
    BY <1>1, <1>2
<1> QED
    BY <1>3

LEMMA RankType == ASSUME NEW c PROVE CategoryRank(c) \in Nat
<1>1. Len(CategoryOrder) = 15 /\ DOMAIN CategoryOrder = 1..15
    BY DEF CategoryOrder
<1> QED
    BY <1>1 DEF CategoryRank

LEMMA CountingType ==
    ASSUME NEW ev \in SUBSET Evidence, NEW e \in Counting(ev)
    PROVE  /\ e.confidence \in Nat
           /\ Weight(e.category) > 0
           /\ Points(e) \in Nat /\ Strength(e) \in Nat
           /\ Capped(e.confidence) \in 0..100
<1>1. e.confidence \in Nat /\ Strength(e) > 0
    BY DEF Counting, Evidence
<1>2. Weight(e.category) # 0
    <2>1. \A x \in Nat : 0 * x = 0
        OBVIOUS
    <2> QED
        BY <1>1, <2>1, StrengthType DEF Strength
<1> QED
    BY <1>1, <1>2, StrengthType, WeightType

\* Whatever order the categories come in, one verdict: of two that do not precede
\* each other the ranks are equal (score.go:91).
LEMMA VerdictUnique ==
    ASSUME NEW ev \in SUBSET Evidence, NEW v \in Verdicts(ev), NEW w \in Verdicts(ev)
    PROVE  v = w
<1>1. CASE Counting(ev) = {}
    BY <1>1 DEF Verdicts
<1>2. CASE Counting(ev) # {}
    <2>1. PICK e \in Heads(ev) : e.category = v /\ \A g \in Heads(ev) : ~ Precedes(g, e)
        BY <1>2 DEF Verdicts
    <2>2. PICK f \in Heads(ev) : f.category = w /\ \A g \in Heads(ev) : ~ Precedes(g, f)
        BY <1>2 DEF Verdicts
    <2>3. e \in Counting(ev) /\ f \in Counting(ev)
        BY DEF Heads
    <2>4. CategoryRank(e.category) = CategoryRank(f.category)
        BY <2>1, <2>2, <2>3, CountingType, RankType DEF Precedes
    <2> QED
        BY <2>1, <2>2, <2>3, <2>4, CountingType, RankInjective
<1> QED
    BY <1>1, <1>2

\* The verdict weighs as much as any evidence, but for what rounding loses.
LEMMA VerdictHeaviest ==
    ASSUME NEW ev \in SUBSET Evidence, NEW v \in Verdicts(ev), NEW f \in Counting(ev)
    PROVE  \E e \in Counting(ev) : e.category = v /\ Strength(e) + 100 > Strength(f)
<1> DEFINE alike == {e \in Counting(ev) : e.category = f.category}
           short(e) == 100 - Capped(e.confidence)
           shorts == {short(e) : e \in alike}
<1>1. \E g \in alike : \A e \in alike : Capped(e.confidence) <= Capped(g.confidence)
    <2>1. shorts \subseteq Nat /\ shorts # {}
        BY CountingType
    <2>2. PICK m \in shorts : \A x \in shorts : ~ (<<x, m>> \in OpToRel(<, Nat))
        BY <2>1, WFMin, NatLessThanWellFounded
    <2>3. \A x \in shorts : ~ (x < m)
        BY <2>1, <2>2 DEF OpToRel
    <2>4. PICK g \in alike : m = short(g)
        BY <2>2
    <2>5. ASSUME NEW e \in alike PROVE Capped(e.confidence) <= Capped(g.confidence)
        <3>1. ~ (short(e) < short(g))
            BY <2>3, <2>4
        <3> QED
            BY <3>1, CountingType
    <2> QED
        BY <2>5
<1>2. PICK g \in alike : \A e \in alike : Capped(e.confidence) <= Capped(g.confidence)
    BY <1>1
<1>3. g \in Heads(ev)
    BY <1>2 DEF Heads
<1>4. PICK e \in Heads(ev) : e.category = v /\ ~ Precedes(g, e)
    BY <1>3 DEF Verdicts
<1>5. e \in Counting(ev)
    BY DEF Heads
<1>6. Strength(f) <= Strength(g)
    <2>1. \A w, x, y \in Nat : x <= y => w * x <= w * y
        OBVIOUS
    <2>2. Weight(f.category) \in Nat /\ g.category = f.category
        BY WeightType
    <2> QED
        BY <1>2, <2>1, <2>2, CountingType DEF Strength
<1>7. Points(g) <= Points(e)
    BY <1>4, <1>5, CountingType DEF Precedes
<1>8. Strength(g) < Strength(e) + 100
    <2>1. Strength(g) \in Nat /\ Strength(e) \in Nat
        BY <1>5, CountingType
    <2>2. \A x, y \in Nat : (x + 50) \div 100 <= (y + 50) \div 100 => x < y + 100
        OBVIOUS
    <2> QED
        BY <1>7, <2>1, <2>2 DEF Points
<1>9. Strength(f) \in Nat /\ Strength(g) \in Nat /\ Strength(e) \in Nat
    BY <1>5, CountingType
<1> QED
    BY <1>4, <1>5, <1>6, <1>8, <1>9
-----------------------------------------------------------------------------
(* The loop.  What it has after the blocks before n depends on the database *)
(* and the address alone.                                                  *)

Covering(d, a, n) == {i \in 1..(n - 1) : i \in DOMAIN d.blocks /\ Covers(d.blocks[i], a)}

Found(d, a, n) == UNION {EvidenceIn(d, RecordsOf(d.blocks[i]), a) : i \in Covering(d, a, n)}

\* The records with an ASN, by block and place in it, and their ranks.
Claims(d, a, n) ==
    {p \in Covering(d, a, n) \X Nat :
        /\ p[2] \in DOMAIN RecordsOf(d.blocks[p[1]])
        /\ Matches(RecordsOf(d.blocks[p[1]])[p[2]], a)}

RankAt(d, p) == ASNRank(d, RecordAt(d, p))

\* p comes first: a higher rank, or an earlier place.
First(d, p, q) ==
    \/ RankAt(d, q) < RankAt(d, p)
    \/ /\ RankAt(d, q) = RankAt(d, p)
       /\ NoLater(p, q)

Tells(d, a, n, x, rank) ==
    \/ x = 0 /\ rank = 0 /\ \A q \in Claims(d, a, n) : RankAt(d, q) = 0
    \/ \E p \in Claims(d, a, n) :
          /\ RankAt(d, p) > 0 /\ rank = RankAt(d, p) /\ x = RecordAt(d, p).asn
          /\ \A q \in Claims(d, a, n) : First(d, p, q)

Broken(d, a) == \E i \in DOMAIN d.blocks : Covers(d.blocks[i], a) /\ ~ Readable(d.blocks[i])

\* What the lookup of a may answer.
Outcome(d, a, verdict) ==
    IF Broken(d, a) THEN verdict = NoVerdict
    ELSE \E x, rank \in Nat :
            /\ Tells(d, a, Len(d.blocks) + 1, x, rank)
            /\ verdict \in Verdicts(Found(d, a, Len(d.blocks) + 1) \cup BadASNEvidence(d, x))

Looped(n) ==
    /\ \A i \in Covering(db, query, n) : Readable(db.blocks[i])
    /\ evidence = Found(db, query, n)
    /\ Tells(db, query, n, asn, asnRank)

LoopInv ==
    /\ db \in Databases
    /\ query = NoQuery => answer = NoVerdict
    /\ Running => Looped(next)
    /\ ~ Running /\ query # NoQuery =>
         IF Broken(db, query) THEN answer = NoVerdict
         ELSE /\ Looped(Len(db.blocks) + 1)
              /\ answer \in Verdicts(evidence \cup BadASNEvidence(db, asn))
    /\ \A a \in Addresses : \A verdict \in given[a] : Outcome(db, a, verdict)

Inv == IPIntelDBTypeOK /\ LoopInv

LEMMA DatabaseType == ASSUME NEW d \in Databases PROVE d \in Database
BY DatabaseAssumption

LEMMA CoveringStep ==
    ASSUME NEW d \in Database, NEW a, NEW n \in 1..Len(d.blocks)
    PROVE  /\ Covers(d.blocks[n], a) => Covering(d, a, n + 1) = Covering(d, a, n) \cup {n}
           /\ ~ Covers(d.blocks[n], a) => Covering(d, a, n + 1) = Covering(d, a, n)
<1>1. d.blocks \in Seq(Block)
    BY DEF Database
<1>2. DOMAIN d.blocks = 1..Len(d.blocks) /\ Len(d.blocks) \in Nat
    BY <1>1
<1> QED
    BY <1>2 DEF Covering

\* A block that is skipped changes nothing, and one that is read adds its own.
LEMMA FoundStep ==
    ASSUME NEW d \in Database, NEW a, NEW n \in 1..Len(d.blocks)
    PROVE  /\ Covers(d.blocks[n], a) =>
                Found(d, a, n + 1) = Found(d, a, n) \cup EvidenceIn(d, RecordsOf(d.blocks[n]), a)
           /\ ~ Covers(d.blocks[n], a) =>
                Found(d, a, n + 1) = Found(d, a, n) /\ Claims(d, a, n + 1) = Claims(d, a, n)
<1>1. CASE Covers(d.blocks[n], a)
    BY <1>1, CoveringStep DEF Found
<1>2. CASE ~ Covers(d.blocks[n], a)
    BY <1>2, CoveringStep DEF Found, Claims
<1> QED
    BY <1>1, <1>2

LEMMA ClaimsStep ==
    ASSUME NEW d \in Database, NEW a, NEW n \in 1..Len(d.blocks),
           Covers(d.blocks[n], a), Readable(d.blocks[n])
    PROVE  LET rs == RecordsOf(d.blocks[n])
           IN  Claims(d, a, n + 1) =
                 Claims(d, a, n) \cup {<<n, j>> : j \in {k \in DOMAIN rs : Matches(rs[k], a)}}
<1> DEFINE rs == RecordsOf(d.blocks[n])
           new == {<<n, j>> : j \in {k \in DOMAIN rs : Matches(rs[k], a)}}
<1>1. n \in DOMAIN d.blocks
    BY DEF Database
<1>2. DOMAIN rs \subseteq Nat
    BY <1>1, RecordsType
<1>3. Covering(d, a, n + 1) = Covering(d, a, n) \cup {n}
    BY CoveringStep
<1>4. ASSUME NEW p \in Claims(d, a, n + 1)
      PROVE  p \in Claims(d, a, n) \cup new
    BY <1>3, <1>4 DEF Claims
<1>5. ASSUME NEW p \in Claims(d, a, n) \cup new
      PROVE  p \in Claims(d, a, n + 1)
    BY <1>2, <1>3, <1>5 DEF Claims
<1> QED
    BY <1>4, <1>5

LEMMA ClaimType ==
    ASSUME NEW d \in Database, NEW a, NEW n \in Nat,
           \A i \in Covering(d, a, n) : Readable(d.blocks[i]),
           NEW p \in Claims(d, a, n)
    PROVE  /\ p[1] \in 1..(n - 1) /\ p[2] \in Nat
           /\ RecordAt(d, p) \in Record
           /\ Matches(RecordAt(d, p), a)
           /\ RankAt(d, p) \in 0..3
<1>1. p[1] \in Covering(d, a, n) /\ p[2] \in Nat
      /\ p[2] \in DOMAIN RecordsOf(d.blocks[p[1]])
      /\ Matches(RecordsOf(d.blocks[p[1]])[p[2]], a)
    BY DEF Claims
<1>2. p[1] \in 1..(n - 1) /\ p[1] \in DOMAIN d.blocks
    BY <1>1 DEF Covering
<1>3. RecordAt(d, p) \in Record
    BY <1>1, <1>2, RecordsType DEF RecordAt
<1> QED
    BY <1>1, <1>2, <1>3, EvidenceType DEF RecordAt, RankAt

\* The ASN is that of the first record of the highest rank, over all blocks.
LEMMA TellsStep ==
    ASSUME db \in Database, next \in 1..Len(db.blocks), Looped(next), asnRank \in 0..3,
           Covers(db.blocks[next], query), Readable(db.blocks[next]),
           TakeASN(RecordsOf(db.blocks[next]))
    PROVE  Tells(db, query, next + 1, asn', asnRank')
<1> DEFINE rs == RecordsOf(db.blocks[next])
           old == Claims(db, query, next)
           new == {<<next, j>> : j \in {k \in DOMAIN rs : Matches(rs[k], query)}}
           claims == {i \in DOMAIN rs : Matches(rs[i], query) /\ ASNRank(db, rs[i]) > asnRank}
<1>1. Claims(db, query, next + 1) = old \cup new
    BY ClaimsStep
<1>2. \A p \in old : p[1] \in 1..(next - 1) /\ p[2] \in Nat /\ RankAt(db, p) \in 0..3
    BY ClaimType DEF Looped
<1>3. next \in DOMAIN db.blocks
    BY DEF Database
<1>4. \A j \in DOMAIN rs : j \in Nat /\ rs[j] \in Record /\ ASNRank(db, rs[j]) \in 0..3
    BY <1>3, RecordsType, EvidenceType
<1>5. \A j \in DOMAIN rs :
         /\ RankAt(db, <<next, j>>) = ASNRank(db, rs[j])
         /\ RecordAt(db, <<next, j>>) = rs[j]
    BY DEF RankAt, RecordAt
<1>6. \A q \in new : \E j \in DOMAIN rs :
         q = <<next, j>> /\ Matches(rs[j], query) /\ RankAt(db, q) = ASNRank(db, rs[j])
    BY <1>5
<1>7. Tells(db, query, next, asn, asnRank)
    BY DEF Looped
<1>8. \A q \in old : RankAt(db, q) <= asnRank
    <2>1. CASE asnRank = 0 /\ \A q \in old : RankAt(db, q) = 0
        BY <2>1
    <2>2. CASE \E p \in old : asnRank = RankAt(db, p) /\ \A q \in old : First(db, p, q)
        BY <1>2, <2>2 DEF First, NoLater
    <2> QED
        BY <1>7, <2>1, <2>2 DEF Tells
<1>9. CASE claims = {}
    <2>1. asn' = asn /\ asnRank' = asnRank
        BY <1>9 DEF TakeASN
    <2>2. \A q \in new : RankAt(db, q) \in 0..3 /\ RankAt(db, q) <= asnRank /\ q[1] = next
        BY <1>4, <1>6, <1>9
    <2>3. CASE asn = 0 /\ asnRank = 0 /\ \A q \in old : RankAt(db, q) = 0
        <3>1. \A q \in old \cup new : RankAt(db, q) = 0
            BY <2>2, <2>3
        <3> QED
            BY <1>1, <2>1, <2>3, <3>1 DEF Tells
    <2>4. ASSUME NEW p \in old,
                 RankAt(db, p) > 0 /\ asnRank = RankAt(db, p) /\ asn = RecordAt(db, p).asn,
                 \A q \in old : First(db, p, q)
          PROVE  Tells(db, query, next + 1, asn', asnRank')
        <3>1. \A q \in new : First(db, p, q)
            BY <1>2, <2>2, <2>4 DEF First, NoLater
        <3>2. p \in old \cup new /\ \A q \in old \cup new : First(db, p, q)
            BY <2>4, <3>1
        <3> QED
            BY <1>1, <2>1, <2>4, <3>2 DEF Tells
    <2> QED
        BY <1>7, <2>3, <2>4 DEF Tells
<1>10. CASE claims # {}
    <2>1. PICK i \in claims :
            /\ \A j \in claims :
                 \/ ASNRank(db, rs[i]) > ASNRank(db, rs[j])
                 \/ ASNRank(db, rs[i]) = ASNRank(db, rs[j]) /\ i <= j
            /\ asn' = rs[i].asn /\ asnRank' = ASNRank(db, rs[i])
        BY <1>10 DEF TakeASN
    <2> DEFINE p == <<next, i>>
    <2>2. p \in new /\ p[1] = next /\ p[2] = i
        OBVIOUS
    <2>3. RankAt(db, p) = ASNRank(db, rs[i]) /\ RecordAt(db, p) = rs[i]
        BY <1>5
    <2>4. RankAt(db, p) \in 0..3 /\ RankAt(db, p) > asnRank /\ RankAt(db, p) > 0
        BY <1>4, <2>3
    <2> HIDE DEF p
    <2>5. \A q \in old : First(db, p, q)
        BY <1>2, <1>8, <2>4 DEF First, NoLater
    <2>6. ASSUME NEW q \in new PROVE First(db, p, q)
        <3>1. PICK j \in DOMAIN rs :
                q = <<next, j>> /\ Matches(rs[j], query) /\ RankAt(db, q) = ASNRank(db, rs[j])
            BY <1>6
        <3>2. q[1] = next /\ q[2] = j
            BY <3>1
        <3>3. CASE j \in claims
            BY <1>4, <2>1, <2>2, <2>3, <3>1, <3>2, <3>3 DEF First, NoLater
        <3>4. CASE j \notin claims
            BY <1>4, <2>4, <3>1, <3>4 DEF First, NoLater
        <3> QED
            BY <3>3, <3>4
    <2>7. p \in old \cup new /\ \A q \in old \cup new : First(db, p, q)
        BY <2>2, <2>5, <2>6
    <2> QED
        BY <1>1, <2>1, <2>3, <2>4, <2>7 DEF Tells
<1> QED
    BY <1>9, <1>10

\* Two readings of the same records tell the same ASN.
LEMMA TellsUnique ==
    ASSUME NEW d \in Database, NEW a, NEW n \in Nat,
           \A i \in Covering(d, a, n) : Readable(d.blocks[i]),
           NEW x, NEW y, NEW rank, NEW other,
           Tells(d, a, n, x, rank), Tells(d, a, n, y, other)
    PROVE  x = y
<1>1. \A p \in Claims(d, a, n) :
         p[1] \in 1..(n - 1) /\ p[2] \in Nat /\ RankAt(d, p) \in 0..3
    BY ClaimType
<1>2. ASSUME NEW p \in Claims(d, a, n), NEW q \in Claims(d, a, n),
             First(d, p, q), First(d, q, p)
      PROVE  RecordAt(d, p) = RecordAt(d, q)
    <2>1. p[1] = q[1] /\ p[2] = q[2]
        BY <1>1, <1>2 DEF First, NoLater
    <2> QED
        BY <2>1 DEF RecordAt
<1> QED
    BY <1>1, <1>2 DEF Tells

\* So there is one answer to an address.
LEMMA FoundType ==
    ASSUME NEW d \in Database, NEW a, NEW n \in Nat,
           \A i \in Covering(d, a, n) : Readable(d.blocks[i])
    PROVE  Found(d, a, n) \subseteq Evidence
<1>1. ASSUME NEW i \in Covering(d, a, n)
      PROVE  EvidenceIn(d, RecordsOf(d.blocks[i]), a) \subseteq Evidence
    <2>1. i \in DOMAIN d.blocks /\ Readable(d.blocks[i])
        BY DEF Covering
    <2> QED
        BY <2>1, RecordsType, EvidenceType DEF EvidenceIn
<1> QED
    BY <1>1 DEF Found

LEMMA OutcomeUnique ==
    ASSUME NEW d \in Database, NEW a, NEW v, NEW w, Outcome(d, a, v), Outcome(d, a, w)
    PROVE  v = w
<1> DEFINE n == Len(d.blocks) + 1
<1>1. CASE Broken(d, a)
    BY <1>1 DEF Outcome
<1>2. CASE ~ Broken(d, a)
    <2>1. \A i \in Covering(d, a, n) : Readable(d.blocks[i])
        BY <1>2 DEF Broken, Covering
    <2>2. n \in Nat
        BY DEF Database
    <2> HIDE DEF n
    <2>3. PICK x \in Nat, rank \in Nat :
            Tells(d, a, n, x, rank) /\ v \in Verdicts(Found(d, a, n) \cup BadASNEvidence(d, x))
        BY <1>2 DEF Outcome, n
    <2>4. PICK y \in Nat, other \in Nat :
            Tells(d, a, n, y, other) /\ w \in Verdicts(Found(d, a, n) \cup BadASNEvidence(d, y))
        BY <1>2 DEF Outcome, n
    <2>5. x = y
        BY <2>1, <2>2, <2>3, <2>4, TellsUnique
    <2>6. Found(d, a, n) \cup BadASNEvidence(d, x) \in SUBSET Evidence
        BY <2>1, <2>2, FoundType, BadASNType
    <2> QED
        BY <2>3, <2>4, <2>5, <2>6, VerdictUnique
<1> QED
    BY <1>1, <1>2

-----------------------------------------------------------------------------
(* The invariant.                                                          *)

LEMMA InvInit == Init => Inv
<1> SUFFICES ASSUME Init PROVE Inv
    OBVIOUS
<1> USE DEF Init
<1>1. db \in Database /\ Len(db.blocks) \in Nat
    BY DatabaseType DEF Database
<1>2. ~ Running
    BY DatabaseAssumption DEF Running
<1>3. IPIntelDBTypeOK
    BY <1>1, <1>2 DEF IPIntelDBTypeOK
<1> QED
    BY <1>2, <1>3 DEF Inv, LoopInv

\* The answer that ends a lookup is one of its outcomes.
LEMMA AnswerStep ==
    ASSUME Inv, Running, NEW verdict \in Categories \cup {NoVerdict}, Answer(verdict),
           Outcome(db, query, verdict),
           IF Broken(db, query) THEN verdict = NoVerdict
           ELSE /\ Looped(Len(db.blocks) + 1)
                /\ verdict \in Verdicts(evidence \cup BadASNEvidence(db, asn))
    PROVE  Inv'
<1> USE DEF Inv, Answer
<1>1. query \in Addresses /\ given \in [Addresses -> SUBSET (Categories \cup {NoVerdict})]
    BY DEF IPIntelDBTypeOK
<1>2. given'[query] = given[query] \cup {verdict}
      /\ \A a \in Addresses \ {query} : given'[a] = given[a]
    BY <1>1
<1>3. ~ Running'
    BY DatabaseAssumption DEF Running
<1>4. IPIntelDBTypeOK'
    <2>1. given' \in [Addresses -> SUBSET (Categories \cup {NoVerdict})]
        BY <1>1, <1>2
    <2> QED
        BY <1>3, <2>1 DEF IPIntelDBTypeOK
<1>5. \A a \in Addresses : \A v \in given'[a] : Outcome(db, a, v)
    BY <1>1, <1>2 DEF LoopInv
<1>6. (Looped(Len(db.blocks) + 1))' <=> Looped(Len(db.blocks) + 1)
    BY DEF Looped
<1>7. LoopInv'
    BY <1>1, <1>3, <1>5, <1>6, DatabaseAssumption DEF LoopInv
<1> QED
    BY <1>4, <1>7

LEMMA InvNext == Inv /\ [Next]_vars => Inv'
<1> SUFFICES ASSUME Inv, [Next]_vars PROVE Inv'
    OBVIOUS
<1> USE DEF Inv
<1>1. db \in Databases /\ db \in Database /\ Len(db.blocks) \in Nat
      /\ DOMAIN db.blocks = 1..Len(db.blocks) /\ next \in 1..(Len(db.blocks) + 1)
    <2>1. db \in Databases /\ db \in Database
        BY DatabaseType DEF LoopInv
    <2>2. db.blocks \in Seq(Block)
        BY <2>1 DEF Database
    <2> QED
        BY <2>1, <2>2 DEF IPIntelDBTypeOK
<1>2. CASE UNCHANGED vars
    BY <1>2 DEF vars, IPIntelDBTypeOK, LoopInv, Looped, Running
<1>3. ASSUME NEW a \in Addresses, Begin(a) PROVE Inv'
    <2> USE <1>3 DEF Begin
    <2>1. Covering(db, a, 1) = {} /\ Found(db, a, 1) = {} /\ Claims(db, a, 1) = {}
        BY DEF Covering, Found, Claims
    <2>2. Looped(next)'
        BY <2>1 DEF Looped, Tells
    <2>3. Running'
        BY DEF Running
    <2>4. IPIntelDBTypeOK'
        BY <1>1, <2>3 DEF IPIntelDBTypeOK
    <2>5. LoopInv'
        BY <2>2, <2>3, DatabaseAssumption DEF LoopInv
    <2> QED
        BY <2>4, <2>5
<1>4. CASE Skip
    <2> USE <1>4 DEF Skip
    <2>1. next \in 1..Len(db.blocks) /\ ~ Covers(db.blocks[next], query)
        BY <1>1
    <2>2. Covering(db, query, next + 1) = Covering(db, query, next)
        BY <1>1, <2>1, CoveringStep
    <2>3. /\ Found(db, query, next + 1) = Found(db, query, next)
          /\ Claims(db, query, next + 1) = Claims(db, query, next)
        BY <1>1, <2>1, FoundStep
    <2>4. Looped(next)
        BY DEF LoopInv
    <2>5. Looped(next)'
        BY <2>2, <2>3, <2>4 DEF Looped, Tells
    <2>6. Running' /\ Running
        BY DEF Running
    <2>7. IPIntelDBTypeOK'
        BY <1>1, <2>1, <2>6 DEF IPIntelDBTypeOK
    <2>8. LoopInv'
        BY <2>5, <2>6 DEF LoopInv
    <2> QED
        BY <2>7, <2>8
<1>5. CASE Scan
    <2> DEFINE rs == RecordsOf(db.blocks[next])
    <2>1. /\ next \in 1..Len(db.blocks) /\ Covers(db.blocks[next], query)
          /\ Readable(db.blocks[next])
          /\ evidence' = evidence \cup EvidenceIn(db, rs, query) /\ TakeASN(rs)
          /\ next' = next + 1 /\ UNCHANGED <<db, query, answer, given>>
          /\ Running /\ Running'
        BY <1>1, <1>5 DEF Scan, Running
    <2>2. Looped(next)
        BY <2>1 DEF LoopInv
    <2>3. Covering(db, query, next + 1) = Covering(db, query, next) \cup {next}
        <3>1. next \in 1..Len(db.blocks) /\ Covers(db.blocks[next], query)
            BY <2>1
        <3> HIDE <2>1
        <3> QED
            BY <1>1, <3>1, CoveringStep
    <2>4. Found(db, query, next + 1) = evidence'
        BY <1>1, <2>1, <2>2, FoundStep DEF Looped
    <2>5. Tells(db, query, next + 1, asn', asnRank')
        BY <1>1, <2>1, <2>2, TellsStep DEF IPIntelDBTypeOK
    <2>6. Looped(next)'
        BY <2>1, <2>2, <2>3, <2>4, <2>5 DEF Looped
    <2>7. \A j \in DOMAIN rs : rs[j] \in Record
        BY <1>1, <2>1, RecordsType
    <2>8. EvidenceIn(db, rs, query) \subseteq Evidence
        BY <1>1, <2>7, EvidenceType DEF EvidenceIn
    <2>9. asn' \in Nat /\ asnRank' \in 0..3
        <3>1. \A j \in DOMAIN rs : rs[j].asn \in Nat /\ ASNRank(db, rs[j]) \in 0..3
            BY <1>1, <2>7, EvidenceType DEF Record
        <3>2. asn \in Nat /\ asnRank \in 0..3
            BY DEF IPIntelDBTypeOK
        <3>3. TakeASN(rs)
            BY <2>1
        <3> HIDE DEF rs
        <3>4. \/ asn' = asn /\ asnRank' = asnRank
              \/ \E i \in DOMAIN rs : asn' = rs[i].asn /\ asnRank' = ASNRank(db, rs[i])
            BY <3>3 DEF TakeASN
        <3> QED
            BY <3>1, <3>2, <3>4
    <2>10. IPIntelDBTypeOK'
        BY <1>1, <2>1, <2>8, <2>9 DEF IPIntelDBTypeOK
    <2>11. LoopInv'
        BY <2>1, <2>6 DEF LoopInv
    <2> QED
        BY <2>10, <2>11
<1>6. CASE Fail
    <2>1. Broken(db, query)
        BY <1>1, <1>6 DEF Fail, Broken
    <2>2. Outcome(db, query, NoVerdict)
        BY <2>1 DEF Outcome
    <2> QED
        BY <1>6, <2>1, <2>2, AnswerStep DEF Fail
<1>7. CASE Conclude
    <2> DEFINE ev == evidence \cup BadASNEvidence(db, asn)
    <2>1. PICK verdict \in Verdicts(ev) : Answer(verdict)
        BY <1>7 DEF Conclude
    <2>2. Running /\ next = Len(db.blocks) + 1 /\ Looped(next)
        BY <1>1, <1>7 DEF Conclude, LoopInv
    <2>3. ~ Broken(db, query)
        BY <1>1, <2>2 DEF Looped, Broken, Covering
    <2>4. evidence \subseteq Evidence /\ asn \in Nat /\ asnRank \in Nat
        BY DEF IPIntelDBTypeOK
    <2>5. verdict \in Categories
        BY <2>4, BadASNType, VerdictsType
    <2>6. Outcome(db, query, verdict)
        BY <2>1, <2>2, <2>3, <2>4 DEF Outcome, Looped
    <2> QED
        BY <2>1, <2>2, <2>3, <2>5, <2>6, AnswerStep
<1> QED
    BY <1>2, <1>3, <1>4, <1>5, <1>6, <1>7 DEF Next

LEMMA SpecInv == Spec => []Inv
<1> QED
    BY InvInit, InvNext, PTL DEF Spec

\* Types: evidence, ASN, rank and verdicts stay what they should be, whatever is in
\* the database (db.go:145).
THEOREM IPIntelDBTypeCorrect == Spec => []IPIntelDBTypeOK
<1>1. Inv => IPIntelDBTypeOK
    BY DEF Inv
<1> QED
    BY <1>1, SpecInv, PTL

\* An address never gets two verdicts (score.go:80-96, db.go:203).
THEOREM OneVerdictAlways == Spec => []OneVerdict
<1>1. Inv => OneVerdict
    BY OutcomeUnique, DatabaseType DEF Inv, LoopInv, OneVerdict
<1> QED
    BY <1>1, SpecInv, PTL

\* The records on an address are those that the loop claims: as the headers are
\* truthful, each lies in a block that covers the address.
LEMMA PlacesClaimed ==
    ASSUME NEW d \in Databases, NEW a \in Addresses, ~ Broken(d, a)
    PROVE  PlacesOn(d, a) = Claims(d, a, Len(d.blocks) + 1)
<1> DEFINE n == Len(d.blocks) + 1
<1>1. d \in Database /\ DOMAIN d.blocks = 1..Len(d.blocks) /\ Len(d.blocks) \in Nat
    BY DatabaseType DEF Database
<1>2. \A i \in DOMAIN d.blocks :
         i \in Covering(d, a, n) <=> Covers(d.blocks[i], a)
    BY <1>1 DEF Covering
<1>3. ASSUME NEW i \in DOMAIN d.blocks, Readable(d.blocks[i]),
             NEW j \in DOMAIN RecordsOf(d.blocks[i]), Matches(RecordsOf(d.blocks[i])[j], a)
      PROVE  <<i, j>> \in Claims(d, a, n)
    <2> DEFINE r == RecordsOf(d.blocks[i])[j]
    <2>1. RecordsOf(d.blocks[i]) \in Seq(Record)
        BY <1>1, <1>3, RecordsType
    <2>2. j \in Nat /\ r \in Record
        BY <2>1
    <2>3. Covers(d.blocks[i], a)
        <3>1. r.family = d.blocks[i].family /\ d.blocks[i].first <= r.start
              /\ r.end <= d.blocks[i].max
            <4>1. Truthful(d.blocks[i]) /\ Readable(d.blocks[i])
                BY <1>3, DatabaseAssumption
            <4>2. \A k \in DOMAIN RecordsOf(d.blocks[i]) :
                    /\ RecordsOf(d.blocks[i])[k].family = d.blocks[i].family
                    /\ d.blocks[i].first <= RecordsOf(d.blocks[i])[k].start
                    /\ RecordsOf(d.blocks[i])[k].end <= d.blocks[i].max
                BY <4>1, Zenon DEF Truthful
            <4> QED
                BY <4>2
        <3>2. d.blocks[i].first \in Nat /\ d.blocks[i].max \in Nat
              /\ r.start \in Nat /\ r.end \in Nat /\ a.key \in Nat
            <4>1. d.blocks[i] \in Block
                BY <1>1 DEF Database
            <4>2. a \in Address
                BY DatabaseAssumption
            <4> HIDE DEF r
            <4> QED
                BY <2>2, <4>1, <4>2 DEF Block, Record, Address
        <3> QED
            BY <1>3, <3>1, <3>2 DEF Matches, Covers
    <2> QED
        BY <1>2, <1>3, <2>2, <2>3 DEF Claims
<1>4. ASSUME NEW p \in PlacesOn(d, a) PROVE p \in Claims(d, a, n)
    <2>1. PICK i \in DOMAIN d.blocks :
            /\ Readable(d.blocks[i])
            /\ p \in {i} \X {j \in DOMAIN RecordsOf(d.blocks[i]) : Matches(RecordAt(d, <<i, j>>), a)}
        BY DEF PlacesOn
    <2>2. PICK j \in DOMAIN RecordsOf(d.blocks[i]) :
            p = <<i, j>> /\ Matches(RecordAt(d, <<i, j>>), a)
        BY <2>1
    <2>3. Matches(RecordsOf(d.blocks[i])[j], a)
        BY <2>2 DEF RecordAt
    <2> QED
        BY <1>3, <2>1, <2>2, <2>3
<1>5. ASSUME NEW p \in Claims(d, a, n) PROVE p \in PlacesOn(d, a)
    <2>1. /\ p = <<p[1], p[2]>>
          /\ p[1] \in DOMAIN d.blocks /\ Covers(d.blocks[p[1]], a)
          /\ p[2] \in DOMAIN RecordsOf(d.blocks[p[1]])
          /\ Matches(RecordAt(d, <<p[1], p[2]>>), a)
        BY DEF Claims, Covering, RecordAt
    <2>2. Readable(d.blocks[p[1]])
        BY <2>1 DEF Broken
    <2> QED
        BY <2>1, <2>2 DEF PlacesOn
<1> QED
    BY <1>4, <1>5

LEMMA EvidenceFound ==
    ASSUME NEW d \in Databases, NEW a \in Addresses, ~ Broken(d, a)
    PROVE  Found(d, a, Len(d.blocks) + 1) = {EvidenceOf(d, r) : r \in RecordsOn(d, a)}
<1> DEFINE n == Len(d.blocks) + 1
           claimed == {EvidenceOf(d, RecordAt(d, p)) : p \in Claims(d, a, n)}
<1>1. \A i \in Covering(d, a, n) : DOMAIN RecordsOf(d.blocks[i]) \subseteq Nat
    <2>1. d \in Database
        BY DatabaseType
    <2>2. \A i \in Covering(d, a, n) : i \in DOMAIN d.blocks /\ Readable(d.blocks[i])
        BY DEF Covering, Broken
    <2> QED
        BY <2>1, <2>2, RecordsType
<1>2. ASSUME NEW e \in Found(d, a, n) PROVE e \in claimed
    <2>1. PICK i \in Covering(d, a, n) : e \in EvidenceIn(d, RecordsOf(d.blocks[i]), a)
        BY DEF Found
    <2>2. PICK j \in DOMAIN RecordsOf(d.blocks[i]) :
            /\ Matches(RecordsOf(d.blocks[i])[j], a)
            /\ e = EvidenceOf(d, RecordsOf(d.blocks[i])[j])
        BY <2>1 DEF EvidenceIn
    <2>3. <<i, j>> \in Claims(d, a, n) /\ RecordAt(d, <<i, j>>) = RecordsOf(d.blocks[i])[j]
        BY <1>1, <2>1, <2>2 DEF Claims, RecordAt
    <2> QED
        BY <2>2, <2>3
<1>3. ASSUME NEW p \in Claims(d, a, n) PROVE EvidenceOf(d, RecordAt(d, p)) \in Found(d, a, n)
    <2> DEFINE rs == RecordsOf(d.blocks[p[1]])
    <2>1. p[1] \in Covering(d, a, n) /\ p[2] \in DOMAIN rs /\ Matches(rs[p[2]], a)
        BY DEF Claims
    <2>2. EvidenceOf(d, rs[p[2]]) \in EvidenceIn(d, rs, a)
        BY <2>1 DEF EvidenceIn
    <2>3. EvidenceOf(d, rs[p[2]]) \in Found(d, a, n)
        BY <2>1, <2>2 DEF Found
    <2> QED
        BY <2>3 DEF RecordAt
<1>4. claimed = {EvidenceOf(d, r) : r \in RecordsOn(d, a)}
    BY PlacesClaimed DEF RecordsOn
<1> QED
    BY <1>2, <1>3, <1>4

\* A lookup reads every record on the address, and fails only over a block that may
\* hold the address (db.go:160-176).
LEMMA InvComplete == Inv => LookupComplete
<1> SUFFICES ASSUME Inv, ~ Running, query # NoQuery
             PROVE  IF \E block \in Range(db.blocks) : Covers(block, query) /\ ~ Readable(block)
                    THEN answer = NoVerdict
                    ELSE /\ answer # NoVerdict
                         /\ evidence = {EvidenceOf(db, r) : r \in RecordsOn(db, query)}
                         /\ \A r \in RecordsOn(db, query) : ASNRank(db, r) <= asnRank
                         /\ IF asnRank = 0 THEN asn = 0
                            ELSE \E p \in PlacesOn(db, query) :
                                    /\ RecordAt(db, p).asn = asn
                                    /\ ASNRank(db, RecordAt(db, p)) = asnRank
                                    /\ \A q \in PlacesOn(db, query) :
                                         ASNRank(db, RecordAt(db, q)) = asnRank => NoLater(p, q)
    BY DEF LookupComplete
<1> DEFINE n == Len(db.blocks) + 1
<1>1. query \in Addresses /\ db \in Databases /\ evidence \in SUBSET Evidence
    BY DEF Inv, IPIntelDBTypeOK, LoopInv
<1>2. Broken(db, query) <=>
         \E block \in Range(db.blocks) : Covers(block, query) /\ ~ Readable(block)
    BY DEF Broken, Range
<1>3. CASE Broken(db, query)
    BY <1>2, <1>3 DEF Inv, LoopInv
<1>4. CASE ~ Broken(db, query)
    <2>1. Looped(n) /\ answer \in Verdicts(evidence \cup BadASNEvidence(db, asn))
        BY <1>4 DEF Inv, LoopInv
    <2>2. answer # NoVerdict
        BY <1>1, <2>1, BadASNType, VerdictsType, DatabaseAssumption
    <2>3. evidence = {EvidenceOf(db, r) : r \in RecordsOn(db, query)}
        BY <1>1, <1>4, <2>1, EvidenceFound DEF Looped
    <2>4. PlacesOn(db, query) = Claims(db, query, n)
        BY <1>1, <1>4, PlacesClaimed
    <2>5. \A p \in Claims(db, query, n) : RankAt(db, p) \in 0..3
        <3>1. db \in Database /\ n \in Nat
            BY <1>1, DatabaseType DEF Database
        <3>2. \A i \in Covering(db, query, n) : Readable(db.blocks[i])
            BY <2>1 DEF Looped
        <3> HIDE DEF n
        <3> QED
            BY <3>1, <3>2, ClaimType
    <2>6. Tells(db, query, n, asn, asnRank)
        BY <2>1 DEF Looped
    <2>7. /\ \A p \in Claims(db, query, n) : RankAt(db, p) <= asnRank
          /\ IF asnRank = 0 THEN asn = 0
             ELSE \E p \in Claims(db, query, n) :
                     /\ RecordAt(db, p).asn = asn /\ RankAt(db, p) = asnRank
                     /\ \A q \in Claims(db, query, n) : RankAt(db, q) = asnRank => NoLater(p, q)
        BY <2>5, <2>6 DEF Tells, First
    <2>8. \A r \in RecordsOn(db, query) : ASNRank(db, r) <= asnRank
        BY <2>4, <2>7 DEF RecordsOn, RankAt
    <2> QED
        BY <1>2, <1>4, <2>2, <2>3, <2>4, <2>7, <2>8 DEF RankAt
<1> QED
    BY <1>3, <1>4

\* A lookup fails exactly over an unreadable block that may hold the address, and
\* otherwise finds every record on it and the ASN that the first of the best tells
\* (db.go:160-207).
THEOREM LookupCompleteAlways == Spec => []LookupComplete
BY InvComplete, SpecInv, PTL

\* The gate challenges what is best known as listed, and passes what is best known
\* as something else (README.md:121, score.go:75-96, ipintel.go:82-97).
LEMMA InvGate == Inv => GateMeansBest
<1> SUFFICES ASSUME Inv, ~ Running, answer # NoVerdict,
                    NEW c \in Gates, c.mode = "challenge"
             PROVE  LET known    == Counting({EvidenceOf(db, r) : r \in RecordsOn(db, query)}
                                               \cup BadASNEvidence(db, asn))
                        listed   == {e \in known : e.category \in c.cats}
                    IN  IF PassesVerdict(c, answer) THEN Outweighs(known \ listed, listed)
                        ELSE Outweighs(listed, known \ listed)
    BY DEF GateMeansBest
<1> DEFINE ev == evidence \cup BadASNEvidence(db, asn)
<1>1. query # NoQuery
    BY DEF Inv, LoopInv
<1>2. ~ Broken(db, query)
    BY <1>1 DEF Inv, LoopInv
<1>3. query \in Addresses /\ db \in Databases /\ ev \in SUBSET Evidence
    BY <1>1, BadASNType DEF Inv, IPIntelDBTypeOK, LoopInv
<1>4. answer \in Verdicts(ev)
    BY <1>1, <1>2 DEF Inv, LoopInv
<1>5. evidence = {EvidenceOf(db, r) : r \in RecordsOn(db, query)}
    BY <1>1, <1>2, <1>3, EvidenceFound DEF Inv, LoopInv, Looped
<1>6. \A f \in Counting(ev) : \E e \in Counting(ev) :
         e.category = answer /\ Strength(e) + 100 > Strength(f)
    BY <1>3, <1>4, VerdictHeaviest
<1>7. PassesVerdict(c, answer) <=> answer \notin c.cats
    BY DEF PassesVerdict
<1> QED
    BY <1>5, <1>6, <1>7 DEF Outweighs

\* The gate follows the strongest evidence in the database, up to the point lost in
\* rounding (score.go:80-96, ipintel.go:103).
THEOREM GateMeansBestAlways == Spec => []GateMeansBest
BY InvGate, SpecInv, PTL
================================================================================
