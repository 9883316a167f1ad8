------------------------------ MODULE CookieProofs ------------------------------
(***************************************************************************)
(* Proofs about the readers of the Cookie header, for any header, any words *)
(* and any names: the one-pass scan finds what the header means, and on     *)
(* the headers browsers write so do getCookie and the challenge page.      *)
(***************************************************************************)
EXTENDS HeaderProofs, FiniteSetTheorems

-----------------------------------------------------------------------------
(* Headers, position by position.                                          *)

LEMMA HeaderType ==
    ASSUME NEW h \in Headers
    PROVE  /\ Len(h) \in Nat
           /\ DOMAIN h = 1..Len(h)
           /\ ToSet(h) = {h[i] : i \in 1..Len(h)}
BY LenProperties DEF Headers, ToSet

LEMMA SubHeader ==
    ASSUME NEW h \in Headers, NEW i \in Int, NEW j \in Int, i >= 1, j <= Len(h)
    PROVE  /\ SubSeq(h, i, j) \in Headers
           /\ Len(SubSeq(h, i, j)) = IF i <= j THEN j - i + 1 ELSE 0
           /\ \A k \in 1..(j - i + 1) : SubSeq(h, i, j)[k] = h[i + k - 1]
<1>1. \A k \in i..j : h[k] \in Pieces
    BY HeaderType, ElementOfSeq DEF Headers
<1> QED
    BY <1>1, SubSeqProperties DEF Headers

LEMMA SameHeader ==
    ASSUME NEW h \in Headers, NEW g \in Headers, Len(h) = Len(g),
           \A i \in 1..Len(h) : h[i] = g[i]
    PROVE  h = g
BY SeqEqual DEF Headers

\* A cut of a cut is a cut.
LEMMA CutOfCut ==
    ASSUME NEW h \in Headers, NEW a \in Nat, NEW b \in Nat, NEW c \in Nat, NEW d \in Nat,
           a >= 1, b <= Len(h), c >= 1, d <= b - a + 1
    PROVE  SubSeq(SubSeq(h, a, b), c, d) = SubSeq(h, a + c - 1, a + d - 1)
<1> DEFINE mid == SubSeq(h, a, b)
           l == SubSeq(mid, c, d)
           r == SubSeq(h, a + c - 1, a + d - 1)
<1>1. Len(h) \in Nat
    BY HeaderType
<1>2. /\ mid \in Headers /\ Len(mid) = IF a <= b THEN b - a + 1 ELSE 0
      /\ \A k \in 1..(b - a + 1) : mid[k] = h[a + k - 1]
    BY SubHeader
<1> HIDE DEF mid
<1>3. CASE d < c
    <2>1. l = <<>>
        BY <1>3, SubSeqEmpty
    <2>2. r = <<>>
        <3>1. a + d - 1 \in Int /\ a + c - 1 \in Int /\ a + d - 1 < a + c - 1
            BY <1>3
        <3> QED
            BY <3>1, SubSeqEmpty
    <2> QED
        BY <2>1, <2>2 DEF mid
<1>4. CASE c <= d
    <2>1. a <= b /\ d <= Len(mid)
        BY <1>2, <1>4
    <2>2. /\ l \in Headers /\ Len(l) = d - c + 1
          /\ \A k \in 1..(d - c + 1) : l[k] = mid[c + k - 1]
        BY <1>2, <1>4, <2>1, SubHeader
    <2> DEFINE m == a + c - 1
               n == a + d - 1
    <2>3. m \in Int /\ n \in Int /\ m >= 1 /\ n <= Len(h) /\ m <= n /\ n - m + 1 = d - c + 1
        BY <1>1, <1>4, <2>1
    <2> HIDE DEF m, n
    <2>4. /\ SubSeq(h, m, n) \in Headers /\ Len(SubSeq(h, m, n)) = n - m + 1
          /\ \A k \in 1..(n - m + 1) : SubSeq(h, m, n)[k] = h[m + k - 1]
        BY <2>3, SubHeader
    <2>5. ASSUME NEW k \in 1..(d - c + 1) PROVE l[k] = SubSeq(h, m, n)[k]
        <3>1. l[k] = mid[c + k - 1]
            BY <2>2
        <3>2. c + k - 1 \in 1..(b - a + 1)
            OBVIOUS
        <3>3. mid[c + k - 1] = h[a + (c + k - 1) - 1]
            BY <1>2, <3>2
        <3>4. a + (c + k - 1) - 1 = m + k - 1
            BY DEF m
        <3>5. SubSeq(h, m, n)[k] = h[m + k - 1]
            BY <2>3, <2>4
        <3> QED
            BY <3>1, <3>3, <3>4, <3>5
    <2> HIDE DEF l
    <2>6. l = SubSeq(h, m, n)
        BY <2>2, <2>3, <2>4, <2>5, SameHeader
    <2> QED
        BY <2>6 DEF l, m, n, mid
<1> QED
    BY <1>3, <1>4

\* The next of some characters is found, or the end: and nothing else is.
LEMMA NextFound ==
    ASSUME NEW h \in Headers, NEW chars, NEW i \in 1..(Len(h) + 2)
    PROVE  LET n == NextIn(h, chars, i)
           IN  /\ n \in 1..(Len(h) + 1)
               /\ i <= Len(h) + 1 => n >= i
               /\ n <= Len(h) => n >= i /\ h[n] \in chars
               /\ \A j \in i..Len(h) : j < n => h[j] \notin chars
<1> DEFINE found == {j \in i..Len(h) : h[j] \in chars} \cup {Len(h) + 1}
<1>1. Len(h) \in Nat
    BY HeaderType
<1>2. found \in SUBSET (1..(Len(h) + 1)) /\ found # {} /\ Len(h) + 1 \in Nat
    BY <1>1
<1>3. Min(found) \in found /\ \A j \in found : Min(found) <= j
    BY <1>2, FirstPosition
<1>4. NextIn(h, chars, i) = Min(found)
    BY DEF NextIn
<1> QED
    <2> DEFINE n == Min(found)
    <2>1. n = Len(h) + 1 \/ (n \in i..Len(h) /\ h[n] \in chars)
        BY <1>3
    <2>2. \A j \in i..Len(h) : h[j] \in chars => n <= j
        BY <1>3
    <2>3. n \in 1..(Len(h) + 1)
        BY <1>2, <1>3
    <2> HIDE DEF n
    <2>4. /\ i <= Len(h) + 1 => n >= i
          /\ n <= Len(h) => n >= i /\ h[n] \in chars
        BY <1>1, <2>1, <2>3
    <2>5. \A j \in i..Len(h) : j < n => h[j] \notin chars
        BY <1>1, <2>2, <2>3
    <2> QED
        BY <1>4, <2>3, <2>4, <2>5 DEF n

LEMMA NextIs ==
    ASSUME NEW h \in Headers, NEW chars, NEW i \in 1..(Len(h) + 2), NEW m \in i..(Len(h) + 1),
           m <= Len(h) => h[m] \in chars,
           \A j \in i..Len(h) : j < m => h[j] \notin chars
    PROVE  NextIn(h, chars, i) = m
<1> DEFINE n == NextIn(h, chars, i)
<1>1. Len(h) \in Nat
    BY HeaderType
<1>2. /\ n \in 1..(Len(h) + 1)
      /\ i <= Len(h) + 1 => n >= i
      /\ n <= Len(h) => n >= i /\ h[n] \in chars
      /\ \A j \in i..Len(h) : j < n => h[j] \notin chars
    BY NextFound
<1> HIDE DEF n
<1>3. ~ (n < m)
    BY <1>1, <1>2
<1>4. ~ (m < n)
    BY <1>1, <1>2
<1>5. n = m
    BY <1>1, <1>2, <1>3, <1>4
<1> QED
    BY <1>5 DEF n

\* What is left of a cut when the spaces at its ends are taken off.
Trimmed(h, a, b) ==
    LET kept == {i \in a..b : h[i] # " "}
    IN  IF kept = {} THEN <<>> ELSE SubSeq(h, Min(kept), Max(kept))

LEMMA ShiftedPositions ==
    ASSUME NEW a \in Nat, NEW b \in Nat
    PROVE  /\ \A x \in a..b : x - a + 1 \in 1..(b - a + 1) /\ a + (x - a + 1) - 1 = x /\ a <= b
           /\ \A x \in 1..(b - a + 1) : a + x - 1 \in a..b /\ a <= b
OBVIOUS

LEMMA CutPositions ==
    ASSUME NEW a \in Nat, NEW b \in Nat, NEW n \in Nat, n = IF a <= b THEN b - a + 1 ELSE 0
    PROVE  \A x \in 1..n : x \in 1..(b - a + 1)
<1>1. CASE a <= b
    BY <1>1
<1>2. CASE b < a
    BY <1>2
<1> QED
    BY <1>1, <1>2

LEMMA TrimCut ==
    ASSUME NEW h \in Headers, NEW a \in Nat, NEW b \in Nat, a >= 1, b <= Len(h)
    PROVE  TrimSpace(SubSeq(h, a, b)) = Trimmed(h, a, b)
<1> DEFINE s == SubSeq(h, a, b)
           inside == {i \in DOMAIN s : s[i] # " "}
           kept == {i \in a..b : h[i] # " "}
<1>1. Len(h) \in Nat
    BY HeaderType
<1>2. /\ s \in Headers /\ Len(s) = IF a <= b THEN b - a + 1 ELSE 0
      /\ \A k \in 1..(b - a + 1) : s[k] = h[a + k - 1]
    BY SubHeader
<1>3. DOMAIN s = 1..Len(s) /\ Len(s) \in Nat
    BY <1>2, HeaderType
<1> HIDE DEF s
<1>4. ASSUME NEW i \in inside PROVE a + i - 1 \in kept
    <2>1. i \in 1..Len(s) /\ s[i] # " "
        BY <1>3
    <2> HIDE DEF inside
    <2>2. i \in 1..(b - a + 1)
        BY <1>2, <1>3, <2>1, CutPositions
    <2>3. a + i - 1 \in a..b
        BY <2>2, ShiftedPositions
    <2> QED
        BY <1>2, <2>1, <2>2, <2>3
<1>5. ASSUME NEW i \in kept PROVE i - a + 1 \in inside
    <2>1. i \in a..b /\ h[i] # " "
        OBVIOUS
    <2>2. i - a + 1 \in 1..(b - a + 1) /\ a + (i - a + 1) - 1 = i /\ a <= b
        BY <2>1, ShiftedPositions
    <2>3. i - a + 1 \in DOMAIN s /\ s[i - a + 1] = h[i]
        BY <1>2, <1>3, <2>2
    <2> QED
        BY <2>1, <2>3
<1>6. CASE kept = {}
    <2>1. inside = {}
        BY <1>4, <1>6
    <2> QED
        BY <1>6, <2>1 DEF TrimSpace, Trimmed, s
<1>7. CASE kept # {}
    <2>1. inside # {}
        BY <1>5, <1>7
    <2>2. /\ kept \in SUBSET (1..Len(h)) /\ inside \in SUBSET (1..Len(s))
        <3>1. a..b \subseteq 1..Len(h)
            BY <1>1
        <3> QED
            BY <1>3, <3>1
    <2>3. /\ Min(kept) \in kept /\ \A i \in kept : Min(kept) <= i
          /\ Max(kept) \in kept /\ \A i \in kept : i <= Max(kept)
        BY <1>1, <1>7, <2>2, FirstPosition, LastPosition
    <2>4. /\ Min(inside) \in inside /\ \A i \in inside : Min(inside) <= i
          /\ Max(inside) \in inside /\ \A i \in inside : i <= Max(inside)
        BY <1>3, <2>1, <2>2, FirstPosition, LastPosition
    <2> DEFINE p == Min(inside)
               q == Max(inside)
    <2> HIDE DEF p, q, kept, inside
    <2>5. p \in 1..Len(s) /\ q \in 1..Len(s)
        BY <2>2, <2>4 DEF p, q
    <2>6. Min(kept) = a + p - 1
        <3>1. Min(kept) <= a + p - 1
            BY <1>4, <2>3, <2>4 DEF p
        <3>2. p <= Min(kept) - a + 1
            BY <1>5, <2>3, <2>4 DEF p
        <3>3. Min(kept) \in 1..Len(h)
            BY <2>2, <2>3
        <3> QED
            BY <1>3, <2>5, <3>1, <3>2, <3>3
    <2>7. Max(kept) = a + q - 1
        <3>1. a + q - 1 <= Max(kept)
            BY <1>4, <2>3, <2>4 DEF q
        <3>2. Max(kept) - a + 1 <= q
            BY <1>5, <2>3, <2>4 DEF q
        <3>3. Max(kept) \in 1..Len(h)
            BY <2>2, <2>3
        <3> QED
            BY <1>3, <2>5, <3>1, <3>2, <3>3
    <2>8. a <= b /\ q <= b - a + 1 /\ p \in Nat /\ q \in Nat /\ p >= 1
        BY <1>2, <1>3, <2>5
    <2>9. SubSeq(s, p, q) = SubSeq(h, a + p - 1, a + q - 1)
        BY <2>8, CutOfCut DEF s
    <2>10. TrimSpace(s) = SubSeq(s, p, q)
        BY <2>1 DEF TrimSpace, inside, p, q
    <2>11. Trimmed(h, a, b) = SubSeq(h, Min(kept), Max(kept))
        BY <1>7 DEF Trimmed, kept
    <2> QED
        BY <2>6, <2>7, <2>9, <2>10, <2>11 DEF s
<1> QED
    BY <1>6, <1>7

LEMMA LaterPositions ==
    ASSUME NEW a \in Nat, NEW b \in Int, NEW s \in Nat, a <= s
    PROVE  /\ \A i \in a..b : i \in s..b \/ i \in a..(s - 1)
           /\ \A i \in s..b : i \in a..b
OBVIOUS

\* Spaces at the start of a cut do not count.
LEMMA TrimmedAhead ==
    ASSUME NEW h \in Headers, NEW a \in Nat, NEW b \in Int, NEW s \in Nat, a <= s,
           \A j \in a..(s - 1) : h[j] = " "
    PROVE  Trimmed(h, a, b) = Trimmed(h, s, b)
<1>1. {i \in a..b : h[i] # " "} = {i \in s..b : h[i] # " "}
    BY LaterPositions
<1> QED
    BY <1>1 DEF Trimmed

-----------------------------------------------------------------------------
(* The scan.                                                               *)

\* Where a round of the scan starts, and where it ends.
LEMMA RoundPositions ==
    ASSUME NEW h \in Headers, NEW i \in 1..(Len(h) + 2)
    PROVE  /\ NameStart(h, i) \in 1..(Len(h) + 1)
           /\ NameEnd(h, i) \in 1..(Len(h) + 1)
           /\ NameEnd(h, i) <= Len(h) =>
                /\ NameStart(h, i) >= i /\ NameStart(h, i) <= NameEnd(h, i)
                /\ h[NameStart(h, i)] \in ToSet(h) \ {" ", ";"}
                /\ h[NameEnd(h, i)] = "="
                /\ ValueEnd(h, i) \in (NameEnd(h, i) + 1)..(Len(h) + 1)
                /\ ValueEnd(h, i) + 1 \in (i + 1)..(Len(h) + 2)
<1> DEFINE s == NameStart(h, i)
           e == NameEnd(h, i)
           v == ValueEnd(h, i)
           letters == ToSet(h) \ {" ", ";"}
<1>1. Len(h) \in Nat
    BY HeaderType
<1>2. s = NextIn(h, letters, i) /\ e = NextIn(h, {"="}, s) /\ v = NextIn(h, {";"}, e + 1)
    BY DEF NameStart, NameEnd, ValueEnd
<1> HIDE DEF s, e, v, letters
<1>3. /\ s \in 1..(Len(h) + 1)
      /\ s <= Len(h) => s >= i /\ h[s] \in letters
    BY <1>2, NextFound
<1>4. s \in 1..(Len(h) + 2) /\ s <= Len(h) + 1
    BY <1>1, <1>3
<1>5. /\ e \in 1..(Len(h) + 1) /\ e >= s
      /\ e <= Len(h) => h[e] = "="
    BY <1>2, <1>4, NextFound
<1>6. ASSUME e <= Len(h)
      PROVE  /\ s >= i /\ s <= e /\ h[s] \in letters
             /\ v \in (e + 1)..(Len(h) + 1) /\ v + 1 \in (i + 1)..(Len(h) + 2)
    <2>1. s <= Len(h) /\ s >= i /\ h[s] \in letters
        BY <1>1, <1>3, <1>5, <1>6
    <2>2. e + 1 \in 1..(Len(h) + 2) /\ e + 1 <= Len(h) + 1
        BY <1>1, <1>5, <1>6
    <2>3. v \in 1..(Len(h) + 1) /\ v >= e + 1
        BY <1>2, <2>2, NextFound
    <2> QED
        BY <1>1, <1>3, <1>5, <2>1, <2>3
<1> QED
    BY <1>3, <1>5, <1>6 DEF s, e, v, letters

\* One round of the scan from position i, f being what the later ones find.
Round(h, f, i) ==
    IF NameEnd(h, i) > Len(h) THEN <<>> ELSE <<PairAt(h, i)>> \o f[ValueEnd(h, i) + 1]

\* There is such a scan: a round only asks for a later one.
LEMMA ScanDefined ==
    ASSUME NEW h \in Headers
    PROVE  \A i \in 1..(Len(h) + 2) : Scan(h)[i] = Round(h, Scan(h), i)
<1> DEFINE n == Len(h) + 2
           Scans(k, f) == f = [i \in k..n |-> Round(h, f, i)]
           late == {k \in 1..(n + 1) : ~ \E f : Scans(k, f)}
<1>1. Len(h) \in Nat /\ n \in Nat
    BY HeaderType
<1>2. ASSUME NEW i \in 1..n, NEW f, NEW g, NameEnd(h, i) <= Len(h) => f[ValueEnd(h, i) + 1] = g[ValueEnd(h, i) + 1]
      PROVE  Round(h, f, i) = Round(h, g, i)
    <2>1. NameEnd(h, i) \in 1..(Len(h) + 1)
        BY RoundPositions
    <2> QED
        BY <1>1, <1>2, <2>1 DEF Round
<1>3. \A i \in 1..n : NameEnd(h, i) <= Len(h) => ValueEnd(h, i) + 1 \in (i + 1)..n
    BY RoundPositions
<1> HIDE DEF n
<1>4. late = {}
    <2> SUFFICES ASSUME late # {} PROVE FALSE
        OBVIOUS
    <2>1. late \in SUBSET (1..(n + 1)) /\ n + 1 \in Nat
        BY <1>1
    <2>2. Max(late) \in late /\ \A k \in late : k <= Max(late)
        BY <2>1, LastPosition
    <2> DEFINE m == Max(late)
    <2>3. m \in 1..(n + 1) /\ ~ \E f : Scans(m, f)
        BY <2>2
    <2>4. \A k \in 1..(n + 1) : k > m => \E f : Scans(k, f)
        BY <2>1, <2>2
    <2> HIDE DEF m, late
    <2>5. CASE m = n + 1
        <3>1. m..n = {}
            BY <1>1, <2>5
        <3>2. Scans(m, [i \in m..n |-> <<>>])
            BY <3>1
        <3> QED
            BY <2>3, <3>2
    <2>6. CASE m <= n
        <3>1. m + 1 \in 1..(n + 1) /\ m + 1 > m
            BY <1>1, <2>3, <2>6
        <3>2. PICK f : Scans(m + 1, f)
            BY <2>4, <3>1
        <3> DEFINE g == [i \in m..n |-> IF i = m THEN Round(h, f, m) ELSE f[i]]
        <3>3. ASSUME NEW i \in m..n PROVE g[i] = Round(h, g, i)
            <4>1. i \in 1..n
                BY <1>1, <2>3
            <4>2. NameEnd(h, i) <= Len(h) => ValueEnd(h, i) + 1 \in (i + 1)..n
                BY <1>3, <4>1
            <4>3. \A j \in (i + 1)..n : j \in m..n /\ j # m
                BY <1>1, <2>3
            <4>4. NameEnd(h, i) <= Len(h) => f[ValueEnd(h, i) + 1] = g[ValueEnd(h, i) + 1]
                BY <4>2, <4>3
            <4> HIDE DEF g
            <4>5. Round(h, f, i) = Round(h, g, i)
                BY <1>2, <4>1, <4>4
            <4>6. g[i] = Round(h, f, i)
                <5>1. CASE i = m
                    BY <5>1 DEF g
                <5>2. CASE i # m
                    <6>1. i \in (m + 1)..n
                        BY <1>1, <2>3, <5>2
                    <6>2. f[i] = Round(h, f, i)
                        BY <3>2, <6>1
                    <6> QED
                        BY <5>2, <6>2 DEF g
                <5> QED
                    BY <5>1, <5>2
            <4> QED
                BY <4>5, <4>6
        <3>4. g = [i \in m..n |-> g[i]]
            OBVIOUS
        <3> HIDE DEF g
        <3>5. Scans(m, g)
            BY <3>3, <3>4
        <3> QED
            BY <2>3, <3>5
    <2> QED
        BY <1>1, <2>3, <2>5, <2>6
<1>5. \E f : Scans(1, f)
    BY <1>1, <1>4
<1>6. Scan(h) = CHOOSE f : Scans(1, f)
    BY DEF Scan, Round, n
<1> HIDE DEF Scans
<1>7. Scans(1, Scan(h))
    BY <1>5, <1>6
<1>8. ASSUME NEW f, Scans(1, f) PROVE \A i \in 1..n : f[i] = Round(h, f, i)
    BY <1>8 DEF Scans
<1> QED
    BY <1>7, <1>8 DEF n

\* Every position of the scan holds a sequence of pairs.
LEMMA ScanType ==
    ASSUME NEW h \in Headers
    PROVE  \A i \in 1..(Len(h) + 2) : Scan(h)[i] \in Seq({PairAt(h, k) : k \in 1..(Len(h) + 2)})
<1> DEFINE n == Len(h) + 2
           found == {PairAt(h, k) : k \in 1..n}
           late == {i \in 1..n : Scan(h)[i] \notin Seq(found)}
<1>1. n \in Nat
    BY HeaderType
<1>2. \A i \in 1..n : PairAt(h, i) \in found
    OBVIOUS
<1>3. \A i \in 1..n : Scan(h)[i] = Round(h, Scan(h), i)
    BY ScanDefined
<1>4. \A i \in 1..n : NameEnd(h, i) <= Len(h) => ValueEnd(h, i) + 1 \in (i + 1)..n
    BY RoundPositions
<1>5. \A i \in 1..n : NameEnd(h, i) > Len(h) \/ NameEnd(h, i) <= Len(h)
    <2>1. \A i \in 1..n : NameEnd(h, i) \in 1..(Len(h) + 1)
        BY RoundPositions
    <2> QED
        BY <2>1, HeaderType
<1> HIDE DEF n, found
<1>6. late = {}
    <2> SUFFICES ASSUME late # {} PROVE FALSE
        OBVIOUS
    <2>1. late \in SUBSET (1..n)
        OBVIOUS
    <2>2. Max(late) \in late /\ \A k \in late : k <= Max(late)
        BY <1>1, <2>1, LastPosition
    <2> DEFINE i == Max(late)
    <2>3. i \in 1..n /\ Scan(h)[i] \notin Seq(found)
        BY <2>2
    <2>4. \A k \in (i + 1)..n : Scan(h)[k] \in Seq(found)
        <3>1. \A k \in (i + 1)..n : k \in 1..n /\ ~ (k <= i)
            BY <1>1, <2>3
        <3> QED
            BY <2>2, <3>1
    <2> HIDE DEF i, late
    <2>5. <<>> \in Seq(found)
        OBVIOUS
    <2>6. CASE NameEnd(h, i) > Len(h)
        BY <1>3, <2>3, <2>5, <2>6 DEF Round
    <2>7. CASE NameEnd(h, i) <= Len(h) /\ ~ (NameEnd(h, i) > Len(h))
        <3> DEFINE rest == Scan(h)[ValueEnd(h, i) + 1]
        <3>1. rest \in Seq(found)
            BY <1>4, <2>3, <2>4, <2>7
        <3>2. Scan(h)[i] = <<PairAt(h, i)>> \o rest
            BY <1>3, <2>3, <2>7 DEF Round
        <3>3. <<PairAt(h, i)>> \in Seq(found)
            BY <1>2, <2>3
        <3> HIDE DEF rest
        <3>4. <<PairAt(h, i)>> \o rest \in Seq(found)
            BY <3>1, <3>3, ConcatProperties
        <3> QED
            BY <2>3, <3>2, <3>4
    <2> QED
        BY <1>5, <2>3, <2>6, <2>7, HeaderType
<1> QED
    BY <1>6 DEF n, found

\* The pairs of a name among those found.
PlacesOf(s, key) == {i \in DOMAIN s : s[i].name = key}

\* One more pair in front: it counts only where no later one does.
OneInFront(s, x, t, key) ==
    /\ PlacesOf(s, key) # {} =>
         /\ PlacesOf(t, key) # {}
         /\ t[Max(PlacesOf(t, key))] = s[Max(PlacesOf(s, key))]
    /\ PlacesOf(s, key) = {} /\ x.name = key =>
         PlacesOf(t, key) # {} /\ t[Max(PlacesOf(t, key))] = x
    /\ PlacesOf(s, key) = {} /\ x.name # key => PlacesOf(t, key) = {}

LEMMA LastPair ==
    ASSUME NEW T, NEW s \in Seq(T), NEW x \in T, NEW key, NEW t, t = <<x>> \o s
    PROVE  OneInFront(s, x, t, key)
<1> USE DEF OneInFront
<1> DEFINE n == Len(s)
           P == PlacesOf(s, key)
           Q == PlacesOf(t, key)
<1>1. n \in Nat /\ DOMAIN s = 1..n
    BY LenProperties
<1>2. /\ t \in Seq(T) /\ Len(t) = n + 1 /\ DOMAIN t = 1..(n + 1)
      /\ t[1] = x /\ \A i \in 1..n : t[i + 1] = s[i]
    <2>1. <<x>> \in Seq(T) /\ Len(<<x>>) = 1 /\ <<x>>[1] = x
        OBVIOUS
    <2>2. /\ t \in Seq(T) /\ Len(t) = 1 + n
          /\ \A i \in 1..(1 + n) : t[i] = IF i <= 1 THEN <<x>>[i] ELSE s[i - 1]
        BY <2>1, ConcatProperties
    <2>3. DOMAIN t = 1..Len(t)
        BY <2>2, LenProperties
    <2>4. t[1] = x
        BY <1>1, <2>1, <2>2
    <2>5. ASSUME NEW i \in 1..n PROVE t[i + 1] = s[i]
        <3>1. i + 1 \in 1..(1 + n) /\ ~ (i + 1 <= 1) /\ (i + 1) - 1 = i
            BY <1>1
        <3> QED
            BY <2>2, <3>1
    <2>6. 1 + n = n + 1
        BY <1>1
    <2> QED
        BY <2>2, <2>3, <2>4, <2>5, <2>6
<1> HIDE DEF n
<1>3. P \in SUBSET (1..n) /\ Q \in SUBSET (1..(n + 1)) /\ n + 1 \in Nat
    BY <1>1, <1>2 DEF PlacesOf
<1>4. \A i \in 1..n : i \in P <=> i + 1 \in Q
    <2>1. \A i \in 1..n : i + 1 \in 1..(n + 1)
        BY <1>1
    <2> QED
        BY <1>1, <1>2, <2>1 DEF PlacesOf
<1>5. 1 \in Q <=> x.name = key
    <2>1. 1 \in 1..(n + 1)
        BY <1>1
    <2> QED
        BY <1>2, <2>1 DEF PlacesOf
<1>6. \A j \in 1..(n + 1) : j = 1 \/ (j - 1 \in 1..n /\ (j - 1) + 1 = j)
    BY <1>1
<1> HIDE DEF P, Q
<1>7. CASE P # {}
    <2>1. Max(P) \in P /\ \A i \in P : i <= Max(P)
        BY <1>1, <1>3, <1>7, LastPosition
    <2>2. Max(P) \in 1..n
        BY <1>3, <2>1
    <2>3. Max(P) + 1 \in Q
        BY <1>4, <2>1, <2>2
    <2>4. Max(Q) \in Q /\ \A i \in Q : i <= Max(Q)
        BY <1>3, <2>3, LastPosition
    <2> DEFINE p == Max(P)
               q == Max(Q)
    <2>5. p \in 1..n /\ q \in 1..(n + 1) /\ p + 1 <= q
        BY <1>3, <2>2, <2>3, <2>4
    <2>6. q - 1 \in 1..n /\ (q - 1) + 1 = q
        BY <1>1, <2>5
    <2>7. q - 1 \in P
        BY <1>4, <2>4, <2>6
    <2>8. q - 1 <= p
        BY <2>1, <2>7
    <2> HIDE DEF p, q
    <2>9. q = p + 1
        BY <1>1, <2>5, <2>8
    <2>10. t[q] = s[p]
        BY <1>2, <2>5, <2>9
    <2> QED
        BY <1>7, <2>3, <2>10 DEF p, q, P, Q
<1>8. CASE P = {}
    <2>1. Q \subseteq {1}
        BY <1>3, <1>4, <1>6, <1>8
    <2>2. CASE x.name = key
        <3>1. Q = {1}
            BY <1>5, <2>1, <2>2
        <3>2. Max(Q) \in Q
            BY <1>3, <3>1, LastPosition
        <3>3. Max(Q) = 1
            BY <3>1, <3>2
        <3> QED
            BY <1>2, <1>8, <2>2, <3>1, <3>3 DEF P, Q
    <2>3. CASE x.name # key
        <3>1. Q = {}
            BY <1>5, <2>1, <2>3
        <3> QED
            BY <1>8, <2>3, <3>1 DEF P, Q
    <2> QED
        BY <2>2, <2>3
<1> QED
    BY <1>7, <1>8

-----------------------------------------------------------------------------
(* What the parts of a header mean.                                        *)

\* The name and the value of a part are cuts of the header at its first "=".
LEMMA PartMeaning ==
    ASSUME NEW h \in Headers, NEW a \in Nat, NEW b \in Nat, a >= 1, a <= b + 1, b <= Len(h)
    PROVE  LET e    == NextIn(h, {"="}, a)
               text == PartText(h, <<a, b>>)
           IN  /\ e \in a..(Len(h) + 1)
               /\ IsNamed(text) <=> e <= b
               /\ e <= b => /\ h[e] = "="
                            /\ NameIn(text) = Trimmed(h, a, e - 1)
                            /\ ValueIn(text) = Trimmed(h, e + 1, b)
<1> DEFINE e == NextIn(h, {"="}, a)
           text == PartText(h, <<a, b>>)
           n == b - a + 1
<1>1. Len(h) \in Nat
    BY HeaderType
<1>2. a \in 1..(Len(h) + 2) /\ a <= Len(h) + 1 /\ n \in Nat
    BY <1>1
<1>3. /\ e \in 1..(Len(h) + 1) /\ e >= a
      /\ e <= Len(h) => h[e] = "="
      /\ \A j \in a..Len(h) : j < e => h[j] # "="
    BY <1>2, NextFound
<1>4. text = SubSeq(h, a, b)
    BY DEF PartText
<1>5. /\ text \in Headers /\ Len(text) = n
      /\ \A k \in 1..n : text[k] = h[a + k - 1]
    <2>1. Len(text) = IF a <= b THEN b - a + 1 ELSE 0
        BY <1>4, SubHeader
    <2>2. Len(text) = n
        <3>1. CASE a <= b
            BY <2>1, <3>1
        <3>2. CASE b < a
            BY <2>1, <3>2
        <3> QED
            BY <3>1, <3>2
    <2>3. /\ SubSeq(h, a, b) \in Headers
          /\ \A k \in 1..(b - a + 1) : SubSeq(h, a, b)[k] = h[a + k - 1]
        BY SubHeader
    <2> HIDE DEF text
    <2> QED
        BY <1>4, <2>2, <2>3
<1>6. DOMAIN text = 1..n /\ ToSet(text) = {text[k] : k \in 1..n}
    BY <1>5, HeaderType
<1> HIDE DEF e, text
<1>7. ASSUME e <= b
      PROVE  /\ IsNamed(text) /\ h[e] = "="
             /\ NextIn(text, {"="}, 1) = e - a + 1
    <2> DEFINE m == e - a + 1
    <2>1. m \in 1..n /\ a + m - 1 = e /\ h[e] = "="
        BY <1>1, <1>3, <1>7
    <2>2. \A k \in 1..n : k < m => a + k - 1 \in a..Len(h) /\ a + k - 1 < e
        BY <1>1, <1>3, <1>7
    <2> HIDE DEF m, n
    <2>3. text[m] = "="
        BY <1>5, <2>1
    <2>4. \A k \in 1..n : k < m => text[k] # "="
        BY <1>3, <1>5, <2>2
    <2>5. 1 \in 1..(Len(text) + 2) /\ m \in 1..(Len(text) + 1)
        BY <1>2, <1>5, <2>1
    <2>6. NextIn(text, {"="}, 1) = m
        BY <1>5, <2>3, <2>4, <2>5, NextIs
    <2>7. IsNamed(text)
        BY <1>6, <2>1, <2>3 DEF IsNamed
    <2> QED
        BY <2>1, <2>6, <2>7 DEF m
<1>8. ASSUME IsNamed(text) PROVE e <= b
    <2>1. PICK k \in 1..n : text[k] = "="
        BY <1>6, <1>8 DEF IsNamed
    <2>2. a + k - 1 \in a..b /\ a + k - 1 \in a..Len(h)
        BY <1>1
    <2>3. h[a + k - 1] = "="
        BY <1>5, <2>1
    <2>4. ~ (a + k - 1 < e)
        BY <1>3, <2>2, <2>3
    <2> QED
        BY <1>1, <1>3, <2>2, <2>4
<1>9. ASSUME e <= b
      PROVE  NameIn(text) = Trimmed(h, a, e - 1) /\ ValueIn(text) = Trimmed(h, e + 1, b)
    <2> DEFINE m == e - a + 1
    <2>1. NextIn(text, {"="}, 1) = m
        BY <1>7, <1>9
    <2>2. /\ m - 1 \in Nat /\ m - 1 <= b - a + 1 /\ a + 1 - 1 = a /\ a + (m - 1) - 1 = e - 1
          /\ m + 1 \in Nat /\ m + 1 >= 1 /\ n <= b - a + 1
          /\ a + (m + 1) - 1 = e + 1 /\ a + n - 1 = b
          /\ e - 1 \in Nat /\ e - 1 <= Len(h) /\ e + 1 \in Nat /\ e + 1 >= 1
        BY <1>1, <1>3, <1>9
    <2>3. SubSeq(text, 1, m - 1) = SubSeq(h, a, e - 1)
        <3> DEFINE c == m - 1
        <3>1. c \in Nat /\ c <= b - a + 1 /\ a + 1 - 1 = a /\ a + c - 1 = e - 1
            BY <2>2
        <3> HIDE DEF c
        <3>2. SubSeq(SubSeq(h, a, b), 1, c) = SubSeq(h, a + 1 - 1, a + c - 1)
            BY <3>1, CutOfCut
        <3> QED
            BY <1>4, <3>1, <3>2 DEF c
    <2>4. SubSeq(text, m + 1, Len(text)) = SubSeq(h, e + 1, b)
        <3> DEFINE c == m + 1
                   d == n
        <3>1. c \in Nat /\ d \in Nat /\ c >= 1 /\ d <= b - a + 1
            BY <1>2, <2>2
        <3> HIDE DEF c, d
        <3>2. SubSeq(SubSeq(h, a, b), c, d) = SubSeq(h, a + c - 1, a + d - 1)
            BY <3>1, CutOfCut
        <3>3. SubSeq(text, m + 1, n) = SubSeq(h, a + (m + 1) - 1, a + n - 1)
            BY <1>4, <3>2 DEF c, d
        <3> QED
            BY <1>5, <2>2, <3>3
    <2> HIDE DEF m
    <2>5. NameIn(text) = TrimSpace(SubSeq(h, a, e - 1))
        BY <2>1, <2>3 DEF NameIn, Before
    <2>6. ValueIn(text) = TrimSpace(SubSeq(h, e + 1, b))
        BY <2>1, <2>4 DEF ValueIn, After
    <2>7. TrimSpace(SubSeq(h, a, e - 1)) = Trimmed(h, a, e - 1)
        BY <2>2, TrimCut
    <2>8. TrimSpace(SubSeq(h, e + 1, b)) = Trimmed(h, e + 1, b)
        BY <2>2, TrimCut
    <2> QED
        BY <2>5, <2>6, <2>7, <2>8
<1>10. e \in a..(Len(h) + 1)
    BY <1>1, <1>3
<1> QED
    BY <1>7, <1>8, <1>9, <1>10 DEF e, text

IsStart(h, a) == a = 1 \/ h[a - 1] = ";"

LEMMA PairOf ==
    ASSUME NEW A, NEW B, NEW p \in A \X B
    PROVE  p[1] \in A /\ p[2] \in B /\ p = <<p[1], p[2]>>
OBVIOUS

LEMMA PartShape ==
    ASSUME NEW h \in Headers, NEW p \in Parts(h)
    PROVE  /\ p[1] \in 1..(Len(h) + 1) /\ p[2] \in 0..Len(h) /\ p = <<p[1], p[2]>>
           /\ p[1] <= p[2] + 1
           /\ IsStart(h, p[1])
           /\ NextIn(h, {";"}, p[1]) = p[2] + 1
           /\ \A j \in p[1]..p[2] : h[j] # ";"
           /\ p[2] + 1 <= Len(h) => h[p[2] + 1] = ";"
<1>1. Len(h) \in Nat
    BY HeaderType
<1>2. /\ p \in (1..(Len(h) + 1)) \X (0..Len(h))
      /\ p[1] <= p[2] + 1 /\ (p[1] = 1 \/ h[p[1] - 1] = ";")
      /\ NextIn(h, {";"}, p[1]) = p[2] + 1
    BY DEF Parts
<1>3. p[1] \in 1..(Len(h) + 1) /\ p[2] \in 0..Len(h) /\ p = <<p[1], p[2]>>
    <2> DEFINE A == 1..(Len(h) + 1)
               B == 0..Len(h)
    <2>1. p \in A \X B
        BY <1>2
    <2> HIDE DEF A, B
    <2>2. p[1] \in A /\ p[2] \in B /\ p = <<p[1], p[2]>>
        BY <2>1, PairOf
    <2> QED
        BY <2>2 DEF A, B
<1> DEFINE a == p[1]
           b == p[2]
<1>4. a \in 1..(Len(h) + 2) /\ a \in Nat /\ b \in Nat /\ b <= Len(h)
    BY <1>1, <1>3
<1> HIDE DEF a, b
<1>5. NextIn(h, {";"}, a) = b + 1
    BY <1>2 DEF a, b
<1>6. /\ b + 1 <= Len(h) => h[b + 1] = ";"
      /\ \A j \in a..Len(h) : j < b + 1 => h[j] # ";"
    <2> DEFINE n == NextIn(h, {";"}, a)
    <2>1. /\ n <= Len(h) => n >= a /\ h[n] \in {";"}
          /\ \A j \in a..Len(h) : j < n => h[j] \notin {";"}
        BY <1>4, NextFound
    <2> HIDE DEF n
    <2>2. n = b + 1
        BY <1>5 DEF n
    <2> QED
        BY <2>1, <2>2
<1>7. \A j \in a..b : j \in a..Len(h) /\ j < b + 1
    BY <1>1, <1>4
<1>8. \A j \in a..b : h[j] # ";"
    BY <1>6, <1>7
<1> QED
    BY <1>2, <1>3, <1>6, <1>8 DEF a, b, IsStart

LEMMA PartIs ==
    ASSUME NEW h \in Headers, NEW a \in 1..(Len(h) + 1), NEW b \in 0..Len(h), a <= b + 1,
           IsStart(h, a), NextIn(h, {";"}, a) = b + 1
    PROVE  <<a, b>> \in Parts(h)
BY DEF Parts, IsStart

\* What the scan passes over before a name holds no "=".
LEMMA PassedOver ==
    ASSUME NEW h \in Headers, NEW i \in 1..(Len(h) + 2)
    PROVE  /\ \A j \in i..Len(h) : j < NameStart(h, i) => h[j] \in {" ", ";"}
           /\ \A j \in i..Len(h) : j < NameEnd(h, i) => h[j] # "="
<1> DEFINE s == NameStart(h, i)
           e == NameEnd(h, i)
           letters == ToSet(h) \ {" ", ";"}
<1>1. Len(h) \in Nat
    BY HeaderType
<1>2. s = NextIn(h, letters, i) /\ e = NextIn(h, {"="}, s)
    BY DEF NameStart, NameEnd
<1>3. \A j \in i..Len(h) : h[j] \in ToSet(h)
    <2>1. \A j \in i..Len(h) : j \in 1..Len(h)
        BY <1>1
    <2> QED
        BY <2>1, HeaderType
<1> HIDE DEF s, e
<1>4. \A j \in i..Len(h) : j < s => h[j] \notin letters
    <2> HIDE DEF letters
    <2> QED
        BY <1>2, NextFound
<1>5. \A j \in i..Len(h) : j < s => h[j] \in {" ", ";"}
    BY <1>3, <1>4
<1>6. s \in 1..(Len(h) + 1) /\ s \in 1..(Len(h) + 2)
    <2>1. s \in 1..(Len(h) + 1)
        BY RoundPositions DEF s
    <2> QED
        BY <1>1, <2>1
<1>7. \A j \in s..Len(h) : j < e => h[j] # "="
    BY <1>2, <1>6, NextFound
<1>8. \A j \in i..Len(h) : j < s \/ j \in s..Len(h)
    BY <1>1, <1>6
<1>9. \A j \in i..Len(h) : j < e => h[j] # "="
    BY <1>5, <1>7, <1>8
<1> QED
    BY <1>5, <1>9 DEF s, e

\* Where no "=" is left, no part is named.
LEMMA NothingLeft ==
    ASSUME NEW h \in Headers, NEW i \in 1..(Len(h) + 2), NameEnd(h, i) > Len(h),
           NEW p \in Parts(h), p[1] >= i
    PROVE  ~ IsNamed(PartText(h, p))
<1> DEFINE a == p[1]
           b == p[2]
           e == NextIn(h, {"="}, a)
<1>1. Len(h) \in Nat
    BY HeaderType
<1>2. /\ a \in 1..(Len(h) + 1) /\ b \in 0..Len(h) /\ p = <<a, b>> /\ a <= b + 1
    BY PartShape
<1>3. a >= i
    OBVIOUS
<1> HIDE DEF a, b
<1>4. /\ e \in a..(Len(h) + 1)
      /\ IsNamed(PartText(h, <<a, b>>)) <=> e <= b
      /\ e <= b => h[e] = "="
    BY <1>1, <1>2, PartMeaning
<1> HIDE DEF e
<1>5. NameEnd(h, i) \in 1..(Len(h) + 1)
    BY RoundPositions
<1>6. e <= b => e \in i..Len(h) /\ e < NameEnd(h, i)
    BY <1>1, <1>2, <1>3, <1>4, <1>5
<1>7. ~ (e <= b)
    BY <1>4, <1>6, PassedOver
<1> QED
    BY <1>2, <1>4, <1>7

\* A round that finds a pair reads the first part with a name from there on, and
\* all of it: the next round starts at the next part.
RoundReads(h, i, p) ==
    /\ p \in Parts(h) /\ p[1] >= i
    /\ IsNamed(PartText(h, p))
    /\ PairAt(h, i).name = NameIn(PartText(h, p))
    /\ PairAt(h, i).value = ValueIn(PartText(h, p))
    /\ ValueEnd(h, i) = p[2] + 1

LEMMA RoundPart ==
    ASSUME NEW h \in Headers, AllNamed(h), NEW i \in 1..(Len(h) + 2), NameEnd(h, i) <= Len(h),
           IsStart(h, i)
    PROVE  \E p \in Parts(h) :
             /\ RoundReads(h, i, p)
             /\ \A j \in i..(p[1] - 1) : h[j] # "="
<1> DEFINE s == NameStart(h, i)
           e == NameEnd(h, i)
           v == ValueEnd(h, i)
           starts == {j \in i..s : IsStart(h, j)}
           a == Max(starts)
           b == NextIn(h, {";"}, a) - 1
<1>1. Len(h) \in Nat
    BY HeaderType
<1>2. /\ i \in Nat /\ s \in Nat /\ e \in Nat
      /\ s \in i..e /\ e \in i..Len(h) /\ s \in 1..Len(h)
      /\ v \in (e + 1)..(Len(h) + 1)
    <2>1. /\ s >= i /\ s <= e /\ v \in (e + 1)..(Len(h) + 1)
          /\ s \in 1..(Len(h) + 1) /\ e \in 1..(Len(h) + 1) /\ e <= Len(h)
        BY RoundPositions
    <2> HIDE DEF s, e, v
    <2> QED
        BY <1>1, <2>1
<1>c. h[s] \notin {" ", ";"} /\ h[e] = "="
    BY RoundPositions
<1>3. e = NextIn(h, {"="}, s) /\ v = NextIn(h, {";"}, e + 1)
    BY DEF NameEnd, ValueEnd
<1>4. \A j \in i..Len(h) : j < s => h[j] \in {" ", ";"}
    BY PassedOver
<1>5. \A j \in i..Len(h) : j < e => h[j] # "="
    BY PassedOver
<1>6. /\ PairAt(h, i).name = TrimSpace(SubSeq(h, s, e - 1))
      /\ PairAt(h, i).value = TrimSpace(SubSeq(h, e + 1, v - 1))
    BY DEF PairAt
<1> HIDE DEF s, e, v
<1>7. a \in starts /\ \A j \in starts : j <= a
    <2>1. starts \in SUBSET (1..Len(h)) /\ i \in starts
        BY <1>1, <1>2
    <2> HIDE DEF starts
    <2> QED
        BY <1>1, <2>1, LastPosition
<1>8. a \in i..s /\ IsStart(h, a) /\ \A j \in i..s : IsStart(h, j) => j <= a
    BY <1>7
<1> HIDE DEF a, starts
<1>9. a \in Nat /\ a >= 1 /\ a \in 1..(Len(h) + 1) /\ a \in 1..(Len(h) + 2) /\ a <= Len(h)
    BY <1>1, <1>2, <1>8
<1>10. \A j \in a..(s - 1) : h[j] = " "
    <2> SUFFICES ASSUME NEW j \in a..(s - 1) PROVE h[j] = " "
        OBVIOUS
    <2>1. j \in i..Len(h) /\ j < s /\ j + 1 \in i..s /\ ~ (j + 1 <= a) /\ (j + 1) - 1 = j
        BY <1>1, <1>2, <1>8, <1>9
    <2>2. ~ IsStart(h, j + 1)
        BY <1>8, <2>1
    <2>3. h[j] # ";"
        BY <2>1, <2>2 DEF IsStart
    <2> QED
        BY <1>4, <2>1, <2>3
<1>11. \A j \in a..s : h[j] # ";"
    <2>1. \A j \in a..s : j = s \/ j \in a..(s - 1)
        BY <1>2, <1>9
    <2> QED
        BY <1>c, <1>10, <2>1
<1>12. b \in Nat /\ b \in s..Len(h) /\ b \in 0..Len(h)
    <2> DEFINE n == NextIn(h, {";"}, a)
    <2>1. n \in 1..(Len(h) + 1) /\ (a <= Len(h) + 1 => n >= a)
        BY <1>9, NextFound
    <2>c. n <= Len(h) => h[n] \in {";"}
        BY <1>9, NextFound
    <2>2. b = n - 1
        OBVIOUS
    <2> HIDE DEF b, n
    <2>3. n >= a
        BY <1>1, <1>9, <2>1
    <2>4. n <= Len(h) => ~ (n \in a..s)
        BY <1>11, <2>c
    <2>5. n > s
        BY <1>1, <1>2, <1>9, <2>1, <2>3, <2>4
    <2> QED
        BY <1>1, <1>2, <2>1, <2>2, <2>5
<1>e. b + 1 = NextIn(h, {";"}, a)
    <2> DEFINE n == NextIn(h, {";"}, a)
    <2>1. n \in 1..(Len(h) + 1)
        BY <1>9, NextFound
    <2>2. b = n - 1
        OBVIOUS
    <2> HIDE DEF b, n
    <2>3. b + 1 = n
        BY <1>1, <2>1, <2>2
    <2> QED
        BY <2>3 DEF n
<1>d. /\ b + 1 <= Len(h) => h[b + 1] \in {";"}
      /\ \A j \in a..Len(h) : j < b + 1 => h[j] \notin {";"}
    <2> DEFINE n == NextIn(h, {";"}, a)
    <2>1. /\ n <= Len(h) => h[n] \in {";"}
          /\ \A j \in a..Len(h) : j < n => h[j] \notin {";"}
        BY <1>9, NextFound
    <2> HIDE DEF b, n
    <2>2. n = b + 1
        BY <1>e DEF n
    <2> QED
        BY <2>1, <2>2
<1> HIDE DEF b
<1>13. b \in Nat /\ a <= b /\ a <= b + 1 /\ b <= Len(h)
    BY <1>1, <1>2, <1>8, <1>9, <1>12
<1> DEFINE p == <<a, b>>
<1>14. p \in Parts(h) /\ p[1] = a /\ p[2] = b
    BY <1>8, <1>9, <1>12, <1>13, <1>e, PartIs
<1>15. e = NextIn(h, {"="}, a)
    <2>1. \A j \in a..Len(h) : j \in i..Len(h)
        BY <1>1, <1>2, <1>8, <1>9
    <2>2. \A j \in a..Len(h) : j < e => h[j] # "="
        BY <1>5, <2>1
    <2>3. e \in a..(Len(h) + 1)
        BY <1>1, <1>2, <1>8, <1>9
    <2>4. /\ e <= Len(h) => h[e] \in {"="}
          /\ \A j \in a..Len(h) : j < e => h[j] \notin {"="}
        BY <1>c, <2>2
    <2> QED
        BY <1>9, <2>3, <2>4, NextIs
<1>16. IsNamed(PartText(h, p))
    <2> DEFINE text == PartText(h, p)
    <2>1. text = SubSeq(h, a, b)
        BY <1>14 DEF PartText
    <2>2. /\ SubSeq(h, a, b) \in Headers
          /\ Len(SubSeq(h, a, b)) = IF a <= b THEN b - a + 1 ELSE 0
          /\ \A k \in 1..(b - a + 1) : SubSeq(h, a, b)[k] = h[a + k - 1]
        <3>1. a \in Int /\ b \in Int
            BY <1>9, <1>13
        <3> QED
            BY <1>9, <1>13, <3>1, SubHeader
    <2> HIDE DEF text, p
    <2>3. text \in Headers /\ Len(text) = b - a + 1
        BY <1>13, <2>1, <2>2
    <2>4. s - a + 1 \in 1..(b - a + 1) /\ a + (s - a + 1) - 1 = s
        BY <1>2, <1>8, <1>9, <1>12, <1>13
    <2>5. text[s - a + 1] = h[s]
        BY <2>1, <2>2, <2>4
    <2>6. h[s] \in ToSet(text)
        BY <2>3, <2>4, <2>5, HeaderType
    <2>7. ~ (ToSet(text) \subseteq {" "})
        BY <1>c, <2>6
    <2> QED
        BY <1>14, <2>7 DEF AllNamed, text
<1>17. /\ e <= b
       /\ NameIn(PartText(h, p)) = Trimmed(h, a, e - 1)
       /\ ValueIn(PartText(h, p)) = Trimmed(h, e + 1, b)
    <2>1. /\ IsNamed(PartText(h, <<a, b>>)) <=> NextIn(h, {"="}, a) <= b
          /\ NextIn(h, {"="}, a) <= b =>
               /\ NameIn(PartText(h, <<a, b>>)) = Trimmed(h, a, NextIn(h, {"="}, a) - 1)
               /\ ValueIn(PartText(h, <<a, b>>)) = Trimmed(h, NextIn(h, {"="}, a) + 1, b)
        BY <1>9, <1>13, PartMeaning
    <2> QED
        BY <1>15, <1>16, <2>1
<1>18. v = b + 1
    <2>1. \A j \in (e + 1)..Len(h) : j \in a..Len(h)
        BY <1>1, <1>2, <1>8, <1>9
    <2>2. \A j \in (e + 1)..Len(h) : j < b + 1 => h[j] \notin {";"}
        BY <1>d, <2>1
    <2>3. e + 1 \in 1..(Len(h) + 2) /\ b + 1 \in (e + 1)..(Len(h) + 1)
        BY <1>1, <1>2, <1>9, <1>13, <1>17
    <2> DEFINE f == e + 1
               m == b + 1
    <2>4. /\ f \in 1..(Len(h) + 2) /\ m \in f..(Len(h) + 1)
          /\ m <= Len(h) => h[m] \in {";"}
          /\ \A j \in f..Len(h) : j < m => h[j] \notin {";"}
        BY <1>d, <2>2, <2>3
    <2> HIDE DEF f, m
    <2>5. NextIn(h, {";"}, f) = m
        BY <2>4, NextIs
    <2> QED
        BY <1>3, <2>5 DEF f, m
<1>19. PairAt(h, i).name = NameIn(PartText(h, p))
    <2> DEFINE c == e - 1
    <2>1. s \in Nat /\ s >= 1 /\ c \in Nat /\ c <= Len(h) /\ a <= s
        BY <1>1, <1>2, <1>8, <1>9
    <2> HIDE DEF c
    <2>2. TrimSpace(SubSeq(h, s, c)) = Trimmed(h, s, c)
        BY <2>1, TrimCut
    <2>3. Trimmed(h, a, c) = Trimmed(h, s, c)
        <3>1. c \in Int
            BY <2>1
        <3> QED
            BY <1>9, <1>10, <2>1, <3>1, TrimmedAhead
    <2> QED
        BY <1>6, <1>17, <2>2, <2>3 DEF c
<1>20. PairAt(h, i).value = ValueIn(PartText(h, p))
    <2> DEFINE c == e + 1
    <2>1. c \in Nat /\ c >= 1
        BY <1>2
    <2> HIDE DEF c
    <2>2. TrimSpace(SubSeq(h, c, b)) = Trimmed(h, c, b)
        BY <1>13, <2>1, TrimCut
    <2>3. v - 1 = b
        BY <1>13, <1>18
    <2> QED
        BY <1>6, <1>17, <2>2, <2>3 DEF c
<1>21. \A j \in i..(a - 1) : h[j] # "="
    <2>1. \A j \in i..(a - 1) : j \in i..Len(h) /\ j < e
        BY <1>1, <1>2, <1>8, <1>9
    <2> QED
        BY <1>5, <2>1
<1>22. a >= i
    BY <1>8
<1> HIDE DEF p
<1>23. RoundReads(h, i, p)
    BY <1>14, <1>16, <1>18, <1>19, <1>20, <1>22 DEF RoundReads, v
<1> QED
    BY <1>14, <1>21, <1>23

\* The parts with a name from there on are that one and those the next rounds see.
LEMMA OtherParts ==
    ASSUME NEW h \in Headers, NEW i \in 1..(Len(h) + 2), NEW p \in Parts(h),
           RoundReads(h, i, p),
           \A j \in i..(p[1] - 1) : h[j] # "=",
           NEW q \in Parts(h), q[1] >= i, IsNamed(PartText(h, q))
    PROVE  q = p \/ q[1] >= ValueEnd(h, i) + 1
<1> DEFINE a == p[1]
           b == p[2]
           c == q[1]
           d == q[2]
           e == NextIn(h, {"="}, c)
<1>1. Len(h) \in Nat
    BY HeaderType
<1>2. /\ a \in 1..(Len(h) + 1) /\ b \in 0..Len(h) /\ a <= b + 1
      /\ p = <<a, b>> /\ IsStart(h, a)
    BY PartShape
<1>3. /\ c \in 1..(Len(h) + 1) /\ d \in 0..Len(h) /\ c <= d + 1
      /\ q = <<c, d>> /\ IsStart(h, c)
    BY PartShape
<1>4. \A j \in a..b : h[j] # ";"
    BY PartShape
<1>5. \A j \in c..d : h[j] # ";"
    BY PartShape
<1>6. NextIn(h, {";"}, a) = b + 1 /\ NextIn(h, {";"}, c) = d + 1
    BY PartShape
<1>7. \A j \in i..(a - 1) : h[j] # "="
    OBVIOUS
<1>8. c >= i /\ ValueEnd(h, i) = b + 1
    BY DEF RoundReads
<1>9. e \in c..(Len(h) + 1) /\ (IsNamed(PartText(h, <<c, d>>)) <=> e <= d)
    <2> HIDE DEF c, d
    <2>1. c \in Nat /\ d \in Nat /\ c >= 1 /\ c <= d + 1 /\ d <= Len(h)
        BY <1>1, <1>3
    <2> QED
        BY <2>1, PartMeaning
<1>10. e <= d => h[e] = "="
    <2> HIDE DEF c, d
    <2>1. c \in Nat /\ d \in Nat /\ c >= 1 /\ c <= d + 1 /\ d <= Len(h)
        BY <1>1, <1>3
    <2> QED
        BY <2>1, PartMeaning
<1>11. e <= d
    BY <1>3, <1>9
<1> HIDE DEF a, b, c, d, e
<1>12. CASE c = a
    <2>1. d + 1 = b + 1
        BY <1>6, <1>12
    <2>2. d = b
        BY <1>2, <1>3, <2>1
    <2> QED
        BY <1>2, <1>3, <1>12, <2>2
<1>13. CASE c < a
    <2>1. a # 1 /\ a - 1 \in i..(a - 1) /\ a - 1 >= c
        BY <1>1, <1>2, <1>3, <1>8, <1>13
    <2>2. h[a - 1] = ";"
        BY <1>2, <2>1 DEF IsStart
    <2>3. ~ (a - 1 \in c..d)
        BY <1>5, <2>2
    <2>4. d < a - 1
        BY <1>1, <1>2, <1>3, <2>1, <2>3
    <2>5. e \in i..(a - 1)
        BY <1>1, <1>2, <1>3, <1>8, <1>9, <1>11, <2>4
    <2> QED
        BY <1>7, <1>10, <1>11, <2>5
<1>14. CASE c > a
    <2>1. c # 1
        BY <1>1, <1>2, <1>3, <1>14
    <2>2. h[c - 1] = ";"
        BY <1>3, <2>1 DEF IsStart
    <2>3. ~ (c - 1 \in a..b)
        BY <1>4, <2>2
    <2>4. c >= b + 1 + 1
        BY <1>1, <1>2, <1>3, <1>14, <2>3
    <2> QED
        BY <1>8, <2>4 DEF c
<1>15. c = a \/ c < a \/ c > a
    BY <1>1, <1>2, <1>3
<1> QED
    BY <1>12, <1>13, <1>14, <1>15

\* The parts of a name from a position on.
NamedFrom(h, i, key) ==
    {p \in Parts(h) : p[1] >= i /\ IsNamed(PartText(h, p)) /\ NameIn(PartText(h, p)) = key}

\* From a position on, the last pair of a name holds the value of the last part of it.
ReadsFrom(h, i, key) ==
    LET found  == Scan(h)[i]
        places == PlacesOf(found, key)
        named  == NamedFrom(h, i, key)
    IN  \/ places = {} /\ named = {}
        \/ /\ places # {}
           /\ \E p \in named :
                /\ \A q \in named : q[1] <= p[1]
                /\ found[Max(places)].value = ValueIn(PartText(h, p))

\* One round: what holds from the next one on holds from this one on.
LEMMA RoundKeepsReading ==
    ASSUME NEW h \in Headers, NEW i \in 1..(Len(h) + 2), NEW key, NEW p \in Parts(h),
           NameEnd(h, i) <= Len(h), RoundReads(h, i, p),
           \A j \in i..(p[1] - 1) : h[j] # "=",
           ReadsFrom(h, ValueEnd(h, i) + 1, key)
    PROVE  ReadsFrom(h, i, key)
<1> DEFINE j == ValueEnd(h, i) + 1
           T == {PairAt(h, k) : k \in 1..(Len(h) + 2)}
           x == PairAt(h, i)
           s == Scan(h)[j]
           t == <<x>> \o s
           later == NamedFrom(h, j, key)
           named == NamedFrom(h, i, key)
<1>1. Len(h) \in Nat
    BY HeaderType
<1>2. j \in (i + 1)..(Len(h) + 2)
    BY RoundPositions
<1>3. j \in 1..(Len(h) + 2) /\ j \in Nat /\ j >= i
    <2> HIDE DEF j
    <2> QED
        BY <1>1, <1>2
<1>4. s \in Seq(T) /\ x \in T
    BY <1>3, ScanType
<1>5. Scan(h)[i] = t
    <2>1. ~ (NameEnd(h, i) > Len(h))
        <3>1. NameEnd(h, i) \in 1..(Len(h) + 1)
            BY RoundPositions
        <3> QED
            BY <1>1, <3>1
    <2>2. Scan(h)[i] = Round(h, Scan(h), i)
        BY ScanDefined
    <2> QED
        BY <2>1, <2>2 DEF Round
<1>6. p[1] \in Nat /\ p[1] < j
    <2>1. p[1] \in 1..(Len(h) + 1) /\ p[2] \in 0..Len(h) /\ p[1] <= p[2] + 1
        BY PartShape
    <2>2. j = p[2] + 1 + 1
        BY DEF RoundReads
    <2> HIDE DEF j
    <2> QED
        BY <1>1, <2>1, <2>2
<1>7. p \in named <=> x.name = key
    BY DEF RoundReads, NamedFrom
<1>8. x.value = ValueIn(PartText(h, p))
    BY DEF RoundReads
<1>9. \A q \in Parts(h) : q[1] \in Nat
    <2> TAKE q \in Parts(h)
    <2>1. q[1] \in 1..(Len(h) + 1)
        BY PartShape
    <2> QED
        BY <1>1, <2>1
<1>10. \A q \in later : q \in named
    <2> TAKE q \in later
    <2>1. q \in Parts(h) /\ q[1] >= j
        BY DEF NamedFrom
    <2>2. q[1] \in Nat
        BY <1>9, <2>1
    <2>3. q[1] >= i
        <3> HIDE DEF j, later
        <3> QED
            BY <1>1, <1>3, <2>1, <2>2
    <2> QED
        BY <2>3 DEF NamedFrom
<1>11. \A q \in named : q = p \/ q \in later
    <2> TAKE q \in named
    <2>1. q \in Parts(h) /\ q[1] >= i /\ IsNamed(PartText(h, q))
        BY DEF NamedFrom
    <2>2. q = p \/ q[1] >= j
        BY <2>1, OtherParts
    <2> QED
        BY <2>2 DEF NamedFrom
<1>12. \A q \in later : q \in Parts(h) /\ q[1] >= j
    BY DEF NamedFrom
<1> HIDE DEF j, T, x, s, t, later, named
<1>13. /\ PlacesOf(s, key) # {} =>
            /\ PlacesOf(t, key) # {}
            /\ t[Max(PlacesOf(t, key))] = s[Max(PlacesOf(s, key))]
       /\ PlacesOf(s, key) = {} /\ x.name = key =>
            PlacesOf(t, key) # {} /\ t[Max(PlacesOf(t, key))] = x
       /\ PlacesOf(s, key) = {} /\ x.name # key => PlacesOf(t, key) = {}
    <2>1. t = <<x>> \o s
        BY DEF t
    <2>2. OneInFront(s, x, t, key)
        BY <1>4, <2>1, LastPair
    <2> QED
        BY <2>2 DEF OneInFront
<1>14. \/ PlacesOf(s, key) = {} /\ later = {}
       \/ /\ PlacesOf(s, key) # {}
          /\ \E q \in later :
               /\ \A r \in later : r[1] <= q[1]
               /\ s[Max(PlacesOf(s, key))].value = ValueIn(PartText(h, q))
    BY DEF ReadsFrom, s, j, later
<1>15. SUFFICES \/ PlacesOf(t, key) = {} /\ named = {}
                \/ /\ PlacesOf(t, key) # {}
                   /\ \E q \in named :
                        /\ \A r \in named : r[1] <= q[1]
                        /\ t[Max(PlacesOf(t, key))].value = ValueIn(PartText(h, q))
    BY <1>5 DEF ReadsFrom, named
<1>16. CASE PlacesOf(s, key) # {}
    <2>1. PICK q \in later : /\ \A r \in later : r[1] <= q[1]
                             /\ s[Max(PlacesOf(s, key))].value = ValueIn(PartText(h, q))
        BY <1>14, <1>16
    <2>2. q[1] \in Nat /\ q[1] >= j
        BY <1>9, <1>12
    <2>3. p[1] <= q[1]
        BY <1>3, <1>6, <2>2
    <2>4. \A r \in named : r[1] <= q[1]
        BY <1>11, <2>1, <2>3
    <2>5. q \in named
        BY <1>10
    <2> QED
        BY <1>13, <1>16, <2>1, <2>4, <2>5
<1>17. CASE PlacesOf(s, key) = {} /\ x.name = key
    <2>1. later = {}
        BY <1>14, <1>17
    <2>2. named = {p}
        BY <1>7, <1>11, <1>17, <2>1
    <2>3. \A r \in named : r[1] <= p[1]
        BY <1>6, <2>2
    <2> QED
        BY <1>8, <1>13, <1>17, <2>2, <2>3
<1>18. CASE PlacesOf(s, key) = {} /\ x.name # key
    <2>1. named = {}
        BY <1>7, <1>11, <1>14, <1>18
    <2> QED
        BY <1>13, <1>18, <2>1
<1> QED
    BY <1>16, <1>17, <1>18

\* From the first round on, by descent from the end of the header.
LEMMA ScanReads ==
    ASSUME NEW h \in Headers, AllNamed(h), NEW key
    PROVE  ReadsFrom(h, 1, key)
<1> DEFINE n == Len(h) + 2
           late == {i \in 1..n : (IsStart(h, i) \/ i = n) /\ ~ ReadsFrom(h, i, key)}
<1>1. Len(h) \in Nat /\ n \in Nat
    BY HeaderType
<1>2. late = {}
    <2> SUFFICES ASSUME late # {} PROVE FALSE
        OBVIOUS
    <2>1. late \in SUBSET (1..n)
        OBVIOUS
    <2>2. Max(late) \in late /\ \A k \in late : k <= Max(late)
        <3> HIDE DEF late, n
        <3> QED
            BY <1>1, <2>1, LastPosition
    <2> DEFINE i == Max(late)
    <2>3. i \in 1..n /\ (IsStart(h, i) \/ i = n) /\ ~ ReadsFrom(h, i, key)
        BY <2>2
    <2>4. \A k \in (i + 1)..n : IsStart(h, k) \/ k = n => ReadsFrom(h, k, key)
        <3>1. \A k \in (i + 1)..n : k \in 1..n /\ ~ (k <= i)
            <4> HIDE DEF late, n
            <4> QED
                BY <1>1, <2>3
        <3> QED
            BY <2>2, <3>1
    <2> HIDE DEF i, late
    <2>5. NameEnd(h, i) \in 1..(Len(h) + 1)
        BY <2>3, RoundPositions
    <2>6. CASE NameEnd(h, i) > Len(h)
        <3>1. Scan(h)[i] = <<>>
            BY <2>3, <2>6, ScanDefined DEF Round
        <3>2. PlacesOf(<<>>, key) = {}
            BY DEF PlacesOf
        <3>3. NamedFrom(h, i, key) = {}
            BY <2>3, <2>6, NothingLeft DEF NamedFrom
        <3> QED
            BY <2>3, <3>1, <3>2, <3>3 DEF ReadsFrom
    <2>7. CASE NameEnd(h, i) <= Len(h)
        <3>1. ValueEnd(h, i) \in 1..(Len(h) + 1) /\ ValueEnd(h, i) + 1 \in (i + 1)..n
            <4>1. /\ ValueEnd(h, i) \in (NameEnd(h, i) + 1)..(Len(h) + 1)
                  /\ ValueEnd(h, i) + 1 \in (i + 1)..n
                BY <2>3, <2>7, RoundPositions
            <4> QED
                BY <1>1, <2>5, <4>1
        <3>2. IsStart(h, i)
            <4>1. i # n
                <5> HIDE DEF n
                <5> QED
                    BY <1>1, <3>1
            <4> QED
                BY <2>3, <4>1
        <3>3. PICK p \in Parts(h) : /\ RoundReads(h, i, p)
                                    /\ \A j \in i..(p[1] - 1) : h[j] # "="
            BY <2>3, <2>7, <3>2, RoundPart
        <3>4. ValueEnd(h, i) = p[2] + 1
            BY <3>3 DEF RoundReads
        <3>5. ValueEnd(h, i) <= Len(h) => h[ValueEnd(h, i)] = ";"
            BY <3>4, PartShape
        <3>6. IsStart(h, ValueEnd(h, i) + 1) \/ ValueEnd(h, i) + 1 = n
            <4> DEFINE v == ValueEnd(h, i)
            <4>1. v <= Len(h) \/ v + 1 = n
                BY <1>1, <3>1
            <4>2. (v + 1) - 1 = v
                BY <1>1, <3>1
            <4> HIDE DEF v
            <4>3. v <= Len(h) => IsStart(h, v + 1)
                BY <3>5, <4>2 DEF IsStart, v
            <4> QED
                BY <4>1, <4>3 DEF v
        <3>7. ReadsFrom(h, ValueEnd(h, i) + 1, key)
            BY <2>4, <3>1, <3>6
        <3>8. ReadsFrom(h, i, key)
            BY <2>3, <2>7, <3>3, <3>7, RoundKeepsReading
        <3> QED
            BY <2>3, <3>8
    <2>8. NameEnd(h, i) > Len(h) \/ NameEnd(h, i) <= Len(h)
        BY <1>1, <2>5
    <2> QED
        BY <2>6, <2>7, <2>8
<1>3. 1 \in 1..n /\ IsStart(h, 1)
    BY <1>1 DEF IsStart
<1> QED
    BY <1>2, <1>3

\* A header has one part that starts last among some.
LEMMA SamePart ==
    ASSUME NEW h \in Headers, NEW p \in Parts(h), NEW q \in Parts(h), p[1] = q[1]
    PROVE  p = q
<1>1. /\ p = <<p[1], p[2]>> /\ q = <<q[1], q[2]>>
      /\ p[2] \in 0..Len(h) /\ q[2] \in 0..Len(h)
    BY PartShape
<1>2. NextIn(h, {";"}, p[1]) = p[2] + 1 /\ NextIn(h, {";"}, q[1]) = q[2] + 1
    BY PartShape
<1>3. p[2] + 1 = q[2] + 1
    BY <1>2
<1>4. p[2] = q[2]
    BY <1>1, <1>3, HeaderType
<1> QED
    BY <1>1, <1>4

\* What the filter reads of a name is what the header means by it.
LEMMA ParseMeans ==
    ASSUME NEW h \in Headers, AllNamed(h), NEW name \in CookieNames
    PROVE  ParseChallengeCookies(h)[name] = MeansCookie(h, name)
<1> DEFINE key == <<name>>
           found == Pairs(h)
           places == PlacesOf(found, key)
           named == {p \in Parts(h) : IsNamed(PartText(h, p)) /\ NameIn(PartText(h, p)) = key}
           last == CHOOSE p \in named : \A q \in named : q[1] <= p[1]
<1>1. ParseChallengeCookies(h)[name] = IF places = {} THEN NoValue ELSE found[Max(places)].value
    BY DEF ParseChallengeCookies, PlacesOf
<1>2. MeansCookie(h, name) = IF named = {} THEN NoValue ELSE ValueIn(PartText(h, last))
    BY DEF MeansCookie
<1> HIDE DEF key, found
<1>3. named = NamedFrom(h, 1, key)
    <2>1. \A p \in Parts(h) : p[1] >= 1
        <3> TAKE p \in Parts(h)
        <3>1. p[1] \in 1..(Len(h) + 1)
            BY PartShape
        <3> QED
            BY <3>1, HeaderType
    <2> QED
        BY <2>1 DEF NamedFrom
<1>4. \/ places = {} /\ named = {}
      \/ /\ places # {}
         /\ \E p \in named :
              /\ \A q \in named : q[1] <= p[1]
              /\ found[Max(places)].value = ValueIn(PartText(h, p))
    <2>1. ReadsFrom(h, 1, key)
        BY ScanReads
    <2> HIDE DEF named
    <2> QED
        BY <1>3, <2>1 DEF ReadsFrom, Pairs, found
<1>5. CASE places = {} /\ named = {}
    BY <1>1, <1>2, <1>5
<1>6. CASE places # {} /\ \E p \in named :
                            /\ \A q \in named : q[1] <= p[1]
                            /\ found[Max(places)].value = ValueIn(PartText(h, p))
    <2>1. PICK p \in named : /\ \A q \in named : q[1] <= p[1]
                             /\ found[Max(places)].value = ValueIn(PartText(h, p))
        BY <1>6
    <2>2. last \in named /\ \A q \in named : q[1] <= last[1]
        BY <2>1
    <2>3. p \in Parts(h) /\ last \in Parts(h)
        BY <2>1, <2>2
    <2> HIDE DEF last, named
    <2>4. last[1] = p[1]
        <3>1. p[1] \in 1..(Len(h) + 1) /\ last[1] \in 1..(Len(h) + 1)
            BY <2>3, PartShape
        <3>2. p[1] <= last[1] /\ last[1] <= p[1]
            BY <2>1, <2>2
        <3> QED
            BY <3>1, <3>2, HeaderType
    <2>5. last = p
        BY <2>3, <2>4, SamePart
    <2> QED
        BY <1>1, <1>2, <1>6, <2>1, <2>5
<1> QED
    BY <1>4, <1>5, <1>6

-----------------------------------------------------------------------------
(* The properties of the cookies.                                          *)

\* A gated stream holds what the filter parses out of the header of its request.
CookiesParsed ==
    gated => request \in Requests /\ cookies = ParseChallengeCookies(request.cookie)

LEMMA CookiesParsedAlways == Spec => []CookiesParsed
<1>1. Init => CookiesParsed
    BY DEF Init, CookiesParsed
<1>2. CookiesParsed /\ [Next]_vars => CookiesParsed'
    <2> SUFFICES ASSUME CookiesParsed, [Next]_vars PROVE CookiesParsed'
        OBVIOUS
    <2>1. ASSUME NEW list \in Configs, OnPluginStart(list) PROVE CookiesParsed'
        BY <2>1 DEF OnPluginStart, CookiesParsed
    <2>2. ASSUME NEW r \in Requests, OnHttpRequestHeaders(r) PROVE CookiesParsed'
        BY <2>2 DEF OnHttpRequestHeaders, CookiesParsed
    <2>3. CASE EndStream
        BY <2>3 DEF EndStream, CookiesParsed
    <2>4. CASE UNCHANGED vars
        BY <2>4 DEF vars, CookiesParsed
    <2> QED
        BY <2>1, <2>2, <2>3, <2>4 DEF Next
<1> QED
    BY <1>1, <1>2, PTL DEF Spec

\* "Every cookie counts for what it is": whatever the header, if each of its parts
\* has a name, the one pass of parseChallengeCookies finds for every cookie of the
\* filter what the last part of that name holds.
THEOREM CookiesReadAlways == Spec => []CookiesRead
<1>1. CookiesParsed => CookiesRead
    <2> SUFFICES ASSUME CookiesParsed, gated, AllNamed(request.cookie), NEW name \in CookieNames
                 PROVE  cookies[name] = MeansCookie(request.cookie, name)
        BY DEF CookiesRead
    <2>1. request \in Requests /\ cookies = ParseChallengeCookies(request.cookie)
        BY DEF CookiesParsed
    <2>2. request.cookie \in Headers
        BY <2>1, HeadersAssumption
    <2> QED
        BY <2>1, <2>2, ParseMeans
<1> QED
    BY <1>1, CookiesParsedAlways, PTL

-----------------------------------------------------------------------------
(* Headers as browsers write them.                                         *)

LEMMA PrefixOf ==
    ASSUME NEW w \in Headers, NEW t \in Headers
    PROVE  IsPrefix(w, t) <=> Len(w) <= Len(t) /\ \A k \in 1..Len(w) : t[k] = w[k]
<1> DEFINE n == Len(w)
<1>1. n \in Nat /\ Len(t) \in Nat
    BY HeaderType
<1>2. IsPrefix(w, t) <=> n <= Len(t) /\ SubSeq(w, 1, n) = SubSeq(t, 1, n)
    BY DEF IsPrefix
<1> HIDE DEF n
<1>3. ASSUME n <= Len(t)
      PROVE  SubSeq(w, 1, n) = SubSeq(t, 1, n) <=> \A k \in 1..n : t[k] = w[k]
    <2>1. /\ SubSeq(w, 1, n) \in Headers /\ Len(SubSeq(w, 1, n)) = n
          /\ \A k \in 1..n : SubSeq(w, 1, n)[k] = w[k]
        <3>1. \A k \in 1..n : 1 + k - 1 = k
            BY <1>1
        <3>2. 1 \in Int /\ n \in Int /\ n <= Len(w) /\ n - 1 + 1 = n /\ (1 <= n \/ n = 0)
            BY <1>1 DEF n
        <3>3. /\ SubSeq(w, 1, n) \in Headers
              /\ Len(SubSeq(w, 1, n)) = IF 1 <= n THEN n - 1 + 1 ELSE 0
              /\ \A k \in 1..(n - 1 + 1) : SubSeq(w, 1, n)[k] = w[1 + k - 1]
            BY <3>2, SubHeader
        <3> QED
            BY <3>1, <3>2, <3>3
    <2>2. /\ SubSeq(t, 1, n) \in Headers /\ Len(SubSeq(t, 1, n)) = n
          /\ \A k \in 1..n : SubSeq(t, 1, n)[k] = t[k]
        <3>1. \A k \in 1..n : 1 + k - 1 = k
            BY <1>1
        <3>2. 1 \in Int /\ n \in Int /\ n <= Len(t) /\ n - 1 + 1 = n /\ (1 <= n \/ n = 0)
            BY <1>1, <1>3
        <3>3. /\ SubSeq(t, 1, n) \in Headers
              /\ Len(SubSeq(t, 1, n)) = IF 1 <= n THEN n - 1 + 1 ELSE 0
              /\ \A k \in 1..(n - 1 + 1) : SubSeq(t, 1, n)[k] = t[1 + k - 1]
            BY <3>2, SubHeader
        <3> QED
            BY <3>1, <3>2, <3>3
    <2> DEFINE u == SubSeq(w, 1, n)
               v == SubSeq(t, 1, n)
    <2> HIDE DEF u, v
    <2>3. /\ u \in Headers /\ v \in Headers /\ Len(u) = n /\ Len(v) = n
          /\ \A k \in 1..n : u[k] = w[k] /\ v[k] = t[k]
        BY <2>1, <2>2 DEF u, v
    <2>4. (\A k \in 1..n : t[k] = w[k]) => u = v
        BY <2>3, SameHeader
    <2>5. u = v => \A k \in 1..n : t[k] = w[k]
        BY <2>3
    <2> QED
        BY <2>4, <2>5 DEF u, v
<1> QED
    BY <1>2, <1>3 DEF n

\* Where a text occurs in a header.
LEMMA OccursAt ==
    ASSUME NEW h \in Headers, NEW w \in Headers, NEW i \in 1..Len(h)
    PROVE  i \in Occurrences(w, h) <=>
             Len(w) <= Len(h) - i + 1 /\ \A k \in 1..Len(w) : h[i + k - 1] = w[k]
<1> DEFINE t == SubSeq(h, i, Len(h))
           n == Len(w)
<1>1. Len(h) \in Nat /\ n \in Nat
    BY HeaderType
<1>2. t \in Headers /\ Len(t) = Len(h) - i + 1
    <2>1. i \in Int /\ Len(h) \in Int /\ i >= 1 /\ Len(h) <= Len(h) /\ i <= Len(h)
        BY <1>1
    <2> QED
        BY <2>1, SubHeader
<1>3. \A k \in 1..(Len(h) - i + 1) : t[k] = h[i + k - 1]
    <2>1. i \in Int /\ Len(h) \in Int /\ i >= 1 /\ Len(h) <= Len(h)
        BY <1>1
    <2> QED
        BY <2>1, SubHeader
<1>4. i \in Occurrences(w, h) <=> IsPrefix(w, t)
    <2>1. i \in DOMAIN h
        BY HeaderType
    <2> QED
        BY <2>1 DEF Occurrences
<1> HIDE DEF t, n
<1>5. IsPrefix(w, t) <=> n <= Len(t) /\ \A k \in 1..n : t[k] = w[k]
    BY <1>2, PrefixOf DEF n
<1>6. n <= Len(h) - i + 1 => \A k \in 1..n : k \in 1..(Len(h) - i + 1)
    BY <1>1
<1> QED
    BY <1>2, <1>3, <1>4, <1>5, <1>6 DEF n

LEMMA IntervalEnds ==
    ASSUME NEW a \in Nat, NEW b \in Nat, a >= 1
    PROVE  /\ a <= b => a..b # {} /\ Min(a..b) = a /\ Max(a..b) = b
           /\ b < a => a..b = {}
           /\ a <= b \/ b < a
           /\ a \in Int /\ b \in Int
<1>1. ASSUME a <= b PROVE a..b # {} /\ Min(a..b) = a /\ Max(a..b) = b
    <2>1. a \in a..b /\ b \in a..b /\ a..b \in SUBSET (1..b)
        BY <1>1
    <2>2. /\ Min(a..b) \in a..b /\ \A j \in a..b : Min(a..b) <= j
          /\ Max(a..b) \in a..b /\ \A j \in a..b : j <= Max(a..b)
        BY <2>1, FirstPosition, LastPosition
    <2> DEFINE p == Min(a..b)
               q == Max(a..b)
    <2>3. p \in a..b /\ q \in a..b /\ p <= a /\ b <= q
        BY <2>1, <2>2
    <2> HIDE DEF p, q
    <2>4. p = a /\ q = b
        BY <2>3
    <2> QED
        BY <2>1, <2>4 DEF p, q
<1> QED
    BY <1>1

\* A cut without spaces is as it is.
LEMMA TrimmedAsIs ==
    ASSUME NEW h \in Headers, NEW a \in Nat, NEW b \in Nat, a >= 1, b <= Len(h),
           \A j \in a..b : h[j] # " "
    PROVE  Trimmed(h, a, b) = SubSeq(h, a, b)
<1> DEFINE kept == {j \in a..b : h[j] # " "}
<1>1. kept = a..b
    OBVIOUS
<1>2. Trimmed(h, a, b) = IF kept = {} THEN <<>> ELSE SubSeq(h, Min(kept), Max(kept))
    BY DEF Trimmed
<1> HIDE DEF kept
<1>3. CASE a <= b
    BY <1>1, <1>2, <1>3, IntervalEnds
<1>4. CASE b < a
    <2>1. a..b = {}
        BY <1>4, IntervalEnds
    <2>2. SubSeq(h, a, b) = <<>>
        BY <1>4, IntervalEnds, SubSeqEmpty
    <2> QED
        BY <1>1, <1>2, <2>1, <2>2
<1> QED
    BY <1>3, <1>4, IntervalEnds

LEMMA OnePiece ==
    ASSUME NEW h \in Headers, NEW m \in Nat, m >= 1, m <= Len(h)
    PROVE  SubSeq(h, m, m) = <<h[m]>>
<1> DEFINE u == SubSeq(h, m, m)
           v == <<h[m]>>
<1>1. Len(h) \in Nat /\ m \in 1..Len(h)
    BY HeaderType
<1>2. h[m] \in Pieces
    BY <1>1, ElementOfSeq DEF Headers
<1>3. v \in Headers /\ Len(v) = 1 /\ v[1] = h[m]
    BY <1>2 DEF Headers
<1>4. m \in Int /\ m <= m /\ m - m + 1 = 1 /\ m + 1 - 1 = m
    OBVIOUS
<1>5. /\ u \in Headers /\ Len(u) = IF m <= m THEN m - m + 1 ELSE 0
      /\ \A k \in 1..(m - m + 1) : u[k] = h[m + k - 1]
    BY <1>4, SubHeader
<1>6. 1 \in 1..(m - m + 1)
    BY <1>4
<1> HIDE DEF u, v
<1>7. Len(u) = 1 /\ u[1] = h[m]
    BY <1>4, <1>5, <1>6
<1>8. \A k \in 1..Len(u) : u[k] = v[k]
    BY <1>3, <1>7
<1>9. u = v
    BY <1>3, <1>5, <1>7, <1>8, SameHeader
<1> QED
    BY <1>9 DEF u, v

\* Where a part of a header begins, behind the space that comes after a ";".
Begin(p) == IF p[1] = 1 THEN 1 ELSE p[1] + 1

LEMMA CanonicalPart ==
    ASSUME NEW h \in Headers, Canonical(h), NEW p \in Parts(h)
    PROVE  /\ Begin(p) \in p[1]..p[2]
           /\ p[1] # 1 => h[p[1]] = " "
           /\ \A j \in Begin(p)..p[2] : h[j] # " "
<1> DEFINE a == p[1]
           b == p[2]
           text == PartText(h, p)
           bare == IF a = 1 THEN text ELSE Tail(text)
<1>1. Len(h) \in Nat
    BY HeaderType
<1>2. a \in 1..(Len(h) + 1) /\ b \in 0..Len(h) /\ a <= b + 1
    BY PartShape
<1>3. /\ a # 1 => text # <<>> /\ Head(text) = " "
      /\ bare # <<>> /\ " " \notin ToSet(bare)
    BY DEF Canonical
<1>4. text = SubSeq(h, a, b)
    BY DEF PartText
<1>5. Begin(p) = IF a = 1 THEN 1 ELSE a + 1
    BY DEF Begin
<1> HIDE DEF a, b, text
<1> DEFINE n == b - a + 1
<1>6. n \in Nat /\ a \in Int /\ b \in Int /\ a >= 1 /\ b <= Len(h)
    BY <1>1, <1>2
<1>7. Len(text) = n
    <2>1. Len(text) = IF a <= b THEN b - a + 1 ELSE 0
        BY <1>4, <1>6, SubHeader
    <2>2. a <= b \/ n = 0
        BY <1>2, <1>6
    <2>3. a <= b => n = b - a + 1
        OBVIOUS
    <2>4. n = 0 => ~ (a <= b)
        BY <1>6
    <2> HIDE DEF n
    <2> QED
        BY <2>1, <2>2, <2>3, <2>4
<1>8. /\ text \in Headers
      /\ \A k \in 1..n : text[k] = h[a + k - 1]
    BY <1>4, <1>6, SubHeader
<1> HIDE DEF n
<1>9. CASE a = 1
    <2>1. bare = text
        BY <1>9
    <2> HIDE DEF bare
    <2>2. n # 0
        BY <1>3, <1>7, <1>8, <2>1, EmptySeq DEF Headers
    <2>3. b = n
        BY <1>6, <1>9 DEF n
    <2>4. Begin(p) \in a..b /\ Begin(p) = 1
        BY <1>5, <1>6, <1>9, <2>2, <2>3
    <2>5. \A j \in 1..n : h[j] # " "
        <3> TAKE j \in 1..n
        <3>1. text[j] \in ToSet(text)
            BY <1>7, <1>8, HeaderType
        <3>2. a + j - 1 = j
            BY <1>6, <1>9
        <3> QED
            BY <1>3, <1>8, <2>1, <3>1, <3>2
    <2> QED
        BY <1>9, <2>3, <2>4, <2>5 DEF a, b
<1>10. CASE a # 1
    <2>1. bare = Tail(text) /\ text # <<>> /\ Head(text) = " "
        BY <1>3, <1>10
    <2> HIDE DEF bare
    <2>2. /\ bare \in Headers /\ Len(bare) = n - 1
          /\ \A k \in 1..(n - 1) : bare[k] = text[k + 1]
        <3>1. text \in Seq(Pieces) /\ text # <<>>
            BY <1>8, <2>1 DEF Headers
        <3>2. /\ Tail(text) \in Seq(Pieces) /\ Len(Tail(text)) = Len(text) - 1
              /\ \A k \in 1..Len(Tail(text)) : Tail(text)[k] = text[k + 1]
            BY <3>1, HeadTailProperties
        <3>3. /\ bare \in Seq(Pieces) /\ Len(bare) = Len(text) - 1
              /\ \A k \in 1..Len(bare) : bare[k] = text[k + 1]
            BY <2>1, <3>2
        <3>4. Len(bare) = n - 1
            BY <1>7, <3>3
        <3> QED
            BY <3>3, <3>4 DEF Headers
    <2>3. n - 1 # 0 /\ n - 1 \in Nat
        <3>1. Len(bare) \in Nat
            BY <2>2, HeaderType
        <3>2. Len(bare) # 0
            BY <1>3, <2>2, EmptySeq DEF Headers
        <3> QED
            BY <2>2, <3>1, <3>2
    <2>4. Begin(p) = a + 1 /\ Begin(p) \in a..b
        BY <1>5, <1>6, <1>10, <2>3 DEF n
    <2>5. h[a] = " "
        <3>1. 1 \in 1..n /\ a + 1 - 1 = a
            BY <1>6, <2>3
        <3>2. text[1] = h[a]
            BY <1>8, <3>1
        <3>3. Head(text) = text[1]
            OBVIOUS
        <3> QED
            BY <2>1, <3>2, <3>3
    <2>6. \A j \in (a + 1)..b : h[j] # " "
        <3> TAKE j \in (a + 1)..b
        <3>1. j - a \in 1..(n - 1) /\ (j - a) + 1 \in 1..n /\ a + ((j - a) + 1) - 1 = j
            BY <1>6 DEF n
        <3>2. bare[j - a] = h[j]
            BY <1>8, <2>2, <3>1
        <3>3. bare[j - a] \in ToSet(bare)
            BY <2>2, <3>1, HeaderType
        <3> QED
            BY <1>3, <3>2, <3>3
    <2> QED
        BY <2>4, <2>5, <2>6 DEF a, b
<1> QED
    BY <1>9, <1>10

\* A part holds a cookie of the name when it begins with the name and "=".
Holds(h, p, name) ==
    Begin(p) + 1 <= p[2] /\ h[Begin(p)] = name /\ h[Begin(p) + 1] = "="

LEMMA CanonicalName ==
    ASSUME NEW h \in Headers, Canonical(h), NEW p \in Parts(h), NEW name \in Words
    PROVE  /\ IsNamed(PartText(h, p)) /\ NameIn(PartText(h, p)) = <<name>> <=> Holds(h, p, name)
           /\ Holds(h, p, name) => ValueIn(PartText(h, p)) = SubSeq(h, Begin(p) + 2, p[2])
<1> DEFINE a == p[1]
           b == p[2]
           m == Begin(p)
           e == NextIn(h, {"="}, a)
           text == PartText(h, p)
<1>1. Len(h) \in Nat
    BY HeaderType
<1>2. a \in 1..(Len(h) + 1) /\ b \in 0..Len(h) /\ a <= b + 1 /\ p = <<a, b>>
    BY PartShape
<1>3. m \in a..b /\ m = IF a = 1 THEN 1 ELSE a + 1
    BY CanonicalPart DEF Begin
<1>4. a # 1 => h[a] = " "
    BY CanonicalPart
<1>5. \A j \in m..b : h[j] # " "
    BY CanonicalPart
<1>6. Holds(h, p, name) <=> m + 1 <= b /\ h[m] = name /\ h[m + 1] = "="
    BY DEF Holds
<1>7. text = PartText(h, <<a, b>>)
    BY <1>2
<1>8. name # "="
    BY WordsAssumption
<1> HIDE DEF a, b, m, text
<1>9. /\ a \in Nat /\ b \in Nat /\ m \in Nat /\ a >= 1 /\ m >= 1 /\ b <= Len(h) /\ a <= b
      /\ (a = 1 /\ m = a) \/ (a # 1 /\ m = a + 1)
      /\ a <= m /\ m <= b
    BY <1>1, <1>2, <1>3
<1>10. /\ e \in a..(Len(h) + 1)
       /\ IsNamed(text) <=> e <= b
       /\ e <= b => /\ NameIn(text) = Trimmed(h, a, e - 1)
                    /\ ValueIn(text) = Trimmed(h, e + 1, b)
    BY <1>2, <1>7, <1>9, PartMeaning
<1>11. e <= b => h[e] = "="
    BY <1>2, <1>9, PartMeaning
<1>12. \A j \in a..Len(h) : j < e => h[j] # "="
    <2>1. a \in 1..(Len(h) + 2)
        BY <1>1, <1>9
    <2>2. \A j \in a..Len(h) : j < NextIn(h, {"="}, a) => h[j] \notin {"="}
        BY <2>1, NextFound
    <2> QED
        BY <2>2
<1>13. \A j \in a..(m - 1) : h[j] = " "
    <2>1. \A j \in a..(m - 1) : j = a /\ a # 1
        BY <1>9
    <2> QED
        BY <1>4, <2>1
<1>14. e \in Nat
    BY <1>1, <1>9, <1>10
<1>15. ASSUME e <= b
       PROVE  /\ m <= e
              /\ NameIn(text) = SubSeq(h, m, e - 1)
              /\ ValueIn(text) = SubSeq(h, e + 1, b)
    <2>1. m <= e
        <3>1. ~ (e \in a..(m - 1))
            BY <1>11, <1>13, <1>15
        <3>2. e >= a
            BY <1>10, <1>9, <1>1
        <3> HIDE DEF e
        <3> QED
            BY <1>9, <1>14, <3>1, <3>2
    <2> DEFINE c == e - 1
               d == e + 1
    <2>2. /\ c \in Nat /\ d \in Nat /\ d >= 1 /\ c <= Len(h) /\ c \in Int
        <3> HIDE DEF e
        <3> QED
            BY <1>1, <1>9, <1>14, <1>15, <2>1
    <2>3. (\A j \in m..c : j \in m..b) /\ (\A j \in d..b : j \in m..b)
        <3> HIDE DEF e
        <3> QED
            BY <1>9, <1>14, <1>15, <2>1
    <2>4. NameIn(text) = Trimmed(h, a, c) /\ ValueIn(text) = Trimmed(h, d, b)
        BY <1>10, <1>15
    <2> HIDE DEF c, d, e
    <2>5. Trimmed(h, a, c) = Trimmed(h, m, c)
        BY <1>9, <1>13, <2>2, TrimmedAhead
    <2>6. Trimmed(h, m, c) = SubSeq(h, m, c)
        BY <1>5, <1>9, <2>2, <2>3, TrimmedAsIs
    <2>7. Trimmed(h, d, b) = SubSeq(h, d, b)
        BY <1>5, <1>9, <2>2, <2>3, TrimmedAsIs
    <2> QED
        BY <2>1, <2>4, <2>5, <2>6, <2>7 DEF c, d
<1>16. ASSUME Holds(h, p, name) PROVE e = m + 1 /\ e <= b
    <2>1. m + 1 \in a..(Len(h) + 1) /\ a \in 1..(Len(h) + 2) /\ m + 1 <= b
        BY <1>1, <1>6, <1>9, <1>16
    <2>2. \A j \in a..Len(h) : j < m + 1 => j = m \/ j \in a..(m - 1)
        BY <1>1, <1>9
    <2>3. \A j \in a..Len(h) : j < m + 1 => h[j] \notin {"="}
        BY <1>6, <1>8, <1>13, <1>16, <2>2
    <2> DEFINE n == m + 1
    <2>4. h[n] \in {"="}
        BY <1>6, <1>16
    <2>5. n \in a..(Len(h) + 1) /\ \A j \in a..Len(h) : j < n => h[j] \notin {"="}
        BY <2>1, <2>3
    <2> HIDE DEF n
    <2>6. NextIn(h, {"="}, a) = n
        BY <2>1, <2>4, <2>5, NextIs
    <2> QED
        BY <2>1, <2>6 DEF n
<1> HIDE DEF e
<1>17. ASSUME Holds(h, p, name)
       PROVE  /\ IsNamed(text) /\ NameIn(text) = <<name>>
              /\ ValueIn(text) = SubSeq(h, m + 2, b)
    <2>1. e = m + 1 /\ e <= b /\ e - 1 = m /\ e + 1 = m + 2
        BY <1>9, <1>16, <1>17
    <2>2. IsNamed(text)
        BY <1>10, <2>1
    <2>3. NameIn(text) = SubSeq(h, m, m) /\ ValueIn(text) = SubSeq(h, m + 2, b)
        BY <1>15, <2>1
    <2>4. SubSeq(h, m, m) = <<h[m]>>
        BY <1>1, <1>9, OnePiece
    <2> QED
        BY <1>6, <1>17, <2>2, <2>3, <2>4
<1>18. ASSUME IsNamed(text), NameIn(text) = <<name>>
       PROVE  Holds(h, p, name)
    <2>1. e <= b /\ m <= e /\ SubSeq(h, m, e - 1) = <<name>>
        BY <1>10, <1>15, <1>18
    <2> DEFINE c == e - 1
    <2>2. c \in Int /\ m \in Int /\ m >= 1 /\ c <= Len(h)
        BY <1>1, <1>9, <1>14, <2>1
    <2> HIDE DEF c
    <2>3. /\ Len(SubSeq(h, m, c)) = IF m <= c THEN c - m + 1 ELSE 0
          /\ \A k \in 1..(c - m + 1) : SubSeq(h, m, c)[k] = h[m + k - 1]
        BY <2>2, SubHeader
    <2>4. SubSeq(h, m, c) = <<name>>
        BY <2>1 DEF c
    <2>5. Len(SubSeq(h, m, c)) = 1 /\ SubSeq(h, m, c)[1] = name
        BY <2>4
    <2>6. 1 = IF m <= c THEN c - m + 1 ELSE 0
        BY <2>3, <2>5
    <2>7. c = m
        <3>1. m <= c
            BY <2>6
        <3> QED
            BY <2>2, <2>6, <3>1
    <2>8. 1 \in 1..(c - m + 1) /\ m + 1 - 1 = m
        BY <2>2, <2>7
    <2>9. h[m] = name
        BY <2>3, <2>5, <2>8
    <2>10. e = m + 1
        BY <1>9, <1>14, <2>7 DEF c
    <2>11. h[m + 1] = "="
        BY <1>11, <2>1, <2>10 DEF e
    <2>12. m + 1 <= b
        BY <2>1, <2>10
    <2> QED
        BY <1>6, <2>9, <2>11, <2>12
<1> QED
    BY <1>17, <1>18 DEF text, m, b

\* On such a header, a name has one part or none.
LEMMA CanonicalMeans ==
    ASSUME NEW h \in Headers, Canonical(h), NEW name \in CookieNames
    PROVE  LET holding == {p \in Parts(h) : Holds(h, p, name)}
           IN  \/ holding = {} /\ MeansCookie(h, name) = NoValue
               \/ \E p \in Parts(h) :
                    holding = {p} /\ MeansCookie(h, name) = SubSeq(h, Begin(p) + 2, p[2])
<1> DEFINE holding == {p \in Parts(h) : Holds(h, p, name)}
           named == {p \in Parts(h) : IsNamed(PartText(h, p)) /\ NameIn(PartText(h, p)) = <<name>>}
           last == CHOOSE p \in named : \A q \in named : q[1] <= p[1]
<1>1. name \in Words
    BY WordsAssumption
<1>2. named = holding
    BY <1>1, CanonicalName
<1>3. MeansCookie(h, name) = IF named = {} THEN NoValue ELSE ValueIn(PartText(h, last))
    BY DEF MeansCookie
<1>4. \A p, q \in named : p = q
    BY DEF Canonical
<1>5. CASE named = {}
    BY <1>2, <1>3, <1>5
<1>6. CASE named # {}
    <2>1. PICK p \in named : TRUE
        BY <1>6
    <2>2. named = {p} /\ p \in Parts(h) /\ Holds(h, p, name)
        BY <1>2, <1>4, <2>1
    <2>3. p[1] <= p[1]
        <3>1. p[1] \in 1..(Len(h) + 1)
            BY <2>2, PartShape
        <3> QED
            BY <3>1, HeaderType
    <2>4. last = p
        BY <2>2, <2>3
    <2>5. ValueIn(PartText(h, p)) = SubSeq(h, Begin(p) + 2, p[2])
        BY <1>1, <2>2, CanonicalName
    <2> HIDE DEF last, named, holding
    <2>6. MeansCookie(h, name) = SubSeq(h, Begin(p) + 2, p[2])
        BY <1>3, <1>6, <2>4, <2>5
    <2>7. \E r \in Parts(h) :
             holding = {r} /\ MeansCookie(h, name) = SubSeq(h, Begin(r) + 2, r[2])
        BY <1>2, <2>2, <2>6
    <2> QED
        BY <2>7 DEF holding
<1> QED
    BY <1>5, <1>6

\* The part that starts at a position, and how far it reaches.
LEMMA PartFrom ==
    ASSUME NEW h \in Headers, NEW a \in 1..(Len(h) + 1), IsStart(h, a)
    PROVE  \E p \in Parts(h) :
             /\ p[1] = a
             /\ \A c \in a..Len(h) : (\A j \in a..c : h[j] # ";") => c <= p[2]
<1> DEFINE n == NextIn(h, {";"}, a)
           b == n - 1
           p == <<a, b>>
<1>1. Len(h) \in Nat
    BY HeaderType
<1>2. a \in 1..(Len(h) + 2) /\ a <= Len(h) + 1
    BY <1>1
<1>3. n \in 1..(Len(h) + 1) /\ n >= a
    BY <1>2, NextFound
<1>4. b \in 0..Len(h) /\ a <= b + 1 /\ b + 1 = n
    <2> HIDE DEF n
    <2> QED
        BY <1>1, <1>2, <1>3
<1>5. p \in Parts(h) /\ p[1] = a /\ p[2] = b
    <2> HIDE DEF b
    <2>1. NextIn(h, {";"}, a) = b + 1
        BY <1>4 DEF b
    <2> QED
        BY <1>4, <2>1, PartIs
<1>6. n <= Len(h) => h[n] = ";"
    <2>1. n <= Len(h) => h[n] \in {";"}
        BY <1>2, NextFound
    <2> QED
        BY <2>1
<1> HIDE DEF n
<1>7. ASSUME NEW c \in a..Len(h), \A j \in a..c : h[j] # ";" PROVE c <= b
    <2>1. ~ (n \in a..c)
        <3>1. n \in a..c => n <= Len(h)
            BY <1>1, <1>2
        <3> QED
            BY <1>6, <1>7, <3>1
    <2>2. c < n
        <3>1. \A x \in a..Len(h) : n \in a..x \/ x < n
            BY <1>1, <1>2, <1>3
        <3> QED
            BY <2>1, <3>1
    <2>3. \A x \in a..Len(h) : x < n => x <= b
        BY <1>1, <1>2, <1>3
    <2> QED
        BY <2>2, <2>3
<1> QED
    BY <1>5, <1>7

\* A value ends where the part ends.
LEMMA ValueEnds ==
    ASSUME NEW h \in Headers, NEW p \in Parts(h), NEW c \in p[1]..(p[2] + 1)
    PROVE  NextIn(h, {";"}, c) = p[2] + 1
<1> DEFINE n == p[2] + 1
           a == p[1]
<1>1. Len(h) \in Nat
    BY HeaderType
<1>2. a \in 1..(Len(h) + 1) /\ p[2] \in 0..Len(h)
    BY PartShape
<1>3. n \in Nat /\ n <= Len(h) + 1 /\ p[2] = n - 1
    BY <1>1, <1>2
<1>4. (n <= Len(h) => h[n] \in {";"}) /\ \A j \in a..(n - 1) : h[j] \notin {";"}
    <2>1. (n <= Len(h) => h[n] = ";") /\ \A j \in a..p[2] : h[j] # ";"
        BY PartShape
    <2> QED
        BY <1>3, <2>1
<1> HIDE DEF n, a
<1>5. c \in a..n
    BY DEF a, n
<1>6. /\ c \in 1..(Len(h) + 2) /\ n \in c..(Len(h) + 1)
      /\ \A j \in c..Len(h) : j < n => j \in a..(n - 1)
    BY <1>1, <1>2, <1>3, <1>5
<1>7. NextIn(h, {";"}, c) = n
    BY <1>4, <1>6, NextIs
<1> QED
    BY <1>7 DEF n

LEMMA TwoPieces ==
    ASSUME NEW x \in Pieces, NEW y \in Pieces, NEW w, w = <<x, y>>
    PROVE  w \in Headers /\ Len(w) = 2 /\ w[1] = x /\ w[2] = y
BY DEF Headers

IsThree(w, x, y, z) ==
    w \in Headers /\ Len(w) = 3 /\ w[1] = x /\ w[2] = y /\ w[3] = z

LEMMA ThreePieces ==
    ASSUME NEW x \in Pieces, NEW y \in Pieces, NEW z \in Pieces, NEW w, w = <<x, y, z>>
    PROVE  IsThree(w, x, y, z)
BY DEF Headers, IsThree

IsFour(w, x, y, z, u) ==
    w \in Headers /\ Len(w) = 4 /\ w[1] = x /\ w[2] = y /\ w[3] = z /\ w[4] = u

LEMMA FourPieces ==
    ASSUME NEW x \in Pieces, NEW y \in Pieces, NEW z \in Pieces, NEW u \in Pieces,
           NEW w, w = <<x, y, z, u>>
    PROVE  IsFour(w, x, y, z, u)
BY DEF Headers, IsFour

LEMMA SomePieces ==
    /\ "=" \in Pieces /\ ";" \in Pieces /\ " " \in Pieces
    /\ \A name \in CookieNames : name \in Pieces /\ name \in Words
BY WordsAssumption DEF Pieces

\* A header behind two more pieces.
AfterTwo(h, w, text) ==
    /\ text \in Headers /\ Len(text) = Len(h) + 2
    /\ text[1] = w[1] /\ text[2] = w[2]
    /\ \A k \in 1..Len(h) : text[k + 2] = h[k]

LEMMA TwoInFront ==
    ASSUME NEW h \in Headers, NEW w \in Headers, Len(w) = 2, NEW text, text = w \o h
    PROVE  AfterTwo(h, w, text)
<1>1. Len(h) \in Nat
    BY HeaderType
<1>2. w \in Seq(Pieces) /\ h \in Seq(Pieces)
    BY DEF Headers
<1>3. /\ text \in Seq(Pieces) /\ Len(text) = 2 + Len(h)
      /\ \A i \in 1..(2 + Len(h)) : text[i] = IF i <= 2 THEN w[i] ELSE h[i - 2]
    <2>1. /\ w \o h \in Seq(Pieces) /\ Len(w \o h) = Len(w) + Len(h)
          /\ \A i \in 1..(Len(w) + Len(h)) :
               (w \o h)[i] = IF i <= Len(w) THEN w[i] ELSE h[i - Len(w)]
        BY <1>2, ConcatProperties
    <2>2. Len(w) = 2 /\ text = w \o h
        OBVIOUS
    <2> QED
        BY <2>1, <2>2, Zenon
<1>4. 1 \in 1..(2 + Len(h)) /\ 2 \in 1..(2 + Len(h)) /\ 2 + Len(h) = Len(h) + 2
    BY <1>1
<1>5. \A k \in 1..Len(h) : k + 2 \in 1..(2 + Len(h)) /\ ~ (k + 2 <= 2) /\ (k + 2) - 2 = k
    BY <1>1
<1>6. text[1] = w[1] /\ text[2] = w[2]
    BY <1>3, <1>4
<1>7. \A k \in 1..Len(h) : text[k + 2] = h[k]
    BY <1>3, <1>5
<1> QED
    BY <1>3, <1>4, <1>6, <1>7 DEF Headers, AfterTwo

\* A text of four occurs where its four stand.
LEMMA OccursFour ==
    ASSUME NEW h \in Headers, NEW w \in Headers, Len(w) = 4, NEW i \in 1..Len(h)
    PROVE  i \in Occurrences(w, h) <=>
             /\ i + 3 <= Len(h)
             /\ h[i] = w[1] /\ h[i + 1] = w[2] /\ h[i + 2] = w[3] /\ h[i + 3] = w[4]
<1>1. Len(h) \in Nat
    BY HeaderType
<1>2. i \in Occurrences(w, h) <=> 4 <= Len(h) - i + 1 /\ \A k \in 1..4 : h[i + k - 1] = w[k]
    <2>1. i \in Occurrences(w, h) <=>
            Len(w) <= Len(h) - i + 1 /\ \A k \in 1..Len(w) : h[i + k - 1] = w[k]
        BY OccursAt
    <2>2. Len(w) = 4
        OBVIOUS
    <2> QED
        BY <2>1, <2>2, Zenon
<1>3. 4 <= Len(h) - i + 1 <=> i + 3 <= Len(h)
    BY <1>1
<1>4. i + 1 - 1 = i /\ i + 2 - 1 = i + 1 /\ i + 3 - 1 = i + 2 /\ i + 4 - 1 = i + 3
    OBVIOUS
<1>5. \A k : k \in 1..4 <=> k = 1 \/ k = 2 \/ k = 3 \/ k = 4
    OBVIOUS
<1>6. (\A k \in 1..4 : h[i + k - 1] = w[k]) <=>
        h[i + 1 - 1] = w[1] /\ h[i + 2 - 1] = w[2] /\ h[i + 3 - 1] = w[3] /\ h[i + 4 - 1] = w[4]
    BY <1>5, Zenon
<1> QED
    BY <1>2, <1>3, <1>4, <1>6

\* The name and its "=" stand at this position, at the start of the header or
\* behind "; ".
StandsAt(h, m, name) ==
    /\ m + 1 <= Len(h) /\ h[m] = name /\ h[m + 1] = "="
    /\ m = 1 \/ (m >= 3 /\ h[m - 1] = " " /\ h[m - 2] = ";")

LEMMA HoldsThere ==
    ASSUME NEW h \in Headers, Canonical(h), NEW name \in CookieNames, NEW p \in Parts(h),
           Holds(h, p, name)
    PROVE  Begin(p) \in 1..Len(h) /\ StandsAt(h, Begin(p), name)
<1> DEFINE a == p[1]
           b == p[2]
           m == Begin(p)
<1>1. Len(h) \in Nat
    BY HeaderType
<1>2. a \in 1..(Len(h) + 1) /\ b \in 0..Len(h) /\ IsStart(h, a)
    BY PartShape
<1>3. m = IF a = 1 THEN 1 ELSE a + 1
    BY DEF Begin
<1>4. a # 1 => h[a] = " "
    BY CanonicalPart
<1>5. m + 1 <= b
    BY DEF Holds
<1>6. h[m] = name /\ h[m + 1] = "="
    BY DEF Holds
<1> HIDE DEF a, b, m
<1>7. m \in 1..Len(h) /\ m + 1 <= Len(h) /\ (m = 1 \/ (a # 1 /\ m >= 3 /\ m - 1 = a /\ m - 2 = a - 1))
    BY <1>1, <1>2, <1>3, <1>5
<1>8. a # 1 => h[a - 1] = ";"
    BY <1>2 DEF IsStart
<1>9. m = 1 \/ (m >= 3 /\ h[m - 1] = " " /\ h[m - 2] = ";")
    BY <1>4, <1>7, <1>8, Zenon
<1>10. StandsAt(h, m, name)
    BY <1>6, <1>7, <1>9 DEF StandsAt
<1> QED
    BY <1>7, <1>10 DEF m

LEMMA ThereHolds ==
    ASSUME NEW h \in Headers, Canonical(h), NEW name \in CookieNames, NEW m \in 1..Len(h),
           StandsAt(h, m, name)
    PROVE  \E p \in Parts(h) : Holds(h, p, name) /\ Begin(p) = m
<1>1. Len(h) \in Nat /\ m \in Nat
    BY HeaderType
<1>2. m + 1 <= Len(h) /\ (m = 1 \/ m >= 3)
    BY DEF StandsAt
<1>3. h[m] = name /\ h[m + 1] = "="
    BY DEF StandsAt
<1>4. m # 1 => h[m - 1] = " " /\ h[m - 2] = ";"
    BY DEF StandsAt
<1>5. name # ";"
    BY WordsAssumption
<1> DEFINE a == IF m = 1 THEN 1 ELSE m - 1
<1>6. a \in 1..(Len(h) + 1) /\ m + 1 \in a..Len(h) /\ (m = 1 \/ (a = m - 1 /\ a # 1 /\ a - 1 = m - 2))
      /\ (m = 1 <=> a = 1)
    BY <1>1, <1>2
<1>7. \A j \in a..(m + 1) : j = m \/ j = m + 1 \/ (m # 1 /\ j = m - 1)
    BY <1>1, <1>2
<1>8. m = (IF a = 1 THEN 1 ELSE a + 1)
    BY <1>1, <1>2
<1> HIDE DEF a
<1>9. IsStart(h, a)
    <2>1. CASE m = 1
        BY <1>6, <2>1 DEF IsStart
    <2>2. CASE m # 1
        BY <1>4, <1>6, <2>2 DEF IsStart
    <2> QED
        BY <2>1, <2>2
<1>10. \A j \in a..(m + 1) : h[j] # ";"
    BY <1>3, <1>4, <1>5, <1>7
<1>11. PICK p \in Parts(h) :
         /\ p[1] = a
         /\ \A c \in a..Len(h) : (\A j \in a..c : h[j] # ";") => c <= p[2]
    BY <1>6, <1>9, PartFrom
<1>12. m + 1 <= p[2]
    BY <1>6, <1>10, <1>11
<1>13. Begin(p) = m
    BY <1>8, <1>11 DEF Begin
<1>14. Holds(h, p, name)
    BY <1>3, <1>12, <1>13 DEF Holds
<1> QED
    BY <1>13, <1>14

LEMMA EarlierPosition ==
    ASSUME NEW n \in Nat, NEW l, l = n + 2
    PROVE  /\ \A i \in 1..l : i + 1 <= n => i \in 1..n
           /\ \A i \in 1..n : i \in 1..l
OBVIOUS

\* A text of four whose first two pieces may stand in front of the header.
OccursBehind(h, w, i) ==
    /\ i + 1 <= Len(h) /\ h[i] = w[3] /\ h[i + 1] = w[4]
    /\ i = 1 \/ (i >= 3 /\ h[i - 1] = w[2] /\ h[i - 2] = w[1])

\* Where a text of four occurs in a header behind its first two pieces.
LEMMA FindsBehind ==
    ASSUME NEW h \in Headers, NEW text \in Headers, NEW w \in Headers,
           Len(text) = Len(h) + 2, Len(w) = 4,
           text[1] = w[1], text[2] = w[2], \A k \in 1..Len(h) : text[k + 2] = h[k],
           w[1] # w[2],
           NEW i \in 1..Len(text)
    PROVE  i \in Occurrences(w, text) <=> OccursBehind(h, w, i)
<1> USE DEF OccursBehind
<1>1. Len(h) \in Nat
    BY HeaderType
<1>2. i \in Occurrences(w, text) <=>
        /\ i + 3 <= Len(text)
        /\ text[i] = w[1] /\ text[i + 1] = w[2] /\ text[i + 2] = w[3] /\ text[i + 3] = w[4]
    BY OccursFour
<1>3. i + 3 <= Len(text) <=> i + 1 <= Len(h)
    BY <1>1
<1>4. SUFFICES ASSUME i + 1 <= Len(h)
               PROVE  /\ text[i] = w[1] /\ text[i + 1] = w[2] <=>
                           i = 1 \/ (i >= 3 /\ h[i - 1] = w[2] /\ h[i - 2] = w[1])
                      /\ text[i + 2] = h[i] /\ text[i + 3] = h[i + 1]
    BY <1>2, <1>3, Zenon
<1>5. i \in 1..Len(h) /\ i + 1 \in 1..Len(h) /\ (i + 1) + 2 = i + 3
    BY <1>1, <1>4
<1>6. text[i + 2] = h[i] /\ text[i + 3] = h[i + 1]
    BY <1>5
<1>7. CASE i = 1
    <2>1. i + 1 = 2
        BY <1>7
    <2> QED
        BY <1>6, <1>7, <2>1
<1>8. CASE i = 2
    <2>1. ~ (i = 1) /\ ~ (i >= 3)
        BY <1>8
    <2>2. text[i] # w[1]
        BY <1>8
    <2> QED
        BY <1>6, <2>1, <2>2
<1>9. CASE i >= 3
    <2>1. i - 1 \in 1..Len(h) /\ i - 2 \in 1..Len(h) /\ (i - 1) + 2 = i + 1 /\ (i - 2) + 2 = i
          /\ ~ (i = 1)
        BY <1>1, <1>5, <1>9
    <2>2. text[i + 1] = h[i - 1] /\ text[i] = h[i - 2]
        BY <2>1
    <2> QED
        BY <1>6, <1>9, <2>1, <2>2
<1> QED
    BY <1>5, <1>7, <1>8, <1>9

\* Where the page finds the name.
LEMMA PageFinds ==
    ASSUME NEW h \in Headers, NEW name \in CookieNames, NEW text, NEW w,
           text = <<";", " ">> \o h, w = <<";", " ", name, "=">>
    PROVE  /\ text \in Headers /\ Len(text) = Len(h) + 2
           /\ \A k \in 1..Len(h) : text[k + 2] = h[k]
           /\ Occurrences(w, text) = {m \in 1..Len(h) : StandsAt(h, m, name)}
<1> DEFINE v == <<";", " ">>
<1>1. v \in Headers /\ Len(v) = 2 /\ v[1] = ";" /\ v[2] = " "
    BY SomePieces, TwoPieces
<1>2. /\ w \in Headers /\ Len(w) = 4
      /\ w[1] = ";" /\ w[2] = " " /\ w[3] = name /\ w[4] = "="
    <2>1. ";" \in Pieces /\ " " \in Pieces /\ name \in Pieces /\ "=" \in Pieces
        BY SomePieces
    <2>2. w = <<";", " ", name, "=">>
        OBVIOUS
    <2> QED
        <3>1. IsFour(w, ";", " ", name, "=")
            BY <2>1, <2>2, FourPieces
        <3> QED
            BY <3>1 DEF IsFour
<1>3. text = v \o h
    OBVIOUS
<1> HIDE DEF v
<1>4. /\ text \in Headers /\ Len(text) = Len(h) + 2
      /\ text[1] = v[1] /\ text[2] = v[2]
      /\ \A k \in 1..Len(h) : text[k + 2] = h[k]
    <2>1. v \in Headers /\ Len(v) = 2
        BY <1>1
    <2>2. AfterTwo(h, v, text)
        BY <1>3, <2>1, TwoInFront
    <2> QED
        BY <2>2 DEF AfterTwo
<1>5. text[1] = w[1] /\ text[2] = w[2] /\ w[1] # w[2]
    BY <1>1, <1>2, <1>4
<1>6. \A i \in 1..Len(text) : i \in Occurrences(w, text) <=> OccursBehind(h, w, i)
    <2> TAKE i \in 1..Len(text)
    <2>1. w \in Headers /\ Len(w) = 4
        BY <1>2
    <2> QED
        BY <1>4, <1>5, <2>1, FindsBehind
<1>7. \A i \in 1..Len(text) : i \in Occurrences(w, text) <=> StandsAt(h, i, name)
    BY <1>2, <1>6, Zenon DEF StandsAt, OccursBehind
<1>8. Occurrences(w, text) \subseteq 1..Len(text)
    BY <1>4, HeaderType DEF Occurrences
<1>9. \A i \in 1..Len(text) : StandsAt(h, i, name) => i \in 1..Len(h)
    <2>1. \A i \in 1..Len(text) : i + 1 <= Len(h) => i \in 1..Len(h)
        <3>1. Len(h) \in Nat
            BY HeaderType
        <3> QED
            BY <1>4, <3>1, EarlierPosition
    <2> QED
        BY <2>1 DEF StandsAt
<1>10. \A i \in 1..Len(h) : i \in 1..Len(text)
    <2>1. Len(h) \in Nat
        BY HeaderType
    <2> QED
        BY <1>4, <2>1, EarlierPosition
<1> QED
    BY <1>4, <1>7, <1>8, <1>9, <1>10

\* Behind two more pieces, the header is searched and cut as it is.
LEMMA NextBehind ==
    ASSUME NEW h \in Headers, NEW text \in Headers, Len(text) = Len(h) + 2,
           \A k \in 1..Len(h) : text[k + 2] = h[k],
           NEW chars, NEW c \in 1..(Len(h) + 1)
    PROVE  NextIn(text, chars, c + 2) = NextIn(h, chars, c) + 2
<1> DEFINE n == NextIn(h, chars, c)
           m == n + 2
           d == c + 2
<1>1. Len(h) \in Nat /\ c \in 1..(Len(h) + 2) /\ c <= Len(h) + 1
    <2>1. Len(h) \in Nat
        BY HeaderType
    <2> QED
        BY <2>1
<1>2. /\ n \in 1..(Len(h) + 1) /\ n >= c
      /\ n <= Len(h) => h[n] \in chars
      /\ \A j \in c..Len(h) : j < n => h[j] \notin chars
    BY <1>1, NextFound
<1> HIDE DEF n
<1>3. d \in 1..(Len(text) + 2) /\ m \in d..(Len(text) + 1)
    BY <1>1, <1>2
<1>4. m <= Len(text) => text[m] \in chars
    <2>1. m <= Len(text) => n <= Len(h) /\ n \in 1..Len(h)
        BY <1>1, <1>2
    <2> QED
        BY <1>2, <2>1
<1>5. \A j \in d..Len(text) : j < m => text[j] \notin chars
    <2> TAKE j \in d..Len(text)
    <2>1. j - 2 \in c..Len(h) /\ j - 2 \in 1..Len(h) /\ (j - 2) + 2 = j
        BY <1>1
    <2>2. text[j] = h[j - 2]
        BY <2>1
    <2>3. j < m => j - 2 < n
        BY <1>1, <1>2
    <2> QED
        BY <1>2, <2>1, <2>2, <2>3
<1> HIDE DEF m, d
<1>6. NextIn(text, chars, d) = m
    BY <1>3, <1>4, <1>5, NextIs
<1> QED
    BY <1>6 DEF m, d, n

LEMMA CutBehind ==
    ASSUME NEW h \in Headers, NEW text \in Headers, Len(text) = Len(h) + 2,
           \A k \in 1..Len(h) : text[k + 2] = h[k],
           NEW c \in Nat, NEW b \in Nat, c >= 1, b <= Len(h)
    PROVE  SubSeq(text, c + 2, b + 2) = SubSeq(h, c, b)
<1> DEFINE d == c + 2
           e == b + 2
           u == SubSeq(text, d, e)
           v == SubSeq(h, c, b)
           n == IF c <= b THEN b - c + 1 ELSE 0
<1>1. Len(h) \in Nat
    BY HeaderType
<1>2. /\ d \in Int /\ e \in Int /\ d >= 1 /\ e <= Len(text)
      /\ (IF d <= e THEN e - d + 1 ELSE 0) = n
      /\ n \in Nat /\ \A k \in 1..n : k \in 1..(e - d + 1) /\ k \in 1..(b - c + 1)
    <2>1. d \in Int /\ e \in Int /\ d >= 1 /\ e <= Len(text)
        BY <1>1
    <2>2. CASE c <= b
        BY <2>1, <2>2
    <2>3. CASE b < c
        BY <2>1, <2>3
    <2> QED
        BY <2>2, <2>3
<1> HIDE DEF n
<1>3. /\ v \in Headers /\ Len(v) = IF c <= b THEN b - c + 1 ELSE 0
      /\ \A k \in 1..(b - c + 1) : v[k] = h[c + k - 1]
    <2>1. c \in Int /\ b \in Int
        OBVIOUS
    <2> QED
        BY <2>1, SubHeader
<1>4. /\ u \in Headers /\ Len(u) = IF d <= e THEN e - d + 1 ELSE 0
      /\ \A k \in 1..(e - d + 1) : u[k] = text[d + k - 1]
    <2> HIDE DEF d, e
    <2> QED
        BY <1>2, SubHeader
<1>5. \A k \in 1..n : text[d + k - 1] = h[c + k - 1]
    <2> TAKE k \in 1..n
    <2>1. k \in 1..(b - c + 1)
        BY <1>2
    <2>2. c + k - 1 \in 1..Len(h) /\ (c + k - 1) + 2 = d + k - 1
        BY <1>1, <2>1
    <2> QED
        BY <2>2
<1> HIDE DEF u, v, d, e
<1>6. Len(u) = n /\ Len(v) = n
    BY <1>2, <1>3, <1>4 DEF n
<1>7. \A k \in 1..n : u[k] = v[k]
    BY <1>2, <1>3, <1>4, <1>5
<1>8. u = v
    BY <1>3, <1>4, <1>6, <1>7, SameHeader
<1> QED
    BY <1>8 DEF u, v, d, e

LEMMA OnlyOne ==
    ASSUME NEW x \in Nat, x >= 1
    PROVE  Min({x}) = x
<1>1. {x} \in SUBSET (1..x) /\ {x} # {}
    OBVIOUS
<1> QED
    BY <1>1, FirstPosition

\* On headers as browsers write them, the page reads what the header means.
LEMMA PageMeans ==
    ASSUME NEW h \in Headers, Canonical(h), NEW name \in CookieNames
    PROVE  PageReads(h, name) = MeansCookie(h, name)
<1> DEFINE text == <<";", " ">> \o h
           w == <<";", " ", name, "=">>
           found == Occurrences(w, text)
           start == Min(found) + 4
           holding == {p \in Parts(h) : Holds(h, p, name)}
<1>1. PageReads(h, name) =
        IF Cardinality(found) # 1 THEN NoValue
        ELSE SubSeq(text, start, NextIn(text, {";"}, start) - 1)
    BY DEF PageReads
<1>2. /\ text \in Headers /\ Len(text) = Len(h) + 2
      /\ \A k \in 1..Len(h) : text[k + 2] = h[k]
      /\ found = {m \in 1..Len(h) : StandsAt(h, m, name)}
    <2>1. ASSUME NEW t, NEW v, t = <<";", " ">> \o h, v = <<";", " ", name, "=">>
          PROVE  /\ t \in Headers /\ Len(t) = Len(h) + 2
                 /\ \A k \in 1..Len(h) : t[k + 2] = h[k]
                 /\ Occurrences(v, t) = {m \in 1..Len(h) : StandsAt(h, m, name)}
        BY <2>1, PageFinds
    <2> QED
        BY <2>1
<1> HIDE DEF text, w, found
<1>3. found = {Begin(p) : p \in holding}
    BY <1>2, HoldsThere, ThereHolds
<1>4. \/ holding = {} /\ MeansCookie(h, name) = NoValue
      \/ \E p \in Parts(h) :
           holding = {p} /\ MeansCookie(h, name) = SubSeq(h, Begin(p) + 2, p[2])
    BY CanonicalMeans
<1>5. CASE holding = {} /\ MeansCookie(h, name) = NoValue
    <2>1. found = {}
        BY <1>3, <1>5
    <2>2. Cardinality(found) # 1
        BY <2>1, FS_EmptySet
    <2> QED
        BY <1>1, <1>5, <2>2
<1>6. CASE \E p \in Parts(h) :
             holding = {p} /\ MeansCookie(h, name) = SubSeq(h, Begin(p) + 2, p[2])
    <2>1. PICK p \in Parts(h) :
            holding = {p} /\ MeansCookie(h, name) = SubSeq(h, Begin(p) + 2, p[2])
        BY <1>6
    <2> DEFINE m == Begin(p)
               a == p[1]
               b == p[2]
               c == m + 2
    <2>2. found = {m}
        BY <1>3, <2>1
    <2>3. Cardinality(found) = 1
        BY <2>2, FS_Singleton
    <2>4. m + 1 <= b /\ m \in a..b
        BY <2>1, CanonicalPart DEF Holds
    <2>5. a \in 1..(Len(h) + 1) /\ b \in 0..Len(h)
        BY PartShape
    <2>6. Len(h) \in Nat
        BY HeaderType
    <2> HIDE DEF m, a, b, holding
    <2>7. /\ m \in Nat /\ m >= 1 /\ c \in 1..(Len(h) + 1) /\ c \in Nat /\ c >= 1
          /\ b \in Nat /\ b <= Len(h) /\ c \in a..(b + 1) /\ m + 4 = c + 2
          /\ (b + 1) + 2 - 1 = b + 2
        BY <2>4, <2>5, <2>6
    <2> HIDE DEF c
    <2>8. start = c + 2
        BY <2>2, <2>7, OnlyOne
    <2>9. NextIn(h, {";"}, c) = b + 1
        BY <2>7, ValueEnds DEF a, b
    <2> HIDE DEF start
    <2>10. NextIn(text, {";"}, start) = (b + 1) + 2
        <3> DEFINE chars == {";"}
                   n == b + 1
        <3> HIDE DEF chars, n
        <3>1. NextIn(text, chars, c + 2) = NextIn(h, chars, c) + 2
            BY <1>2, <2>7, NextBehind
        <3>2. NextIn(h, chars, c) = n
            BY <2>9 DEF chars, n
        <3>3. NextIn(text, chars, start) = n + 2
            BY <2>8, <3>1, <3>2
        <3> QED
            BY <3>3 DEF chars, n
    <2>11. SubSeq(text, c + 2, b + 2) = SubSeq(h, c, b)
        BY <1>2, <2>7, CutBehind
    <2>12. PageReads(h, name) = SubSeq(text, c + 2, b + 2)
        <3> DEFINE n == NextIn(text, {";"}, start)
        <3>1. PageReads(h, name) = SubSeq(text, start, n - 1)
            BY <1>1, <2>3
        <3>2. n = (b + 1) + 2
            BY <2>10
        <3> HIDE DEF n
        <3>3. n - 1 = b + 2
            BY <2>7, <3>2
        <3> QED
            BY <2>8, <3>1, <3>3
    <2>13. PageReads(h, name) = SubSeq(h, c, b)
        BY <2>11, <2>12
    <2> QED
        BY <2>1, <2>13 DEF c, m, b
<1> QED
    BY <1>4, <1>5, <1>6

LEMMA ShiftedByTwo ==
    \A i \in Nat :
        /\ (i + 2) + 1 = i + 3 /\ (i + 2) - 1 = i + 1 /\ (i + 2) - 2 = i
        /\ i >= 1 => ~ (i + 2 = 1) /\ i + 2 >= 3 /\ i + 1 # 1
        /\ i + 1 - 1 = i /\ i + 2 - 1 = i + 1 /\ (i + 1) - 1 = i
        /\ 1 \in 1..3 /\ 2 \in 1..3
OBVIOUS

LEMMA LaterByTwo ==
    ASSUME NEW n \in Nat
    PROVE  \A i \in 1..n : /\ i \in Nat /\ i >= 1 /\ i + 2 # 1 /\ i + 4 = (i + 2) + 2
                           /\ (i + 2) + 1 <= n => i + 2 \in 1..n
OBVIOUS

\* Where getCookie finds the name: at the start of the header, ...
LEMMA FoundFirst ==
    ASSUME NEW h \in Headers, NEW name \in CookieNames, NEW u, u = <<name, "=">>
    PROVE  IsPrefix(u, h) <=> 1 \in 1..Len(h) /\ StandsAt(h, 1, name)
<1>1. /\ u \in Headers /\ Len(u) = 2
      /\ u[1] = name /\ u[2] = "="
    BY SomePieces, TwoPieces
<1>2. Len(h) \in Nat
    BY HeaderType
<1>3. IsPrefix(u, h) <=> 2 <= Len(h) /\ \A k \in 1..2 : h[k] = u[k]
    BY <1>1, PrefixOf
<1>4. (\A k \in 1..2 : h[k] = u[k]) <=> h[1] = u[1] /\ h[2] = u[2]
    <2>1. \A k : k \in 1..2 <=> k = 1 \/ k = 2
        OBVIOUS
    <2> QED
        BY <2>1, Zenon
<1>5. (2 <= Len(h) => 1 \in 1..Len(h)) /\ 1 + 1 = 2
    BY <1>2
<1> QED
    BY <1>1, <1>3, <1>4, <1>5 DEF StandsAt

\* ... behind "; ", ...
LEMMA FoundBehind ==
    ASSUME NEW h \in Headers, NEW name \in CookieNames
    PROVE  \A w : w = <<";", " ", name, "=">> =>
             /\ Len(w) = 4
             /\ Occurrences(w, h) \subseteq 1..Len(h)
             /\ \A i \in 1..Len(h) : i \in Occurrences(w, h) <=> StandsAt(h, i + 2, name)
<1>0. SUFFICES ASSUME NEW w, w = <<";", " ", name, "=">>
               PROVE  /\ Len(w) = 4
                      /\ Occurrences(w, h) \subseteq 1..Len(h)
                      /\ \A i \in 1..Len(h) :
                           i \in Occurrences(w, h) <=> StandsAt(h, i + 2, name)
    OBVIOUS
<1>1. IsFour(w, ";", " ", name, "=")
    <2>1. ";" \in Pieces /\ " " \in Pieces /\ name \in Pieces /\ "=" \in Pieces
        BY SomePieces
    <2>2. w = <<";", " ", name, "=">>
        BY <1>0
    <2> QED
        BY <2>1, <2>2, FourPieces
<1>2. w \in Headers /\ Len(w) = 4
    BY <1>1 DEF IsFour
<1>3. w[1] = ";" /\ w[2] = " " /\ w[3] = name /\ w[4] = "="
    BY <1>1 DEF IsFour
<1>4. Occurrences(w, h) \subseteq 1..Len(h)
    BY HeaderType DEF Occurrences
<1>5. ASSUME NEW i \in 1..Len(h)
      PROVE  i \in Occurrences(w, h) <=> StandsAt(h, i + 2, name)
    <2>1. i \in Occurrences(w, h) <=>
            /\ i + 3 <= Len(h)
            /\ h[i] = w[1] /\ h[i + 1] = w[2] /\ h[i + 2] = w[3] /\ h[i + 3] = w[4]
        BY <1>2, OccursFour
    <2>2. /\ (i + 2) + 1 = i + 3 /\ (i + 2) - 1 = i + 1 /\ (i + 2) - 2 = i
          /\ ~ (i + 2 = 1) /\ i + 2 >= 3
        BY HeaderType, ShiftedByTwo
    <2>3. StandsAt(h, i + 2, name) <=>
            /\ i + 3 <= Len(h) /\ h[i + 2] = name /\ h[i + 3] = "="
            /\ h[i + 1] = " " /\ h[i] = ";"
        BY <2>2, Zenon DEF StandsAt
    <2> QED
        BY <1>3, <2>1, <2>3, Zenon
<1> QED
    BY <1>2, <1>4, <1>5

\* ... and never right behind a ";".
LEMMA FoundNowhere ==
    ASSUME NEW h \in Headers, Canonical(h), NEW name \in CookieNames
    PROVE  \A v : v = <<";", name, "=">> => Occurrences(v, h) = {}
<1>0. SUFFICES ASSUME NEW v, v = <<";", name, "=">> PROVE Occurrences(v, h) = {}
    OBVIOUS
<1>1. IsThree(v, ";", name, "=")
    <2>1. ";" \in Pieces /\ name \in Pieces /\ "=" \in Pieces
        BY SomePieces
    <2>2. v = <<";", name, "=">>
        BY <1>0
    <2> QED
        BY <2>1, <2>2, ThreePieces
<1>2. v \in Headers /\ Len(v) = 3
    BY <1>1 DEF IsThree
<1>3. v[1] = ";" /\ v[2] = name
    BY <1>1 DEF IsThree
<1>4. Len(h) \in Nat
    BY HeaderType
<1> SUFFICES ASSUME NEW i \in Occurrences(v, h) PROVE FALSE
    OBVIOUS
<1>5. i \in 1..Len(h)
    BY HeaderType DEF Occurrences
<1>6. 3 <= Len(h) - i + 1 /\ \A k \in 1..3 : h[i + k - 1] = v[k]
    <2>1. i \in Occurrences(v, h) <=>
            Len(v) <= Len(h) - i + 1 /\ \A k \in 1..Len(v) : h[i + k - 1] = v[k]
        BY <1>2, <1>5, OccursAt
    <2> QED
        BY <1>2, <2>1, Zenon
<1>7. /\ i + 1 - 1 = i /\ i + 2 - 1 = i + 1 /\ (i + 1) - 1 = i
      /\ 1 \in 1..3 /\ 2 \in 1..3 /\ i + 1 # 1
    BY <1>5, ShiftedByTwo
<1>8. i + 1 \in 1..(Len(h) + 1)
    BY <1>4, <1>5
<1>9. h[i] = ";" /\ h[i + 1] = name
    BY <1>3, <1>6, <1>7, Zenon
<1>10. IsStart(h, i + 1)
    BY <1>7, <1>9 DEF IsStart
<1>11. PICK p \in Parts(h) : p[1] = i + 1
    BY <1>8, <1>10, PartFrom
<1>12. h[i + 1] = " "
    BY <1>7, <1>11, CanonicalPart
<1> QED
    BY <1>9, <1>12, WordsAssumption

\* On headers as browsers write them, getCookie reads what the header means.
LEMMA GetMeans ==
    ASSUME NEW h \in Headers, Canonical(h), NEW name \in CookieNames
    PROVE  GetCookie(h, name) = MeansCookie(h, name)
<1> DEFINE u == <<name, "=">>
           w == <<";", " ", name, "=">>
           v == <<";", name, "=">>
           ends == {i + Len(w) : i \in Occurrences(w, h)}
           bare == {i + Len(v) : i \in Occurrences(v, h)}
           starts == IF IsPrefix(u, h) THEN {3} ELSE IF ends # {} THEN ends ELSE bare
           c == Min(starts)
           holding == {p \in Parts(h) : Holds(h, p, name)}
           standing == {m \in 1..Len(h) : StandsAt(h, m, name)}
<1>1. GetCookie(h, name) =
        IF starts = {} THEN NoValue ELSE TrimSpace(SubSeq(h, c, NextIn(h, {";"}, c) - 1))
    BY DEF GetCookie
<1>2. IsPrefix(u, h) <=> 1 \in standing
    <2>1. ASSUME NEW x, x = <<name, "=">>
          PROVE  IsPrefix(x, h) <=> 1 \in 1..Len(h) /\ StandsAt(h, 1, name)
        BY <2>1, FoundFirst
    <2> QED
        BY <2>1
<1>3. /\ Len(w) = 4
      /\ Occurrences(w, h) \subseteq 1..Len(h)
      /\ \A i \in 1..Len(h) : i \in Occurrences(w, h) <=> StandsAt(h, i + 2, name)
    <2>1. ASSUME NEW x, x = <<";", " ", name, "=">>
          PROVE  /\ Len(x) = 4
                 /\ Occurrences(x, h) \subseteq 1..Len(h)
                 /\ \A i \in 1..Len(h) : i \in Occurrences(x, h) <=> StandsAt(h, i + 2, name)
        BY <2>1, FoundBehind
    <2> QED
        BY <2>1
<1>4. bare = {}
    <2>1. Occurrences(v, h) = {}
        BY FoundNowhere
    <2> HIDE DEF v
    <2> QED
        BY <2>1
<1> HIDE DEF u, v, w, bare, c
<1>5. \A m \in standing : m + 1 <= Len(h) /\ (m = 1 \/ m >= 3)
    BY DEF StandsAt
<1> HIDE DEF standing
<1>6. standing = {Begin(p) : p \in holding}
    BY HoldsThere, ThereHolds DEF standing
<1>7. \/ holding = {} /\ MeansCookie(h, name) = NoValue
      \/ \E p \in Parts(h) :
           holding = {p} /\ MeansCookie(h, name) = SubSeq(h, Begin(p) + 2, p[2])
    BY CanonicalMeans
<1>8. Len(h) \in Nat
    BY HeaderType
<1>9. \A m \in standing : m \in 1..Len(h)
    BY DEF standing
<1>10. ends = {m + 2 : m \in {k \in standing : k # 1}}
    <2>1. ASSUME NEW i \in Occurrences(w, h)
          PROVE  i + 2 \in standing /\ i + 2 # 1 /\ i + Len(w) = (i + 2) + 2
        <3>1. i \in 1..Len(h) /\ StandsAt(h, i + 2, name)
            BY <1>3
        <3>2. (i + 2) + 1 <= Len(h)
            BY <3>1 DEF StandsAt
        <3>3. i + 2 \in 1..Len(h) /\ i + 2 # 1 /\ i + 4 = (i + 2) + 2
            BY <1>8, <3>1, <3>2, LaterByTwo
        <3> QED
            BY <1>3, <3>1, <3>3 DEF standing
    <2>2. ASSUME NEW m \in standing, m # 1
          PROVE  \E i \in Occurrences(w, h) : m + 2 = i + Len(w)
        <3>1. m \in 1..Len(h) /\ m >= 3
            BY <1>5, <1>9, <2>2
        <3>2. m - 2 \in 1..Len(h) /\ (m - 2) + 2 = m /\ (m - 2) + 4 = m + 2
            BY <1>8, <3>1
        <3>3. StandsAt(h, (m - 2) + 2, name)
            BY <3>2 DEF standing
        <3>4. m - 2 \in Occurrences(w, h)
            BY <1>3, <3>2, <3>3
        <3>5. m + 2 = (m - 2) + Len(w)
            BY <1>3, <3>2
        <3> QED
            BY <3>4, <3>5
    <2> QED
        BY <2>1, <2>2
<1> HIDE DEF ends
<1>11. CASE holding = {} /\ MeansCookie(h, name) = NoValue
    <2>1. standing = {}
        BY <1>6, <1>11
    <2>2. ends = {} /\ ~ IsPrefix(u, h)
        BY <1>2, <1>10, <2>1
    <2>3. starts = {}
        BY <1>4, <2>2
    <2> QED
        BY <1>1, <1>11, <2>3
<1>12. CASE \E p \in Parts(h) :
              holding = {p} /\ MeansCookie(h, name) = SubSeq(h, Begin(p) + 2, p[2])
    <2>1. PICK p \in Parts(h) :
            holding = {p} /\ MeansCookie(h, name) = SubSeq(h, Begin(p) + 2, p[2])
        BY <1>12
    <2> DEFINE m == Begin(p)
               a == p[1]
               b == p[2]
               d == m + 2
    <2>2. standing = {m}
        BY <1>6, <2>1
    <2>3. m + 1 <= b /\ m \in a..b
        BY <2>1, CanonicalPart DEF Holds
    <2>4. a \in 1..(Len(h) + 1) /\ b \in 0..Len(h)
        BY PartShape
    <2>5. \A j \in m..b : h[j] # " "
        BY CanonicalPart
    <2> HIDE DEF m, a, b, holding
    <2>6. /\ m \in Nat /\ m >= 1 /\ d \in Nat /\ d >= 1 /\ d \in a..(b + 1)
          /\ b \in Nat /\ b <= Len(h) /\ (b + 1) - 1 = b
          /\ \A j \in d..b : j \in m..b
        BY <1>8, <2>3, <2>4
    <2>7. starts = {d}
        <3>1. CASE m = 1
            BY <1>2, <2>2, <3>1
        <3>2. CASE m # 1
            <4>1. ends = {d}
                BY <1>10, <2>2, <3>2
            <4>2. ~ IsPrefix(u, h)
                BY <1>2, <2>2, <3>2
            <4> QED
                BY <4>1, <4>2
        <3> QED
            BY <3>1, <3>2
    <2> HIDE DEF d
    <2>8. starts # {} /\ c = d
        BY <2>6, <2>7, OnlyOne DEF c
    <2>9. NextIn(h, {";"}, d) = b + 1
        BY <2>6, ValueEnds DEF a, b
    <2> DEFINE n == NextIn(h, {";"}, c)
    <2>10. GetCookie(h, name) = TrimSpace(SubSeq(h, c, n - 1))
        BY <1>1, <2>8
    <2>11. n = b + 1
        BY <2>8, <2>9
    <2> HIDE DEF n, starts
    <2>12. n - 1 = b
        BY <2>6, <2>11
    <2>13. GetCookie(h, name) = TrimSpace(SubSeq(h, d, b))
        BY <2>8, <2>10, <2>12
    <2>14. TrimSpace(SubSeq(h, d, b)) = Trimmed(h, d, b)
        BY <2>6, TrimCut
    <2>15. Trimmed(h, d, b) = SubSeq(h, d, b)
        BY <2>5, <2>6, TrimmedAsIs
    <2> QED
        BY <2>1, <2>13, <2>14, <2>15 DEF d, m, b
<1> QED
    BY <1>7, <1>11, <1>12

\* "single-pass equals individual getCookie": where every header that is as browsers
\* write it has a name in each of its parts (else it is not so: a cookie without a
\* name hides the one behind it from the scan), the pass of parseChallengeCookies
\* finds what getCookie finds, for any words, names and requests.
THEOREM SinglePassEqualsGetCookieAlways ==
    ASSUME \A r \in Requests : Canonical(r.cookie) => AllNamed(r.cookie)
    PROVE  Spec => []SinglePassEqualsGetCookie
<1>1. CookiesParsed => SinglePassEqualsGetCookie
    <2> SUFFICES ASSUME CookiesParsed, gated, Canonical(request.cookie), NEW name \in CookieNames
                 PROVE  cookies[name] = GetCookie(request.cookie, name)
        BY DEF SinglePassEqualsGetCookie
    <2>1. request \in Requests /\ cookies = ParseChallengeCookies(request.cookie)
        BY DEF CookiesParsed
    <2>2. request.cookie \in Headers /\ AllNamed(request.cookie)
        BY <2>1, HeadersAssumption
    <2>3. cookies[name] = MeansCookie(request.cookie, name)
        BY <2>1, <2>2, ParseMeans
    <2>4. GetCookie(request.cookie, name) = MeansCookie(request.cookie, name)
        BY <2>2, GetMeans
    <2> QED
        BY <2>3, <2>4
<1> QED
    BY <1>1, CookiesParsedAlways, PTL

\* The page solves the challenge that the filter will check: on every header that a
\* browser writes with a name in each part, parseChallengeCookies and the script of
\* the page read the same.
THEOREM PageReadsTheSameAlways == Spec => []PageReadsTheSame
<1>1. CookiesParsed => PageReadsTheSame
    <2> SUFFICES ASSUME CookiesParsed, gated, Canonical(request.cookie),
                        AllNamed(request.cookie), NEW name \in CookieNames
                 PROVE  cookies[name] = PageReads(request.cookie, name)
        BY DEF PageReadsTheSame
    <2>1. request \in Requests /\ cookies = ParseChallengeCookies(request.cookie)
        BY DEF CookiesParsed
    <2>2. request.cookie \in Headers
        BY <2>1, HeadersAssumption
    <2>3. cookies[name] = MeansCookie(request.cookie, name)
        BY <2>1, <2>2, ParseMeans
    <2>4. PageReads(request.cookie, name) = MeansCookie(request.cookie, name)
        BY <2>2, PageMeans
    <2> QED
        BY <2>3, <2>4
<1> QED
    BY <1>1, CookiesParsedAlways, PTL
================================================================================
