------------------------------ MODULE HeaderProofs ------------------------------
(***************************************************************************)
(* Proofs about RequestHeaders, for any alphabet, any `protected` list and *)
(* any authorities and paths: what enters the challenge flow is what the   *)
(* documentation says of the list.                                         *)
(***************************************************************************)
EXTENDS RequestHeaders, SequenceTheorems, WellFoundedInduction, TLAPS

-----------------------------------------------------------------------------
(* Sequences.                                                              *)

\* Of the positions of a sequence that pass a test there is a first and a last.
LEMMA FirstPosition ==
    ASSUME NEW n \in Nat, NEW I \in SUBSET (1..n), I # {}
    PROVE  Min(I) \in I /\ \A i \in I : Min(I) <= i
<1>1. I \subseteq Nat
    OBVIOUS
<1>2. PICK m \in I : \A i \in I : ~ (<<i, m>> \in OpToRel(<, Nat))
    BY <1>1, WFMin, NatLessThanWellFounded
<1>3. \A i \in I : ~ (i < m)
    BY <1>1, <1>2 DEF OpToRel
<1>4. \A i \in I : m <= i
    BY <1>1, <1>3
<1> QED
    BY <1>4 DEF Min

LEMMA LastPosition ==
    ASSUME NEW n \in Nat, NEW I \in SUBSET (1..n), I # {}
    PROVE  Max(I) \in I /\ \A i \in I : i <= Max(I)
<1> DEFINE Left == {n - i : i \in I}
<1>1. Left \subseteq Nat /\ Left # {}
    <2>1. \A i \in 1..n : n - i \in Nat
        OBVIOUS
    <2> QED
        BY <2>1
<1>2. PICK l \in Left : \A k \in Left : ~ (<<k, l>> \in OpToRel(<, Nat))
    BY <1>1, WFMin, NatLessThanWellFounded
<1>3. \A k \in Left : ~ (k < l)
    BY <1>1, <1>2 DEF OpToRel
<1>4. PICK m \in I : l = n - m
    BY <1>2
<1>5. \A i \in I : i <= m
    <2> TAKE i \in I
    <2>1. ~ (n - i < n - m)
        BY <1>3, <1>4
    <2> QED
        BY <2>1
<1> QED
    BY <1>5 DEF Max

\* Texts, character by character.
LEMMA TextType ==
    ASSUME NEW s \in Text
    PROVE  /\ Len(s) \in Nat
           /\ DOMAIN s = 1..Len(s)
           /\ \A i \in 1..Len(s) : s[i] \in Chars
BY LenProperties, ElementOfSeq DEF Text

LEMMA SubText ==
    ASSUME NEW s \in Text, NEW i \in Int, NEW j \in Int, i >= 1, j <= Len(s)
    PROVE  /\ SubSeq(s, i, j) \in Text
           /\ Len(SubSeq(s, i, j)) = IF i <= j THEN j - i + 1 ELSE 0
           /\ \A k \in 1..(j - i + 1) : SubSeq(s, i, j)[k] = s[i + k - 1]
<1>1. \A k \in i..j : s[k] \in Chars
    BY TextType
<1> QED
    BY <1>1, SubSeqProperties DEF Text

LEMMA SameText ==
    ASSUME NEW s \in Text, NEW t \in Text, Len(s) = Len(t),
           \A i \in 1..Len(s) : s[i] = t[i]
    PROVE  s = t
BY SeqEqual DEF Text

LEMMA JoinedText ==
    ASSUME NEW s \in Text, NEW t \in Text
    PROVE  /\ s \o t \in Text
           /\ Len(s \o t) = Len(s) + Len(t)
           /\ \A i \in 1..Len(s) : (s \o t)[i] = s[i]
           /\ \A i \in 1..Len(t) : (s \o t)[Len(s) + i] = t[i]
<1>1. Len(s) \in Nat /\ Len(t) \in Nat
    BY TextType
<1>2. \A i \in 1..Len(s) + Len(t) : (s \o t)[i] = IF i <= Len(s) THEN s[i] ELSE t[i - Len(s)]
    BY ConcatProperties DEF Text
<1>3. ASSUME NEW i \in 1..Len(t) PROVE (s \o t)[Len(s) + i] = t[i]
    <2>1. Len(s) + i \in 1..Len(s) + Len(t) /\ ~ (Len(s) + i <= Len(s)) /\ (Len(s) + i) - Len(s) = i
        BY <1>1
    <2> QED
        BY <1>2, <2>1
<1>4. ASSUME NEW i \in 1..Len(s) PROVE (s \o t)[i] = s[i]
    BY <1>1, <1>2
<1> QED
    BY <1>3, <1>4, ConcatProperties DEF Text

\* One character, and what is there of the empty text.
LEMMA ShortText ==
    /\ \A ch \in Chars : <<ch>> \in Text /\ Len(<<ch>>) = 1 /\ <<ch>>[1] = ch
    /\ <<"*", ".">> \in Text /\ Len(<<"*", ".">>) = 2
    /\ <<>> \in Text /\ Len(<<>>) = 0
    /\ \A s \in Text : s = <<>> <=> Len(s) = 0
<1>1. \A ch \in Chars : <<ch>> \in Text /\ Len(<<ch>>) = 1 /\ <<ch>>[1] = ch
    <2>1. \A S : \A x \in S : <<x>> \in Seq(S) /\ Len(<<x>>) = 1 /\ <<x>>[1] = x
        OBVIOUS
    <2> QED
        BY <2>1, Zenon DEF Text
<1>2. <<"*", ".">> \in Text /\ Len(<<"*", ".">>) = 2
    <2>1. \A S : \A x, y \in S : <<x, y>> \in Seq(S) /\ Len(<<x, y>>) = 2
        OBVIOUS
    <2> QED
        BY <2>1, CharactersAssumption DEF Text
<1>3. <<>> \in Text /\ Len(<<>>) = 0
    BY EmptySeq DEF Text
<1>4. ASSUME NEW s \in Text PROVE s = <<>> <=> Len(s) = 0
    BY EmptySeq DEF Text
<1> QED
    BY <1>1, <1>2, <1>3, <1>4

\* Lower case keeps the length, and the dots and stars where they are.
LEMMA LowerText ==
    ASSUME NEW s \in Text
    PROVE  /\ ToLower(s) \in Text
           /\ Len(ToLower(s)) = Len(s)
           /\ DOMAIN ToLower(s) = 1..Len(s)
           /\ \A i \in 1..Len(s) :
                /\ ToLower(s)[i] = IF s[i] \in DOMAIN Lower THEN Lower[s[i]] ELSE s[i]
                /\ ToLower(s)[i] = "." <=> s[i] = "."
                /\ ToLower(s)[i] = "*" <=> s[i] = "*"
<1> DEFINE low(i) == IF s[i] \in DOMAIN Lower THEN Lower[s[i]] ELSE s[i]
<1>1. ToLower(s) = [i \in 1..Len(s) |-> low(i)]
    BY TextType DEF ToLower
<1>2. \A i \in 1..Len(s) : low(i) \in Chars
    BY TextType, CharactersAssumption
<1>3. Len(s) \in Nat
    BY TextType
<1>4. [i \in 1..Len(s) |-> low(i)] \in [1..Len(s) -> Chars]
    BY <1>2
<1>5. ToLower(s) \in Text
    BY <1>1, <1>3, <1>4, SeqDef DEF Text
<1>6. Len(ToLower(s)) = Len(s)
    BY <1>1, <1>3, <1>5, TextType
<1>7. ASSUME NEW i \in 1..Len(s)
      PROVE  /\ ToLower(s)[i] = low(i)
             /\ low(i) = "." <=> s[i] = "."
             /\ low(i) = "*" <=> s[i] = "*"
    <2>1. ToLower(s)[i] = low(i)
        BY <1>1
    <2>2. s[i] \in DOMAIN Lower => /\ s[i] # "." /\ Lower[s[i]] # "."
                                   /\ s[i] # "*" /\ Lower[s[i]] # "*"
        BY CharactersAssumption
    <2> QED
        BY <2>1, <2>2
<1> QED
    BY <1>1, <1>5, <1>6, <1>7

\* A suffix is the end of the text.
LEMMA SuffixText ==
    ASSUME NEW s \in Text, NEW t \in Text
    PROVE  IsSuffix(s, t) <=> /\ Len(s) <= Len(t)
                              /\ \A i \in 1..Len(s) : s[i] = t[Len(t) - Len(s) + i]
<1> DEFINE r == Reverse(s)
           u == Reverse(t)
<1>1. Len(s) \in Nat /\ Len(t) \in Nat
    BY TextType
<1>2. /\ r \in Text /\ Len(r) = Len(s)
      /\ \A i \in 1..Len(s) : r[i] = s[Len(s) - i + 1]
    <2>1. r \in [1..Len(s) -> Chars]
        BY <1>1, TextType DEF Reverse
    <2>2. r \in Text
        BY <1>1, <2>1, SeqDef DEF Text
    <2>3. DOMAIN r = 1..Len(r) /\ DOMAIN r = 1..Len(s)
        BY <2>1, <2>2, TextType
    <2>4. Len(r) \in Nat
        BY <2>2, TextType
    <2> HIDE DEF r
    <2>5. Len(r) = Len(s)
        BY <1>1, <2>3, <2>4
    <2> QED
        BY <2>2, <2>5 DEF r, Reverse
<1>3. /\ u \in Text /\ Len(u) = Len(t)
      /\ \A i \in 1..Len(t) : u[i] = t[Len(t) - i + 1]
    <2>1. u \in [1..Len(t) -> Chars]
        BY <1>1, TextType DEF Reverse
    <2>2. u \in Text
        BY <1>1, <2>1, SeqDef DEF Text
    <2>3. DOMAIN u = 1..Len(u) /\ DOMAIN u = 1..Len(t)
        BY <2>1, <2>2, TextType
    <2>4. Len(u) \in Nat
        BY <2>2, TextType
    <2> HIDE DEF u
    <2>5. Len(u) = Len(t)
        BY <1>1, <2>3, <2>4
    <2> QED
        BY <2>2, <2>5 DEF u, Reverse
<1> HIDE DEF r, u
<1>4. IsSuffix(s, t) <=> Len(s) <= Len(t) /\ SubSeq(r, 1, Len(s)) = SubSeq(u, 1, Len(s))
    BY <1>2, <1>3 DEF IsSuffix, IsPrefix, r, u
<1>5. ASSUME Len(s) <= Len(t)
      PROVE  SubSeq(r, 1, Len(s)) = SubSeq(u, 1, Len(s)) <=> \A i \in 1..Len(s) : r[i] = u[i]
    <2>1. /\ SubSeq(r, 1, Len(s)) \in Text /\ SubSeq(u, 1, Len(s)) \in Text
          /\ Len(SubSeq(r, 1, Len(s))) = Len(s) /\ Len(SubSeq(u, 1, Len(s))) = Len(s)
          /\ \A i \in 1..Len(s) : SubSeq(r, 1, Len(s))[i] = r[i] /\ SubSeq(u, 1, Len(s))[i] = u[i]
        BY <1>1, <1>2, <1>3, <1>5, SubText
    <2> QED
        BY <2>1, SameText
<1>6. ASSUME Len(s) <= Len(t)
      PROVE  (\A i \in 1..Len(s) : r[i] = u[i])
               <=> (\A i \in 1..Len(s) : s[i] = t[Len(t) - Len(s) + i])
    <2>1. ASSUME NEW i \in 1..Len(s)
          PROVE  /\ Len(s) - i + 1 \in 1..Len(s)
                 /\ r[Len(s) - i + 1] = s[i]
                 /\ u[Len(s) - i + 1] = t[Len(t) - Len(s) + i]
        <3>1. /\ Len(s) - i + 1 \in 1..Len(s) /\ Len(s) - i + 1 \in 1..Len(t)
              /\ Len(s) - (Len(s) - i + 1) + 1 = i
              /\ Len(t) - (Len(s) - i + 1) + 1 = Len(t) - Len(s) + i
            BY <1>1, <1>6
        <3> QED
            BY <1>2, <1>3, <3>1
    <2>2. \A i \in 1..Len(s) : Len(s) - (Len(s) - i + 1) + 1 = i
        BY <1>1
    <2> QED
        BY <2>1, <2>2
<1> QED
    BY <1>4, <1>5, <1>6

LEMMA PrefixText ==
    ASSUME NEW s \in Text, NEW t \in Text
    PROVE  IsPrefix(s, t) <=> Len(s) <= Len(t) /\ \A i \in 1..Len(s) : s[i] = t[i]
<1>1. Len(s) \in Nat /\ Len(t) \in Nat
    BY TextType
<1>2. ASSUME Len(s) <= Len(t)
      PROVE  /\ SubSeq(s, 1, Len(s)) \in Text /\ SubSeq(t, 1, Len(s)) \in Text
             /\ Len(SubSeq(s, 1, Len(s))) = Len(s) /\ Len(SubSeq(t, 1, Len(s))) = Len(s)
             /\ \A i \in 1..Len(s) : SubSeq(s, 1, Len(s))[i] = s[i] /\ SubSeq(t, 1, Len(s))[i] = t[i]
    BY <1>1, <1>2, SubText
<1>3. ASSUME Len(s) <= Len(t)
      PROVE  SubSeq(s, 1, Len(s)) = SubSeq(t, 1, Len(s)) <=> \A i \in 1..Len(s) : s[i] = t[i]
    BY <1>2, <1>3, SameText
<1> QED
    BY <1>3 DEF IsPrefix

-----------------------------------------------------------------------------
(* Authorities and paths.                                                  *)

\* The host of an authority is what normalizing it leaves, in lower case: of a
\* name with and without a port, of an address in brackets and of a bare one.
LEMMA AuthorityHost ==
    ASSUME NEW a \in Text, NEW s \in HostsOf(a), s # <<>>, ~ Contains(s, "]")
    PROVE  s \in Text /\ NormalizeAuthority(a) = ToLower(s)
<1> DEFINE ports  == {<<>>} \cup {<<":">> \o d : d \in BoundedSeq(Digits, Len(a))}
           closes == {i \in 1..Len(a) : a[i] = "]"}
           colons == {i \in 1..Len(a) : a[i] = ":"}
           close  == IF closes # {} THEN Min(closes) ELSE 0
           colon  == IF colons # {} THEN Max(colons) ELSE 0
           bracketed(t, port) == a = <<"[">> \o t \o <<"]">> \o port
           plain(t, port) ==
               /\ a = t \o port /\ ~ IsPrefix(<<"[">>, t)
               /\ Contains(t, ":") => /\ port = <<>>
                                      /\ \E k, l \in DOMAIN t : k < l /\ t[k] = ":" /\ t[l] = ":"
           hasPort == /\ colon > 1
                      /\ ToSet(After(a, colon)) \subseteq Digits
                      /\ ~ Contains(Before(a, colon), ":")
<1>1. NormalizeAuthority(a) =
        ToLower(IF IsPrefix(<<"[">>, a)
                THEN IF close = 0 THEN a ELSE SubSeq(a, 2, close - 1)
                ELSE IF hasPort THEN Before(a, colon) ELSE a)
    BY DEF NormalizeAuthority, SelectInSeq, SelectLastInSeq
<1>2. Len(a) \in Nat
    BY TextType
<1>3. s \in Text /\ Len(s) \in Nat /\ Len(s) > 0
    <2>1. PICK i \in 1..2, j \in 0..Len(a) : s = SubSeq(a, i, j)
        BY DEF HostsOf
    <2>2. s \in Text
        BY <1>2, <2>1, SubText
    <2> QED
        BY <2>2, TextType, ShortText
<1>4. \A i \in 1..Len(s) : s[i] # "]"
    BY DEF Contains
<1>5. PICK port \in ports : bracketed(s, port) \/ plain(s, port)
    <2> DEFINE parts == {SubSeq(a, i, j) : i \in 1..2, j \in 0..Len(a)}
    <2>1. HostsOf(a) = {t \in parts : \E port \in ports : bracketed(t, port) \/ plain(t, port)}
        BY DEF HostsOf
    <2> HIDE DEF ports, parts, bracketed, plain
    <2> QED
        BY <2>1
<1>6. /\ port \in Text /\ Len(port) \in Nat
      /\ port = <<>> \/ /\ Len(port) > 0 /\ port[1] = ":"
                        /\ \A i \in 2..Len(port) : port[i] \in Digits
    <2>1. CASE port = <<>>
        BY <2>1, ShortText
    <2>2. CASE port # <<>>
        <3>1. PICK d \in BoundedSeq(Digits, Len(a)) : port = <<":">> \o d
            BY <2>2
        <3>2. PICK m \in Nat : d \in [1..m -> Digits]
            <4>1. PICK m \in 0..Len(a) : d \in [1..m -> Digits]
                BY DEF BoundedSeq, SeqOf
            <4> QED
                BY <1>2, <4>1
        <3>3. d \in Seq(Digits)
            BY <3>2, SeqDef
        <3>4. d \in Text
            BY <3>3, SeqMonotonic, CharactersAssumption DEF Text
        <3>5. <<":">> \in Text /\ Len(<<":">>) = 1 /\ <<":">>[1] = ":"
            BY ShortText, CharactersAssumption
        <3>6. /\ port \in Text /\ Len(port) = 1 + Len(d) /\ Len(d) \in Nat
              /\ port[1] = ":"
              /\ \A i \in 1..Len(d) : port[1 + i] = d[i]
            BY <3>1, <3>4, <3>5, JoinedText, TextType
        <3>7. \A i \in 1..Len(d) : d[i] \in Digits
            BY <3>3, ElementOfSeq
        <3>8. ASSUME NEW i \in 2..Len(port) PROVE port[i] \in Digits
            <4>1. i - 1 \in 1..Len(d) /\ 1 + (i - 1) = i
                BY <3>6
            <4> QED
                BY <3>6, <3>7, <4>1
        <3> QED
            BY <3>6, <3>8
    <2> QED
        BY <2>1, <2>2
<1>7. ASSUME NEW t \in Text
      PROVE  IsPrefix(<<"[">>, t) <=> Len(t) > 0 /\ t[1] = "["
    BY <1>7, ShortText, CharactersAssumption, PrefixText, TextType
<1> HIDE DEF ports
<1>8. CASE bracketed(s, port)
    <2> DEFINE open == <<"[">> \o s
               shut == open \o <<"]">>
    <2>1. /\ open \in Text /\ Len(open) = 1 + Len(s) /\ open[1] = "["
          /\ \A i \in 1..Len(s) : open[1 + i] = s[i]
        BY <1>3, ShortText, CharactersAssumption, JoinedText
    <2> HIDE DEF open
    <2>2. /\ shut \in Text /\ Len(shut) = 2 + Len(s) /\ shut[2 + Len(s)] = "]"
          /\ \A i \in 1..1 + Len(s) : shut[i] = open[i]
        BY <1>3, <2>1, ShortText, CharactersAssumption, JoinedText
    <2>3. a = shut \o port
        BY <1>8 DEF open
    <2> HIDE DEF shut
    <2>4. /\ Len(a) = 2 + Len(s) + Len(port)
          /\ \A i \in 1..2 + Len(s) : a[i] = shut[i]
        <3>1. /\ Len(shut \o port) = Len(shut) + Len(port)
              /\ \A i \in 1..Len(shut) : (shut \o port)[i] = shut[i]
            BY <1>6, <2>2, JoinedText
        <3> QED
            BY <2>2, <2>3, <3>1
    <2>5. a[1] = "[" /\ a[2 + Len(s)] = "]"
        BY <1>3, <2>1, <2>2, <2>4
    <2>6. ASSUME NEW i \in 1..Len(s) PROVE a[1 + i] = s[i]
        BY <1>3, <2>1, <2>2, <2>4, <2>6
    <2>7. ASSUME NEW i \in closes PROVE i >= 2 + Len(s)
        <3> SUFFICES ASSUME i \in 2..1 + Len(s) PROVE FALSE
            BY <1>2, <1>3, <2>5
        <3>1. i - 1 \in 1..Len(s) /\ 1 + (i - 1) = i
            BY <1>3
        <3> QED
            BY <1>4, <2>6, <3>1
    <2>8. close = 2 + Len(s)
        <3>1. 2 + Len(s) \in closes /\ closes \in SUBSET (1..Len(a))
            BY <1>3, <1>6, <2>4, <2>5
        <3>2. Min(closes) \in closes /\ Min(closes) <= 2 + Len(s)
            BY <1>2, <3>1, FirstPosition
        <3> QED
            BY <1>2, <1>3, <2>7, <3>1, <3>2
    <2>9. SubSeq(a, 2, 1 + Len(s)) = s
        <3>1. /\ SubSeq(a, 2, 1 + Len(s)) \in Text
              /\ Len(SubSeq(a, 2, 1 + Len(s))) = Len(s)
              /\ \A i \in 1..Len(s) : SubSeq(a, 2, 1 + Len(s))[i] = a[1 + i]
            BY <1>3, <1>6, <2>4, SubText
        <3> QED
            BY <1>3, <2>6, <3>1, SameText
    <2>10. IsPrefix(<<"[">>, a)
        BY <1>3, <1>6, <1>7, <2>4, <2>5
    <2>11. close # 0 /\ close - 1 = 1 + Len(s)
        BY <1>3, <2>8
    <2> HIDE DEF close
    <2> QED
        BY <1>1, <1>3, <2>9, <2>10, <2>11
<1>9. CASE plain(s, port)
    <2>1. /\ Len(a) = Len(s) + Len(port)
          /\ \A i \in 1..Len(s) : a[i] = s[i]
          /\ \A i \in 1..Len(port) : a[Len(s) + i] = port[i]
        BY <1>3, <1>6, <1>9, JoinedText
    <2>2. ~ IsPrefix(<<"[">>, a)
        <3>1. ~ (s[1] = "[")
            BY <1>3, <1>7, <1>9
        <3>2. a[1] = s[1]
            BY <1>3, <2>1
        <3> QED
            BY <1>7, <3>1, <3>2
    <2>3. NormalizeAuthority(a) = ToLower(IF hasPort THEN Before(a, colon) ELSE a)
        BY <1>1, <2>2
    <2>4. colons \in SUBSET (1..Len(a))
        OBVIOUS
    <2>5. CASE Contains(s, ":")
        <3>1. PICK k \in DOMAIN s, l \in DOMAIN s : k < l /\ s[k] = ":" /\ s[l] = ":"
            BY <1>9, <2>5
        <3>2. a = s
            BY <1>3, <1>9, <2>5, ConcatEmptySeq DEF Text
        <3>3. k \in 1..Len(a) /\ l \in colons
            BY <3>1, <3>2, TextType
        <3>4. colon \in 1..Len(a) /\ l <= colon
            BY <1>2, <2>4, <3>3, LastPosition
        <3>5. Contains(Before(a, colon), ":")
            <4>1. k \in 1..colon - 1
                BY <1>2, <3>1, <3>3, <3>4
            <4>2. /\ Len(Before(a, colon)) = colon - 1
                  /\ Before(a, colon)[k] = a[k]
                BY <1>2, <3>4, <4>1, SubText DEF Before
            <4> QED
                BY <3>1, <3>2, <4>1, <4>2 DEF Contains
        <3> HIDE DEF colon
        <3> QED
            BY <2>3, <3>2, <3>5, <1>3
    <2>6. CASE ~ Contains(s, ":") /\ port = <<>>
        <3>1. a = s
            BY <1>3, <1>9, <2>6, ConcatEmptySeq DEF Text
        <3>2. colons = {}
            BY <2>6, <3>1 DEF Contains
        <3>3. ~ hasPort
            BY <3>2
        <3> HIDE DEF hasPort
        <3> QED
            BY <2>3, <3>1, <3>3, <1>3
    <2>7. CASE ~ Contains(s, ":") /\ port # <<>>
        <3>1. \A i \in 1..Len(s) : s[i] # ":"
            BY <2>7 DEF Contains
        <3>2. Len(port) > 0 /\ port[1] = ":" /\ \A i \in 2..Len(port) : port[i] \in Digits
            BY <1>6, <2>7
        <3>3. Len(s) + 1 \in colons
            BY <1>3, <1>6, <2>1, <3>2
        <3>4. ASSUME NEW i \in 2..Len(port)
              PROVE  a[Len(s) + i] \in Digits /\ Len(s) + i \notin colons
            BY <1>6, <2>1, <3>2, <3>4, CharactersAssumption
        <3>5. ASSUME NEW i \in colons PROVE i <= Len(s) + 1
            <4> SUFFICES ASSUME i > Len(s) + 1 PROVE FALSE
                BY <1>2, <1>3
            <4>1. i - Len(s) \in 2..Len(port) /\ Len(s) + (i - Len(s)) = i
                BY <1>2, <1>3, <1>6, <2>1
            <4> QED
                BY <3>4, <4>1
        <3>6. colon = Len(s) + 1
            <4>1. Max(colons) \in colons /\ Len(s) + 1 <= Max(colons)
                BY <1>2, <2>4, <3>3, LastPosition
            <4> QED
                BY <1>2, <1>3, <3>3, <3>5, <4>1
        <3> HIDE DEF colon
        <3>7. Before(a, colon) = s
            <4>1. /\ Before(a, colon) \in Text
                  /\ Len(Before(a, colon)) = Len(s)
                  /\ \A i \in 1..Len(s) : Before(a, colon)[i] = a[i]
                BY <1>3, <1>6, <2>1, <3>6, SubText DEF Before
            <4> QED
                BY <1>3, <2>1, <4>1, SameText
        <3>8. ToSet(After(a, colon)) \subseteq Digits
            <4>1. /\ After(a, colon) \in Text
                  /\ Len(After(a, colon)) = Len(port) - 1
                  /\ \A i \in 1..Len(port) - 1 : After(a, colon)[i] = a[Len(s) + (i + 1)]
                <5>1. /\ Len(s) + 2 \in Int /\ Len(s) + 2 >= 1
                      /\ Len(a) - (Len(s) + 2) + 1 = Len(port) - 1
                      /\ \A i \in Int : Len(s) + 2 + i - 1 = Len(s) + (i + 1)
                      /\ colon + 1 = Len(s) + 2
                    BY <1>3, <1>6, <2>1, <3>6
                <5>2. /\ SubSeq(a, Len(s) + 2, Len(a)) \in Text
                      /\ Len(SubSeq(a, Len(s) + 2, Len(a)))
                           = IF Len(s) + 2 <= Len(a) THEN Len(a) - (Len(s) + 2) + 1 ELSE 0
                      /\ \A i \in 1..Len(a) - (Len(s) + 2) + 1 :
                            SubSeq(a, Len(s) + 2, Len(a))[i] = a[Len(s) + 2 + i - 1]
                    BY <1>2, <5>1, SubText
                <5>3. After(a, colon) = SubSeq(a, Len(s) + 2, Len(a))
                    BY <5>1 DEF After
                <5> QED
                    BY <1>2, <1>3, <1>6, <2>1, <3>2, <5>1, <5>2, <5>3
            <4>2. ASSUME NEW i \in DOMAIN After(a, colon) PROVE After(a, colon)[i] \in Digits
                <5>1. i \in 1..Len(port) - 1 /\ i + 1 \in 2..Len(port)
                    BY <1>6, <4>1, TextType
                <5> QED
                    BY <3>4, <4>1, <5>1
            <4> QED
                BY <4>2 DEF ToSet
        <3>9. hasPort
            BY <1>3, <2>7, <3>6, <3>7, <3>8
        <3> HIDE DEF hasPort
        <3> QED
            BY <1>3, <2>3, <3>7, <3>9
    <2> QED
        BY <2>5, <2>6, <2>7
<1> QED
    BY <1>3, <1>5, <1>8, <1>9

\* The path of a request is what is left of it without the query.
LEMMA PathBare ==
    ASSUME NEW path \in Text
    PROVE  WithoutQuery(path) \in Text /\ PathsOf(path) = {WithoutQuery(path)}
<1> DEFINE marks == {i \in 1..Len(path) : path[i] = "?"}
           query == IF marks # {} THEN Min(marks) ELSE 0
           splits == {i \in 0..(Len(path) - 1) : path[i + 1] = "?"}
<1>1. WithoutQuery(path) = IF query = 0 THEN path ELSE SubSeq(path, 1, query - 1)
    BY DEF WithoutQuery, SelectInSeq, Before
<1>2. Len(path) \in Nat
    BY TextType
<1>3. CASE marks = {}
    <2>1. ~ Contains(path, "?")
        BY <1>3 DEF Contains
    <2> QED
        BY <1>1, <1>3, <2>1 DEF PathsOf
<1>4. CASE marks # {}
    <2>1. Contains(path, "?")
        BY <1>4 DEF Contains
    <2>2. query \in marks /\ \A i \in marks : query <= i
        <3>1. marks \in SUBSET (1..Len(path))
            OBVIOUS
        <3> QED
            BY <1>2, <1>4, <3>1, FirstPosition
    <2> HIDE DEF query
    <2>3. query \in 1..Len(path) /\ path[query] = "?"
        BY <2>2
    <2>4. WithoutQuery(path) = SubSeq(path, 1, query - 1)
        BY <1>1, <2>3
    <2>5. WithoutQuery(path) \in Text
        BY <1>2, <2>3, <2>4, SubText
    <2>6. ASSUME NEW i \in 0..(Len(path) - 1)
          PROVE  SubSeq(path, i + 1, i + 1) = <<"?">> <=> path[i + 1] = "?"
        <3>1. /\ SubSeq(path, i + 1, i + 1) \in Text
              /\ Len(SubSeq(path, i + 1, i + 1)) = 1
              /\ SubSeq(path, i + 1, i + 1)[1] = path[i + 1]
            <4>1. /\ i + 1 \in Int /\ i + 1 >= 1 /\ i + 1 <= Len(path)
                  /\ (i + 1) - (i + 1) + 1 = 1 /\ (i + 1) + 1 - 1 = i + 1
                BY <1>2
            <4> QED
                BY <4>1, SubText
        <3>2. <<"?">> \in Text /\ Len(<<"?">>) = 1 /\ <<"?">>[1] = "?"
            BY ShortText, CharactersAssumption
        <3> DEFINE one == SubSeq(path, i + 1, i + 1)
                   mark == <<"?">>
        <3>3. \A j \in 1..1 : j = 1
            OBVIOUS
        <3> HIDE DEF one, mark
        <3>4. one \in Text /\ mark \in Text /\ Len(one) = 1 /\ Len(mark) = 1 /\ mark[1] = "?" /\ one[1] = path[i + 1]
            BY <3>1, <3>2 DEF one, mark
        <3>5. one = mark <=> path[i + 1] = "?"
            BY <3>3, <3>4, SameText
        <3> QED
            BY <3>5 DEF one, mark
    <2>7. ASSUME NEW i \in 0..(Len(path) - 1)
          PROVE  Contains(SubSeq(path, 1, i), "?") <=> \E j \in 1..i : path[j] = "?"
        <3>1. /\ Len(SubSeq(path, 1, i)) = i
              /\ \A j \in 1..i : SubSeq(path, 1, i)[j] = path[j]
            BY <1>2, SubText
        <3> QED
            BY <3>1 DEF Contains
    <2>8. ASSUME NEW i \in 0..(Len(path) - 1)
          PROVE  path[i + 1] = "?" /\ ~ (\E j \in 1..i : path[j] = "?") <=> i = query - 1
        <3>1. i = query - 1 => path[i + 1] = "?"
            BY <2>3
        <3>2. i = query - 1 => ~ (\E j \in 1..i : path[j] = "?")
            BY <1>2, <2>2, <2>3
        <3>3. path[i + 1] = "?" /\ ~ (\E j \in 1..i : path[j] = "?") => i = query - 1
            <4>1. path[i + 1] = "?" => query <= i + 1
                BY <1>2, <2>2
            <4>2. ~ (\E j \in 1..i : path[j] = "?") => query > i
                BY <1>2, <2>3
            <4> QED
                BY <2>3, <4>1, <4>2
        <3> QED
            BY <3>1, <3>2, <3>3
    <2> DEFINE cut(i) == <<SubSeq(path, 1, i), SubSeq(path, i + 1 + 1, Len(path))>>
               places == {i \in 0..(Len(path) - 1) : SubSeq(path, i + 1, i + 1) = <<"?">>}
    <2>9. Splits(path, <<"?">>) = {cut(i) : i \in places}
        BY ShortText, CharactersAssumption DEF Splits
    <2>10. PathsOf(path) = {SubSeq(path, 1, i) : i \in {j \in places : ~ Contains(SubSeq(path, 1, j), "?")}}
        <3>1. \A i : cut(i)[1] = SubSeq(path, 1, i)
            OBVIOUS
        <3> HIDE DEF cut, places
        <3> QED
            BY <2>1, <2>9, <3>1 DEF PathsOf
    <2>11. {j \in places : ~ Contains(SubSeq(path, 1, j), "?")} = {query - 1}
        <3>1. query - 1 \in 0..(Len(path) - 1)
            BY <1>2, <2>3
        <3> QED
            BY <2>6, <2>7, <2>8, <3>1
    <2> QED
        BY <2>4, <2>5, <2>10, <2>11
<1> QED
    BY <1>3, <1>4

-----------------------------------------------------------------------------
(* Rules.                                                                  *)

\* A host entry begins with "*." or not, and what its name is.
LEMMA EntryName ==
    ASSUME NEW text \in Text
    PROVE  LET wild == IsPrefix(<<"*", ".">>, text)
           IN  /\ wild <=> Len(text) >= 2 /\ text[1] = "*" /\ text[2] = "."
               /\ wild => /\ After(text, 2) \in Text /\ Len(After(text, 2)) = Len(text) - 2
                          /\ \A i \in 1..Len(text) - 2 : After(text, 2)[i] = text[i + 2]
<1>1. Len(text) \in Nat
    BY TextType
<1>2. IsPrefix(<<"*", ".">>, text) <=> Len(text) >= 2 /\ text[1] = "*" /\ text[2] = "."
    <2>1. /\ <<"*", ".">> \in Text /\ Len(<<"*", ".">>) = 2
          /\ <<"*", ".">>[1] = "*" /\ <<"*", ".">>[2] = "."
        BY ShortText
    <2> DEFINE star == <<"*", ".">>
    <2> HIDE DEF star
    <2>2. IsPrefix(star, text) <=> 2 <= Len(text) /\ \A i \in 1..2 : star[i] = text[i]
        BY <2>1, PrefixText DEF star
    <2>3. (\A i \in 1..2 : star[i] = text[i]) <=> star[1] = text[1] /\ star[2] = text[2]
        <3>1. \A i \in 1..2 : i = 1 \/ i = 2
            OBVIOUS
        <3> QED
            BY <3>1
    <2>4. star[1] = "*" /\ star[2] = "."
        BY <2>1 DEF star
    <2>5. IsPrefix(star, text) <=> Len(text) >= 2 /\ text[1] = "*" /\ text[2] = "."
        BY <1>1, <2>2, <2>3, <2>4
    <2> QED
        BY <2>5 DEF star
<1>3. ASSUME Len(text) >= 2
      PROVE  /\ After(text, 2) \in Text /\ Len(After(text, 2)) = Len(text) - 2
             /\ \A i \in 1..Len(text) - 2 : After(text, 2)[i] = text[i + 2]
    <2>1. /\ SubSeq(text, 3, Len(text)) \in Text
          /\ Len(SubSeq(text, 3, Len(text))) = IF 3 <= Len(text) THEN Len(text) - 3 + 1 ELSE 0
          /\ \A i \in 1..(Len(text) - 3 + 1) : SubSeq(text, 3, Len(text))[i] = text[3 + i - 1]
        BY <1>1, SubText
    <2>2. /\ Len(text) - 3 + 1 = Len(text) - 2
          /\ \A i \in Int : 3 + i - 1 = i + 2
        BY <1>1
    <2> QED
        BY <1>1, <1>3, <2>1, <2>2 DEF After
<1> QED
    BY <1>2, <1>3

\* The host entries that are dropped are the invalid ones.
LEMMA HostDropped ==
    ASSUME NEW text \in Text \cup {OtherType}
    PROVE  /\ CompileHost(text) = Dropped <=> InvalidHost(text)
           /\ CompileHost(text) # Dropped => text \in Text /\ CompileHost(text) \in [wild : BOOLEAN, name : Text]
<1>1. CASE text = OtherType
    BY <1>1 DEF CompileHost, InvalidHost
<1>2. CASE text # OtherType
    <2> DEFINE wild == IsPrefix(<<"*", ".">>, text)
               name == IF wild THEN After(text, 2) ELSE text
    <2>1. text \in Text /\ Len(text) \in Nat
        BY <1>2, TextType
    <2>2. wild <=> Len(text) >= 2 /\ text[1] = "*" /\ text[2] = "."
        BY <2>1, EntryName
    <2>3. wild => /\ After(text, 2) \in Text /\ Len(After(text, 2)) = Len(text) - 2
                  /\ \A i \in 1..Len(text) - 2 : After(text, 2)[i] = text[i + 2]
        BY <2>1, EntryName
    <2>4. wild \in BOOLEAN
        BY DEF IsPrefix
    <2>5. name \in Text
        BY <2>1, <2>3
    <2>6. CompileHost(text) = IF name = <<>> \/ Contains(name, "*") THEN Dropped
                              ELSE [wild |-> wild, name |-> ToLower(name)]
        BY <1>2 DEF CompileHost
    <2>7. [wild |-> wild, name |-> ToLower(name)] \in [wild : BOOLEAN, name : Text]
        BY <2>4, <2>5, LowerText
    <2>8. CompileHost(text) = Dropped <=> name = <<>> \/ Contains(name, "*")
        BY <2>6, <2>7, DroppedAssumption
    <2>9. name = <<>> \/ Contains(name, "*") <=> InvalidHost(text)
        <3>1. CASE wild
            <4>1. name = <<>> <=> text = <<"*", ".">>
                <5>1. name = <<>> <=> Len(text) = 2
                    BY <2>1, <2>3, <3>1, ShortText
                <5>2. text = <<"*", ".">> => Len(text) = 2
                    BY ShortText
                <5>3. Len(text) = 2 => text = <<"*", ".">>
                    <6>1. /\ <<"*", ".">> \in Text /\ Len(<<"*", ".">>) = 2
                          /\ <<"*", ".">>[1] = "*" /\ <<"*", ".">>[2] = "."
                        BY ShortText
                    <6>2. \A i \in 1..2 : i = 1 \/ i = 2
                        OBVIOUS
                    <6> QED
                        BY <2>1, <2>2, <3>1, <6>1, <6>2, SameText
                <5> QED
                    BY <5>1, <5>2, <5>3
            <4>2. Contains(name, "*") <=> \E i \in DOMAIN text : text[i] = "*" /\ i > 1
                <5>1. Contains(name, "*") => \E i \in DOMAIN text : text[i] = "*" /\ i > 1
                    <6> SUFFICES ASSUME NEW i \in 1..Len(name), name[i] = "*"
                                 PROVE  i + 2 \in DOMAIN text /\ text[i + 2] = "*" /\ i + 2 > 1
                        BY DEF Contains
                    <6> QED
                        BY <2>1, <2>2, <2>3, <3>1, TextType
                <5>2. ASSUME NEW i \in DOMAIN text, text[i] = "*", i > 1 PROVE Contains(name, "*")
                    <6>1. i \in 1..Len(text) /\ i # 2
                        BY <2>1, <2>2, <3>1, <5>2, TextType
                    <6>2. i - 2 \in 1..Len(name) /\ (i - 2) + 2 = i
                        BY <2>1, <2>2, <2>3, <3>1, <5>2, <6>1
                    <6>3. name[i - 2] = "*"
                        BY <2>3, <3>1, <5>2, <6>2
                    <6> QED
                        BY <6>2, <6>3 DEF Contains
                <5> QED
                    BY <5>1, <5>2
            <4>3. text # <<>> /\ Len(text) # 1 /\ text[2] = "."
                BY <2>1, <2>2, <3>1, ShortText
            <4> HIDE DEF name, wild
            <4> QED
                BY <1>2, <4>1, <4>2, <4>3 DEF InvalidHost
        <3>2. CASE ~ wild
            <4>1. name = text /\ DOMAIN text = 1..Len(text)
                BY <2>1, <3>2, TextType
            <4>2. text # <<"*", ".">>
                <5>1. \A t \in Text : t = <<"*", ".">> => Len(t) >= 2 /\ t[1] = "*" /\ t[2] = "."
                    BY ShortText
                <5> QED
                    BY <2>1, <2>2, <3>2, <5>1
            <4> HIDE DEF name, wild
            <4>3. ASSUME NEW i \in 1..Len(text), text[i] = "*"
                  PROVE  i > 1 \/ Len(text) = 1 \/ text[2] # "."
                <5> SUFFICES ASSUME i <= 1, Len(text) # 1, text[2] = "." PROVE FALSE
                    BY <2>1
                <5>1. \A n \in Nat : i \in 1..n /\ n # 1 => i = 1 /\ n >= 2
                    OBVIOUS
                <5>2. i = 1 /\ Len(text) >= 2
                    BY <2>1, <5>1
                <5> QED
                    BY <2>2, <3>2, <4>3, <5>2
            <4> QED
                BY <1>2, <4>1, <4>2, <4>3 DEF InvalidHost, Contains
        <3> QED
            BY <3>1, <3>2
    <2> HIDE DEF name, wild
    <2> QED
        BY <2>1, <2>6, <2>7, <2>8, <2>9
<1> QED
    BY <1>1, <1>2

\* H is N with one label and a dot before it, the label being j long.
Under(N, H, j) ==
    /\ j > 0 /\ Len(H) = j + 1 + Len(N)
    /\ H[j + 1] = "." /\ \A i \in 1..j : H[i] # "."
    /\ \A i \in 1..Len(N) : N[i] = H[j + 1 + i]

\* A compiled wildcard matches one label more than its name, and nothing else.
LEMMA WildMatches ==
    ASSUME NEW N \in Text, NEW H \in Text
    PROVE  HostMatches([wild |-> TRUE, name |-> N], H) <=> \E j \in Nat : Under(N, H, j)
<1> DEFINE suffix == <<".">> \o N
           k == Len(H) - Len(suffix)
<1>1. Len(N) \in Nat /\ Len(H) \in Nat
    BY TextType
<1>2. /\ suffix \in Text /\ Len(suffix) = 1 + Len(N) /\ suffix[1] = "."
      /\ \A i \in 1..Len(N) : suffix[1 + i] = N[i]
    <2> DEFINE dot == <<".">>
    <2>1. dot \in Text /\ Len(dot) = 1 /\ dot[1] = "."
        BY ShortText, CharactersAssumption
    <2> HIDE DEF dot
    <2>2. /\ dot \o N \in Text /\ Len(dot \o N) = 1 + Len(N)
          /\ \A i \in 1..Len(dot) : (dot \o N)[i] = dot[i]
          /\ \A i \in 1..Len(N) : (dot \o N)[Len(dot) + i] = N[i]
        <3>1. dot \in Text /\ N \in Text
            BY <2>1
        <3>2. /\ dot \o N \in Text /\ Len(dot \o N) = Len(dot) + Len(N)
              /\ \A i \in 1..Len(dot) : (dot \o N)[i] = dot[i]
              /\ \A i \in 1..Len(N) : (dot \o N)[Len(dot) + i] = N[i]
            BY <3>1, JoinedText
        <3> QED
            BY <2>1, <3>2
    <2>3. (dot \o N)[1] = "."
        BY <2>1, <2>2
    <2> QED
        BY <2>1, <2>2, <2>3 DEF dot
<1>3. HostMatches([wild |-> TRUE, name |-> N], H)
        <=> IsSuffix(suffix, H) /\ suffix # H /\ ~ Contains(SubSeq(H, 1, k), ".")
    BY DEF HostMatches, IsStrictSuffix
<1> HIDE DEF suffix
<1>4. IsSuffix(suffix, H) <=> Len(suffix) <= Len(H) /\ \A i \in 1..Len(suffix) : suffix[i] = H[k + i]
    BY <1>2, SuffixText
<1>5. (\A i \in 1..Len(suffix) : suffix[i] = H[k + i])
        <=> H[k + 1] = "." /\ \A i \in 1..Len(N) : N[i] = H[k + 1 + i]
    <2>1. ASSUME \A i \in 1..Len(suffix) : suffix[i] = H[k + i]
          PROVE  H[k + 1] = "." /\ \A i \in 1..Len(N) : N[i] = H[k + 1 + i]
        <3>1. H[k + 1] = "."
            BY <1>1, <1>2, <2>1
        <3>2. ASSUME NEW i \in 1..Len(N) PROVE N[i] = H[k + 1 + i]
            <4>1. 1 + i \in 1..Len(suffix) /\ k + (1 + i) = k + 1 + i
                BY <1>1, <1>2
            <4>2. suffix[1 + i] = H[k + (1 + i)]
                BY <2>1, <4>1
            <4> QED
                BY <1>2, <4>1, <4>2
        <3> QED
            BY <3>1, <3>2
    <2>2. ASSUME H[k + 1] = ".", \A i \in 1..Len(N) : N[i] = H[k + 1 + i],
                 NEW i \in 1..Len(suffix)
          PROVE  suffix[i] = H[k + i]
        <3>1. CASE i = 1
            BY <1>2, <2>2, <3>1
        <3>2. CASE i # 1
            <4>1. i - 1 \in 1..Len(N) /\ 1 + (i - 1) = i /\ k + 1 + (i - 1) = k + i
                BY <1>1, <1>2, <3>2
            <4>2. suffix[1 + (i - 1)] = N[i - 1] /\ N[i - 1] = H[k + 1 + (i - 1)]
                BY <1>2, <2>2, <4>1
            <4> QED
                BY <4>1, <4>2
        <3> QED
            BY <3>1, <3>2
    <2> QED
        BY <2>1, <2>2
<1>6. k = Len(H) - (1 + Len(N)) /\ k \in Int
    BY <1>1, <1>2
<1> HIDE DEF k
<1>7. IsSuffix(suffix, H) => (suffix # H <=> k > 0)
    <2>1. suffix = H => k = 0
        BY <1>1, <1>2, <1>6
    <2>2. IsSuffix(suffix, H) /\ k = 0 => suffix = H
        BY <1>1, <1>2, <1>4, <1>6, SameText
    <2>3. IsSuffix(suffix, H) => k >= 0
        BY <1>1, <1>2, <1>4, <1>6
    <2> QED
        BY <1>6, <2>1, <2>2, <2>3
<1>8. ASSUME k > 0 PROVE ~ Contains(SubSeq(H, 1, k), ".") <=> \A i \in 1..k : H[i] # "."
    <2>1. /\ Len(SubSeq(H, 1, k)) = k
          /\ \A i \in 1..k : SubSeq(H, 1, k)[i] = H[i]
        <3>1. \A i \in Int : 1 + i - 1 = i
            OBVIOUS
        <3>2. k <= Len(H) /\ k - 1 + 1 = k /\ 1 <= k
            BY <1>1, <1>6, <1>8
        <3> QED
            BY <1>6, <3>1, <3>2, SubText
    <2> QED
        BY <2>1 DEF Contains
<1>9. HostMatches([wild |-> TRUE, name |-> N], H) <=> Under(N, H, k)
    <2>1. k > 0 => Len(suffix) <= Len(H) /\ Len(H) = k + 1 + Len(N)
        BY <1>1, <1>2, <1>6
    <2> QED
        BY <1>3, <1>4, <1>5, <1>7, <1>8, <2>1 DEF Under
<1>10. \A j \in Nat : Under(N, H, j) => j = k
    BY <1>1, <1>6 DEF Under
<1>11. Under(N, H, k) => k \in Nat
    BY <1>6 DEF Under
<1> QED
    BY <1>9, <1>10, <1>11

\* A host entry matches, compiled, what it means.
LEMMA HostMeant ==
    ASSUME NEW text \in Text, NEW host \in Text, CompileHost(text) # Dropped
    PROVE  HostMatches(CompileHost(text), ToLower(host)) <=> MeansHost(text, host)
<1> DEFINE wild == IsPrefix(<<"*", ".">>, text)
           rest == After(text, 2)
           H == ToLower(host)
           T == ToLower(text)
<1>1. Len(text) \in Nat /\ Len(host) \in Nat
    BY TextType
<1>2. wild <=> Len(text) >= 2 /\ text[1] = "*" /\ text[2] = "."
    BY EntryName
<1>3. ~ InvalidHost(text)
    BY HostDropped
<1>4. /\ H \in Text /\ Len(H) = Len(host)
      /\ \A i \in 1..Len(host) : /\ H[i] = IF host[i] \in DOMAIN Lower THEN Lower[host[i]] ELSE host[i]
                                 /\ H[i] = "." <=> host[i] = "."
                                 /\ H[i] = "*" <=> host[i] = "*"
    BY LowerText
<1>5. /\ T \in Text /\ Len(T) = Len(text)
      /\ \A i \in 1..Len(text) : /\ T[i] = "." <=> text[i] = "."
                                 /\ T[i] = "*" <=> text[i] = "*"
    BY LowerText
<1> DEFINE head(j) == SubSeq(host, 1, j)
           tail(j) == SubSeq(host, j + 1 + 1, Len(host))
           named(j) == T = <<"*", ".">> \o ToLower(tail(j))
           below == \E j \in 0..(Len(host) - 1) :
                      /\ SubSeq(host, j + 1, j + 1) = <<".">>
                      /\ head(j) # <<>> /\ ~ Contains(head(j), ".") /\ named(j)
<1>6. MeansHost(text, host) <=> T = H \/ below
    <2> DEFINE places == {j \in 0..(Len(host) - 1) : SubSeq(host, j + 1, j + 1) = <<".">>}
    <2>1. Splits(host, <<".">>) = {<<head(j), tail(j)>> : j \in places}
        BY ShortText, CharactersAssumption DEF Splits
    <2>2. \A j : <<head(j), tail(j)>>[1] = head(j) /\ <<head(j), tail(j)>>[2] = tail(j)
        OBVIOUS
    <2> DEFINE means(split) == /\ split[1] # <<>> /\ ~ Contains(split[1], ".")
                               /\ T = <<"*", ".">> \o ToLower(split[2])
    <2>3. MeansHost(text, host) <=> T = H \/ \E split \in Splits(host, <<".">>) : means(split)
        BY DEF MeansHost
    <2>4. \A j : means(<<head(j), tail(j)>>)
                  <=> head(j) # <<>> /\ ~ Contains(head(j), ".") /\ named(j)
        BY <2>2
    <2> HIDE DEF T, H, means, head, tail, named
    <2> QED
        BY <2>1, <2>3, <2>4
<1>7. ASSUME NEW j \in 0..(Len(host) - 1)
      PROVE  /\ SubSeq(host, j + 1, j + 1) = <<".">> <=> host[j + 1] = "."
             /\ head(j) # <<>> <=> j > 0
             /\ ~ Contains(head(j), ".") <=> \A i \in 1..j : host[i] # "."
             /\ tail(j) \in Text /\ Len(tail(j)) = Len(host) - 1 - j
             /\ \A i \in 1..Len(host) - 1 - j : tail(j)[i] = host[j + 1 + i]
    <2>1. SubSeq(host, j + 1, j + 1) = <<".">> <=> host[j + 1] = "."
        <3>1. /\ j + 1 \in Int /\ j + 1 >= 1 /\ j + 1 <= Len(host)
              /\ (j + 1) - (j + 1) + 1 = 1 /\ (j + 1) + 1 - 1 = j + 1
            BY <1>1
        <3>2. /\ SubSeq(host, j + 1, j + 1) \in Text
              /\ Len(SubSeq(host, j + 1, j + 1)) = 1
              /\ SubSeq(host, j + 1, j + 1)[1] = host[j + 1]
            BY <3>1, SubText
        <3> DEFINE one == SubSeq(host, j + 1, j + 1)
                   dot == <<".">>
        <3>3. dot \in Text /\ Len(dot) = 1 /\ dot[1] = "."
            BY ShortText, CharactersAssumption
        <3>4. \A i \in 1..1 : i = 1
            OBVIOUS
        <3> HIDE DEF one, dot
        <3>5. one \in Text /\ Len(one) = 1 /\ one[1] = host[j + 1]
            BY <3>2 DEF one
        <3>6. one = dot <=> host[j + 1] = "."
            BY <3>3, <3>4, <3>5, SameText
        <3> QED
            BY <3>6 DEF one, dot
    <2>2. head(j) \in Text /\ Len(head(j)) = j /\ \A i \in 1..j : head(j)[i] = host[i]
        <3>1. \A i \in Int : 1 + i - 1 = i
            OBVIOUS
        <3> QED
            BY <1>1, <3>1, SubText
    <2>3. head(j) # <<>> <=> j > 0
        BY <2>2, ShortText
    <2>4. ~ Contains(head(j), ".") <=> \A i \in 1..j : host[i] # "."
        BY <2>2 DEF Contains
    <2>5. /\ tail(j) \in Text /\ Len(tail(j)) = Len(host) - 1 - j
          /\ \A i \in 1..Len(host) - 1 - j : tail(j)[i] = host[j + 1 + i]
        <3>1. /\ j + 1 + 1 \in Int /\ j + 1 + 1 >= 1
              /\ Len(host) - (j + 1 + 1) + 1 = Len(host) - 1 - j
              /\ \A i \in Int : j + 1 + 1 + i - 1 = j + 1 + i
              /\ ~ (j + 1 + 1 <= Len(host)) => Len(host) - 1 - j = 0
            BY <1>1
        <3> DEFINE m == j + 1 + 1
        <3>3. m \in Int /\ m >= 1 /\ Len(host) \in Int /\ Len(host) <= Len(host)
            BY <1>1
        <3> HIDE DEF m
        <3>2. /\ SubSeq(host, m, Len(host)) \in Text
              /\ Len(SubSeq(host, m, Len(host))) = IF m <= Len(host) THEN Len(host) - m + 1 ELSE 0
              /\ \A i \in 1..(Len(host) - m + 1) : SubSeq(host, m, Len(host))[i] = host[m + i - 1]
            BY <3>3, SubText
        <3>4. tail(j) = SubSeq(host, m, Len(host))
            BY DEF m
        <3>5. /\ Len(host) - m + 1 = Len(host) - 1 - j
              /\ \A i \in Int : m + i - 1 = j + 1 + i
              /\ ~ (m <= Len(host)) => Len(host) - 1 - j = 0
            BY <1>1, <3>1 DEF m
        <3> HIDE DEF tail
        <3>6. Len(tail(j)) = Len(host) - 1 - j
            BY <1>1, <3>2, <3>4, <3>5
        <3>7. ASSUME NEW i \in 1..Len(host) - 1 - j PROVE tail(j)[i] = host[j + 1 + i]
            <4>1. i \in 1..Len(host) - m + 1 /\ m + i - 1 = j + 1 + i
                BY <3>5
            <4> QED
                BY <3>2, <3>4, <4>1
        <3> QED
            BY <3>2, <3>4, <3>6, <3>7
    <2> QED
        BY <2>1, <2>3, <2>4, <2>5
<1> HIDE DEF head, tail
<1>8. CASE ~ wild
    <2>1. CompileHost(text) = [wild |-> FALSE, name |-> T]
        <3>1. wild \in BOOLEAN
            BY DEF IsPrefix
        <3>2. wild = FALSE
            BY <1>8, <3>1
        <3> HIDE DEF wild
        <3>3. CompileHost(text) = [wild |-> wild, name |-> ToLower(IF wild THEN rest ELSE text)]
            BY DEF CompileHost, wild
        <3> QED
            BY <3>2, <3>3
    <2>2. HostMatches(CompileHost(text), H) <=> H = T
        BY <2>1 DEF HostMatches
    <2>3. ~ below
        <3> SUFFICES ASSUME NEW j \in 0..(Len(host) - 1), named(j) PROVE FALSE
            OBVIOUS
        <3> DEFINE star == <<"*", ".">>
                   low == ToLower(tail(j))
        <3>1. /\ star \in Text /\ Len(star) = 2 /\ star[1] = "*" /\ star[2] = "."
            BY ShortText
        <3>2. low \in Text /\ Len(low) \in Nat
            BY <1>7, LowerText, TextType
        <3>3. T = star \o low
            OBVIOUS
        <3> HIDE DEF star, low
        <3> HIDE DEF T
        <3>4. Len(T) = 2 + Len(low) /\ T[1] = star[1] /\ T[2] = star[2]
            <4>1. /\ Len(star \o low) = 2 + Len(low)
                  /\ \A i \in 1..Len(star) : (star \o low)[i] = star[i]
                <5>1. star \in Text /\ low \in Text
                    BY <3>1, <3>2
                <5>2. /\ Len(star \o low) = Len(star) + Len(low)
                      /\ \A i \in 1..Len(star) : (star \o low)[i] = star[i]
                    BY <5>1, JoinedText
                <5> QED
                    BY <3>1, <5>2
            <4> QED
                BY <3>1, <3>3, <4>1
        <3>5. Len(text) >= 2
            BY <1>1, <1>5, <3>2, <3>4
        <3>6. T[1] = "*" /\ T[2] = "."
            BY <3>1, <3>4
        <3>7. text[1] = "*" /\ text[2] = "."
            BY <1>1, <1>5, <3>5, <3>6
        <3> QED
            BY <1>2, <1>8, <3>5, <3>7
    <2> QED
        BY <1>6, <2>2, <2>3
<1>9. CASE wild
    <2> DEFINE N == ToLower(rest)
               star == <<"*", ".">>
    <2>1. /\ rest \in Text /\ Len(rest) = Len(text) - 2
          /\ \A i \in 1..Len(text) - 2 : rest[i] = text[i + 2]
        BY <1>9, EntryName
    <2>2. /\ N \in Text /\ Len(N) = Len(text) - 2
          /\ \A i \in 1..Len(text) - 2 : N[i] = T[i + 2]
        <3>1. N \in Text /\ Len(N) = Len(text) - 2
            BY <2>1, LowerText
        <3>2. ASSUME NEW i \in 1..Len(text) - 2 PROVE N[i] = T[i + 2]
            <4>1. i + 2 \in 1..Len(text)
                BY <1>1
            <4> QED
                BY <2>1, <4>1, LowerText
        <3> QED
            BY <3>1, <3>2
    <2>3. CompileHost(text) = [wild |-> TRUE, name |-> N]
        <3>1. wild = TRUE
            BY <1>9 DEF IsPrefix
        <3> HIDE DEF wild
        <3>2. CompileHost(text) = [wild |-> wild, name |-> ToLower(IF wild THEN rest ELSE text)]
            BY DEF CompileHost, wild
        <3> QED
            BY <3>1, <3>2
    <2>4. HostMatches(CompileHost(text), H) <=> \E j \in Nat : Under(N, H, j)
        BY <1>4, <2>2, <2>3, WildMatches
    <2>5. /\ star \in Text /\ Len(star) = 2 /\ star[1] = "*" /\ star[2] = "."
        BY ShortText
    <2> HIDE DEF N, star
    <2>6. T = star \o N
        <3> HIDE DEF T
        <3>1. /\ star \o N \in Text /\ Len(star \o N) = 2 + Len(N)
              /\ \A i \in 1..Len(star) : (star \o N)[i] = star[i]
              /\ \A i \in 1..Len(N) : (star \o N)[Len(star) + i] = N[i]
            <4>1. star \in Text /\ N \in Text
                BY <2>2, <2>5
            <4>2. /\ star \o N \in Text /\ Len(star \o N) = Len(star) + Len(N)
                  /\ \A i \in 1..Len(star) : (star \o N)[i] = star[i]
                  /\ \A i \in 1..Len(N) : (star \o N)[Len(star) + i] = N[i]
                BY <4>1, JoinedText
            <4> QED
                BY <2>5, <4>2
        <3>2. T[1] = star[1] /\ T[2] = star[2]
            BY <1>1, <1>2, <1>5, <1>9, <2>5
        <3>3. Len(T) = Len(star \o N)
            BY <1>1, <1>5, <2>2, <3>1
        <3>4. ASSUME NEW i \in 1..Len(T) PROVE T[i] = (star \o N)[i]
            <4>1. CASE i \in 1..2
                <5>1. i = 1 \/ i = 2
                    BY <4>1
                <5> QED
                    BY <2>5, <3>1, <3>2, <5>1
            <4>2. CASE i \notin 1..2
                <5>1. i - 2 \in 1..Len(N) /\ 2 + (i - 2) = i /\ (i - 2) + 2 = i
                    BY <1>1, <1>5, <2>2, <4>2
                <5> QED
                    BY <2>2, <2>5, <3>1, <5>1
            <4> QED
                BY <4>1, <4>2
        <3> QED
            BY <1>5, <3>1, <3>3, <3>4, SameText
    <2>7. ASSUME NEW j \in 0..(Len(host) - 1)
          PROVE  named(j) <=> /\ Len(N) = Len(host) - 1 - j
                              /\ \A i \in 1..Len(N) : N[i] = H[j + 1 + i]
        <3> DEFINE low == ToLower(tail(j))
        <3>1. /\ low \in Text /\ Len(low) = Len(host) - 1 - j
              /\ \A i \in 1..Len(host) - 1 - j : low[i] = H[j + 1 + i]
            <4>1. tail(j) \in Text /\ Len(tail(j)) = Len(host) - 1 - j
                BY <1>7
            <4>2. ASSUME NEW i \in 1..Len(host) - 1 - j PROVE low[i] = H[j + 1 + i]
                <5>1. tail(j)[i] = host[j + 1 + i]
                    BY <1>7
                <5>2. low[i] = IF tail(j)[i] \in DOMAIN Lower THEN Lower[tail(j)[i]] ELSE tail(j)[i]
                    BY <4>1, LowerText
                <5>3. j + 1 + i \in 1..Len(host)
                    BY <1>1
                <5> QED
                    BY <1>4, <5>1, <5>2, <5>3
            <4> QED
                BY <4>1, <4>2, LowerText
        <3> HIDE DEF T, low, H
        <3>2. named(j) <=> T = star \o low
            BY DEF star, low
        <3>3. T = star \o low <=> low = N
            <4>1. star \in Seq(Chars) /\ low \in Seq(Chars) /\ N \in Seq(Chars)
                BY <2>2, <2>5, <3>1 DEF Text
            <4>2. star \o low = star \o N => low = N
                BY <4>1, ConcatSimplifications
            <4> QED
                BY <2>6, <4>2, Zenon
        <3>4. low = N <=> Len(low) = Len(N) /\ \A i \in 1..Len(N) : low[i] = N[i]
            BY <2>2, <3>1, SameText
        <3> QED
            BY <3>1, <3>2, <3>3, <3>4
    <2>8. ASSUME NEW j \in 0..(Len(host) - 1)
          PROVE  Under(N, H, j) <=> /\ SubSeq(host, j + 1, j + 1) = <<".">>
                                    /\ head(j) # <<>> /\ ~ Contains(head(j), ".") /\ named(j)
        <3> HIDE DEF T, H, named
        <3>1. H[j + 1] = "." <=> host[j + 1] = "."
            BY <1>1, <1>4
        <3>2. (\A i \in 1..j : H[i] # ".") <=> (\A i \in 1..j : host[i] # ".")
            BY <1>1, <1>4
        <3>3. Len(H) = j + 1 + Len(N) <=> Len(N) = Len(host) - 1 - j
            <4>1. Len(H) = Len(host) /\ Len(host) \in Nat /\ Len(N) \in Nat
                BY <1>1, <1>4, <2>2
            <4>2. \A l, n \in Nat : l = j + 1 + n <=> n = l - 1 - j
                OBVIOUS
            <4> QED
                BY <4>1, <4>2
        <3> QED
            BY <1>7, <2>7, <3>1, <3>2, <3>3 DEF Under
    <2>9. \A j \in Nat : Under(N, H, j) => j \in 0..(Len(host) - 1)
        <3> HIDE DEF H
        <3> QED
            BY <1>1, <1>4, <2>2 DEF Under
    <2>10. T = H => Under(N, H, 1)
        <3> SUFFICES ASSUME T = H PROVE Under(N, H, 1)
            OBVIOUS
        <3> HIDE DEF T, H
        <3>1. Len(host) = Len(text) /\ Len(H) = 1 + 1 + Len(N)
            BY <1>1, <1>4, <1>5, <2>2
        <3>2. H[1 + 1] = "." /\ H[1] = "*"
            BY <1>1, <1>2, <1>5, <1>9
        <3>3. \A i \in 1..1 : H[i] # "."
            BY <3>2
        <3>4. ASSUME NEW i \in 1..Len(N) PROVE N[i] = H[1 + 1 + i]
            <4>1. i + 2 = 1 + 1 + i
                OBVIOUS
            <4> QED
                BY <2>2, <4>1
        <3> QED
            BY <3>1, <3>2, <3>3, <3>4 DEF Under
    <2>11. below <=> \E j \in Nat : Under(N, H, j)
        <3> HIDE DEF T, H, named
        <3> QED
            BY <1>1, <2>8, <2>9
    <2> HIDE DEF T, H, below
    <2> QED
        BY <1>6, <2>4, <2>10, <2>11 DEF H
<1> QED
    BY <1>8, <1>9

\* The entries of a list of strings.
LEMMA EntriesOf ==
    ASSUME NEW list \in StringLists, list \notin {Absent, OtherType}
    PROVE  ToSet(list) \subseteq Text \cup {OtherType}
<1>1. list \in Seq(Text \cup {OtherType})
    BY DEF StringLists
<1>2. DOMAIN list = 1..Len(list)
    BY <1>1, LenProperties
<1>3. \A i \in 1..Len(list) : list[i] \in Text \cup {OtherType}
    BY <1>1, ElementOfSeq
<1> QED
    BY <1>2, <1>3 DEF ToSet

\* Nothing is in the empty list.
LEMMA EmptyList == ToSet(<<>>) = {}
BY DEF ToSet

\* One bad entry and the rule is dropped, and only then.
LEMMA RuleDropped ==
    ASSUME NEW entry \in Entries
    PROVE  CompileRule(entry) = Dropped <=> Invalid(entry)
<1> DEFINE hosts == {CompileHost(h) : h \in ToSet(entry.hosts)}
           paths == {CompilePath(p) : p \in ToSet(entry.paths)}
           rule == [anyHost |-> Unrestricted(entry.hosts),
                    hosts   |-> IF Unrestricted(entry.hosts) THEN {} ELSE hosts,
                    anyPath |-> Unrestricted(entry.paths),
                    paths   |-> IF Unrestricted(entry.paths) THEN {} ELSE paths]
           bad == \/ entry.hosts = Absent /\ entry.paths = Absent
                  \/ OtherType \in {entry.hosts, entry.paths}
                  \/ ~ Unrestricted(entry.hosts) /\ Dropped \in hosts
                  \/ ~ Unrestricted(entry.paths) /\ Dropped \in paths
<1>1. CASE entry = OtherType
    BY <1>1 DEF CompileRule, Invalid
<1>2. CASE entry # OtherType /\ OtherType \in {entry.hosts, entry.paths}
    BY <1>2 DEF CompileRule, Invalid
<1>3. CASE entry # OtherType /\ OtherType \notin {entry.hosts, entry.paths}
    <2>1. entry.hosts \in StringLists /\ entry.paths \in StringLists
        BY <1>3 DEF Entries
    <2>2. entry.hosts # Absent => ToSet(entry.hosts) \subseteq Text \cup {OtherType}
        BY <1>3, <2>1, EntriesOf
    <2>3. entry.paths # Absent => ToSet(entry.paths) \subseteq Text \cup {OtherType}
        BY <1>3, <2>1, EntriesOf
    <2>4. ~ Unrestricted(entry.hosts) /\ Dropped \in hosts
            <=> entry.hosts # Absent /\ \E text \in ToSet(entry.hosts) : InvalidHost(text)
        <3>1. entry.hosts # Absent =>
                (Dropped \in hosts <=> \E text \in ToSet(entry.hosts) : InvalidHost(text))
            BY <2>2, HostDropped
        <3> QED
            BY <3>1, EmptyList DEF Unrestricted
    <2>5. ~ Unrestricted(entry.paths) /\ Dropped \in paths
            <=> entry.paths # Absent /\ \E p \in ToSet(entry.paths) : p \in {OtherType, <<>>}
        <3>1. \A p \in Text \cup {OtherType} : CompilePath(p) = Dropped <=> p \in {OtherType, <<>>}
            BY DroppedAssumption DEF CompilePath
        <3>2. entry.paths # Absent =>
                (Dropped \in paths <=> \E p \in ToSet(entry.paths) : p \in {OtherType, <<>>})
            BY <2>3, <3>1
        <3> QED
            BY <3>2, EmptyList DEF Unrestricted
    <2>6. CompileRule(entry) = IF bad THEN Dropped ELSE rule
        BY <1>3 DEF CompileRule
    <2>7. ~ bad => rule # Dropped
        <3> SUFFICES ASSUME ~ bad PROVE rule # Dropped
            OBVIOUS
        <3>1. (IF Unrestricted(entry.hosts) THEN {} ELSE hosts) \in SUBSET [wild : BOOLEAN, name : Text]
            <4>1. ~ Unrestricted(entry.hosts) => hosts \subseteq [wild : BOOLEAN, name : Text]
                BY <2>2, HostDropped DEF Unrestricted
            <4> QED
                BY <4>1
        <3>2. (IF Unrestricted(entry.paths) THEN {} ELSE paths) \in SUBSET Text
            <4>1. ~ Unrestricted(entry.paths) => paths \subseteq Text
                BY <2>3 DEF Unrestricted, CompilePath
            <4> QED
                BY <4>1
        <3>3. Unrestricted(entry.hosts) \in BOOLEAN /\ Unrestricted(entry.paths) \in BOOLEAN
            BY DEF Unrestricted
        <3> HIDE DEF hosts, paths
        <3>4. rule \in [anyHost : BOOLEAN, hosts : SUBSET [wild : BOOLEAN, name : Text],
                        anyPath : BOOLEAN, paths : SUBSET Text]
            BY <3>1, <3>2, <3>3
        <3> HIDE DEF rule
        <3> QED
            BY <3>4, DroppedAssumption
    <2>8. bad <=> Invalid(entry)
        <3> HIDE DEF hosts, paths
        <3> QED
            BY <1>3, <2>4, <2>5 DEF Invalid
    <2> HIDE DEF bad, rule
    <2> QED
        BY <2>6, <2>7, <2>8
<1> QED
    BY <1>1, <1>2, <1>3

\* A rule matches, compiled, what it means.
LEMMA RuleMeant ==
    ASSUME NEW entry \in Entries, ~ Invalid(entry), NEW host \in Text, NEW path \in Text
    PROVE  RuleMatches(CompileRule(entry), ToLower(host), path) <=> MeansRule(entry, host, path)
<1> DEFINE hosts == {CompileHost(h) : h \in ToSet(entry.hosts)}
           paths == {CompilePath(p) : p \in ToSet(entry.paths)}
           rule == [anyHost |-> Unrestricted(entry.hosts),
                    hosts   |-> IF Unrestricted(entry.hosts) THEN {} ELSE hosts,
                    anyPath |-> Unrestricted(entry.paths),
                    paths   |-> IF Unrestricted(entry.paths) THEN {} ELSE paths]
<1>1. CompileRule(entry) = rule
    <2>1. CompileRule(entry) # Dropped
        BY RuleDropped
    <2> HIDE DEF rule
    <2> QED
        BY <2>1 DEF CompileRule, rule
<1>2. /\ entry # OtherType /\ entry.hosts # OtherType /\ entry.paths # OtherType
      /\ entry.hosts \in StringLists /\ entry.paths \in StringLists
    BY DEF Invalid, Entries
<1>3. Unrestricted(entry.hosts) \/ (\E h \in hosts : HostMatches(h, ToLower(host)))
        <=> entry.hosts \in {Absent, <<>>} \/ \E text \in ToSet(entry.hosts) : MeansHost(text, host)
    <2>1. CASE Unrestricted(entry.hosts)
        BY <2>1 DEF Unrestricted
    <2>2. CASE ~ Unrestricted(entry.hosts)
        <3>1. ToSet(entry.hosts) \subseteq Text \cup {OtherType}
            BY <1>2, <2>2, EntriesOf DEF Unrestricted
        <3>2. ASSUME NEW text \in ToSet(entry.hosts)
              PROVE  text \in Text /\ CompileHost(text) # Dropped
            <4>1. ~ InvalidHost(text)
                BY <1>2, <2>2 DEF Invalid, Unrestricted
            <4> QED
                BY <3>1, <4>1, HostDropped
        <3>3. \A text \in ToSet(entry.hosts) :
                HostMatches(CompileHost(text), ToLower(host)) <=> MeansHost(text, host)
            BY <3>2, HostMeant
        <3> QED
            BY <2>2, <3>3 DEF Unrestricted
    <2> QED
        BY <2>1, <2>2
<1>4. Unrestricted(entry.paths) \/ (\E p \in paths : IsPrefix(p, path))
        <=> entry.paths \in {Absent, <<>>} \/ \E p \in ToSet(entry.paths) : IsPrefix(p, path)
    <2>1. CASE Unrestricted(entry.paths)
        BY <2>1 DEF Unrestricted
    <2>2. CASE ~ Unrestricted(entry.paths)
        <3>1. \A p \in ToSet(entry.paths) : CompilePath(p) = p
            BY <1>2, <2>2 DEF Invalid, Unrestricted, CompilePath
        <3>2. paths = ToSet(entry.paths)
            BY <3>1
        <3> QED
            BY <2>2, <3>2 DEF Unrestricted
    <2> QED
        BY <2>1, <2>2
<1>5. RuleMatches(rule, ToLower(host), path)
        <=> /\ Unrestricted(entry.hosts) \/ \E h \in hosts : HostMatches(h, ToLower(host))
            /\ Unrestricted(entry.paths) \/ \E p \in paths : IsPrefix(p, path)
    <2>1. /\ rule.anyHost = Unrestricted(entry.hosts)
          /\ ~ Unrestricted(entry.hosts) => rule.hosts = hosts
          /\ Unrestricted(entry.hosts) => rule.hosts = {}
          /\ rule.anyPath = Unrestricted(entry.paths)
          /\ ~ Unrestricted(entry.paths) => rule.paths = paths
          /\ Unrestricted(entry.paths) => rule.paths = {}
        OBVIOUS
    <2> HIDE DEF rule, hosts, paths
    <2> QED
        BY <2>1 DEF RuleMatches
<1> HIDE DEF rule, hosts, paths
<1> QED
    BY <1>1, <1>3, <1>4, <1>5 DEF MeansRule

\* A list gates, compiled, what it means.
LEMMA ListMeant ==
    ASSUME NEW list \in Configs, NEW r \in Requests
    PROVE  Meant(list, r.authority, r.path) <=>
             \/ CompiledList(list) = {}
             \/ MatchProtectedRules(CompiledList(list), r.authority, r.path)
<1> DEFINE a == r.authority
           path == r.path
<1>1. a \in Text /\ path \in Text /\ HasHost(a)
    BY HeadersAssumption
<1>2. /\ HostsOf(a) # {}
      /\ \A host \in HostsOf(a) : host \in Text /\ NormalizeAuthority(a) = ToLower(host)
    BY <1>1, AuthorityHost DEF HasHost
<1>3. WithoutQuery(path) \in Text /\ PathsOf(path) = {WithoutQuery(path)}
    BY <1>1, PathBare
<1>4. \A entry \in ValidEntries(list) : entry \in Entries /\ ~ Invalid(entry)
    <2>1. CASE list \in {Absent, OtherType}
        BY <2>1 DEF ValidEntries
    <2>2. CASE list \notin {Absent, OtherType}
        <3>1. list \in Seq(Entries)
            BY <2>2, HeadersAssumption DEF ProtectedLists
        <3>2. \A i \in DOMAIN list : list[i] \in Entries
            BY <3>1, LenProperties, ElementOfSeq
        <3> QED
            BY <2>2, <3>2 DEF ValidEntries, ToSet
    <2> QED
        BY <2>1, <2>2
<1>5. CompiledList(list) = {CompileRule(entry) : entry \in ValidEntries(list)}
    <2>1. CASE list \in {Absent, OtherType}
        BY <2>1 DEF ValidEntries, CompiledList
    <2>2. CASE list \notin {Absent, OtherType}
        <3>1. list \in Seq(Entries)
            BY <2>2, HeadersAssumption DEF ProtectedLists
        <3>2. \A entry \in ToSet(list) : entry \in Entries
            BY <3>1, LenProperties, ElementOfSeq DEF ToSet
        <3>3. \A entry \in ToSet(list) : CompileRule(entry) = Dropped <=> Invalid(entry)
            BY <3>2, RuleDropped
        <3> QED
            BY <2>2, <3>3 DEF ValidEntries, CompiledList
    <2> QED
        BY <2>1, <2>2
<1>6. MatchProtectedRules(CompiledList(list), a, path)
        <=> \E entry \in ValidEntries(list) :
              RuleMatches(CompileRule(entry), NormalizeAuthority(a), WithoutQuery(path))
    BY <1>5 DEF MatchProtectedRules
<1>7. \A entry \in ValidEntries(list), host \in HostsOf(a) :
        RuleMatches(CompileRule(entry), NormalizeAuthority(a), WithoutQuery(path))
          <=> MeansRule(entry, host, WithoutQuery(path))
    BY <1>2, <1>3, <1>4, RuleMeant
<1>8. MatchProtectedRules(CompiledList(list), a, path)
        <=> \E entry \in ValidEntries(list), host \in HostsOf(a), p \in PathsOf(path) :
              MeansRule(entry, host, p)
    BY <1>2, <1>3, <1>6, <1>7
<1>9. CompiledList(list) = {} <=> ValidEntries(list) = {}
    BY <1>5
<1> QED
    BY <1>8, <1>9 DEF Meant

-----------------------------------------------------------------------------
(* What enters the challenge flow.                                         *)

\* The rules in force are those of the list the plugin was started with, and a
\* request was gated by them.
GatedByRules ==
    /\ deployed \in Configs
    /\ rules = CompiledList(deployed)
    /\ protectAll = (rules = {})
    /\ request # NoRequest =>
         /\ request \in Requests
         /\ gated = (protectAll \/ MatchProtectedRules(rules, request.authority, request.path))

LEMMA GatedByRulesAlways == Spec => []GatedByRules
<1>1. Init => GatedByRules
    BY DEF Init, GatedByRules
<1>2. GatedByRules /\ [Next]_vars => GatedByRules'
    <2> SUFFICES ASSUME GatedByRules, [Next]_vars PROVE GatedByRules'
        OBVIOUS
    <2>1. ASSUME NEW list \in Configs, OnPluginStart(list) PROVE GatedByRules'
        BY <2>1 DEF OnPluginStart, GatedByRules
    <2>2. ASSUME NEW r \in Requests, OnHttpRequestHeaders(r) PROVE GatedByRules'
        BY <2>2 DEF OnHttpRequestHeaders, GatedByRules
    <2>3. CASE EndStream
        BY <2>3 DEF EndStream, GatedByRules
    <2>4. CASE UNCHANGED vars
        BY <2>4 DEF vars, GatedByRules
    <2> QED
        BY <2>1, <2>2, <2>3, <2>4 DEF Next
<1> QED
    BY <1>1, <1>2, PTL DEF Spec

\* Whatever the list, valid, partly valid or of no use, a request enters the
\* challenge flow (OnHttpRequestHeaders, main.go) exactly if the list means it to:
\* compiling (compileProtectedRule) and matching (matchProtectedRules) come to what
\* the documentation says of hosts, wildcards, ports, paths and queries.
THEOREM GatedAsMeantAlways == Spec => []GatedAsMeant
<1>1. GatedByRules => GatedAsMeant
    <2> SUFFICES ASSUME GatedByRules, request # NoRequest
                 PROVE  gated = Meant(deployed, request.authority, request.path)
        BY DEF GatedAsMeant
    <2>1. /\ deployed \in Configs /\ request \in Requests
          /\ gated = (\/ CompiledList(deployed) = {}
                      \/ MatchProtectedRules(CompiledList(deployed), request.authority, request.path))
        BY DEF GatedByRules
    <2>2. Meant(deployed, request.authority, request.path) \in BOOLEAN
        BY DEF Meant
    <2> QED
        BY <2>1, <2>2, ListMeant
<1> QED
    BY <1>1, GatedByRulesAlways, PTL
================================================================================
