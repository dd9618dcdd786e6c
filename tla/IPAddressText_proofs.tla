------------------------ MODULE IPAddressText_proofs ------------------------
(***************************************************************************)
(* Proofs about IPAddressText, for bytes of any bits, any groups and tokens *)
(* tried, and strings of any length.                                        *)
(***************************************************************************)
EXTENDS IPAddressText, SequenceTheorems, FiniteSetTheorems, TLAPS

Pairs == Byte \X Byte
Addresses == [1 .. 8 -> Pairs]

-----------------------------------------------------------------------------
(* Sequences, element by element.                                           *)

LEMMA Tuple ==
    ASSUME NEW S, NEW n \in Nat, NEW f \in [1 .. n -> S]
    PROVE  f \in Seq(S) /\ Len(f) = n
<1>1. f \in Seq(S)
  <2> DEFINE F == [1 .. n -> S]
             T == {[1 .. m -> S] : m \in Nat}
  <2>1. F \in T
    OBVIOUS
  <2>2. Seq(S) = UNION T
    BY SeqDef
  <2>3. f \in F
    OBVIOUS
  <2> HIDE DEF F, T
  <2> QED BY <2>1, <2>2, <2>3
<1>2. Len(f) \in Nat /\ DOMAIN f = 1 .. Len(f)
  BY <1>1, LenProperties, Zenon
<1>3. DOMAIN f = 1 .. n
  OBVIOUS
<1> QED BY <1>1, <1>2, <1>3

LEMMA Joined ==
    ASSUME NEW S, NEW a \in Seq(S), NEW b \in Seq(S)
    PROVE  /\ a \o b \in Seq(S) /\ Len(a \o b) = Len(a) + Len(b)
           /\ \A i \in 1 .. Len(a) : (a \o b)[i] = a[i]
           /\ \A i \in 1 .. Len(b) : (a \o b)[Len(a) + i] = b[i]
<1>1. PICK c : c = a \o b
  OBVIOUS
<1>2. /\ c \in Seq(S) /\ Len(c) = Len(a) + Len(b)
      /\ \A i \in 1 .. Len(a) + Len(b) :
            c[i] = IF i <= Len(a) THEN a[i] ELSE b[i - Len(a)]
  BY <1>1, ConcatProperties, Zenon
<1>3. Len(a) \in Nat /\ Len(b) \in Nat
  BY LenProperties
<1>4. \A i \in 1 .. Len(a) : c[i] = a[i]
  BY <1>2, <1>3
<1>5. ASSUME NEW i \in 1 .. Len(b) PROVE c[Len(a) + i] = b[i]
  <2>1. Len(a) + i \in 1 .. Len(a) + Len(b) /\ ~(Len(a) + i <= Len(a)) /\ Len(a) + i - Len(a) = i
    BY <1>3
  <2> QED BY <1>2, <2>1
<1> QED BY <1>1, <1>2, <1>4, <1>5

LEMMA Sliced ==
    ASSUME NEW S, NEW s \in Seq(S), NEW m \in Int, NEW n \in Int,
           1 <= m, m <= n + 1, n <= Len(s)
    PROVE  /\ SubSeq(s, m, n) \in Seq(S) /\ Len(SubSeq(s, m, n)) = n - m + 1
           /\ \A i \in 1 .. n - m + 1 : SubSeq(s, m, n)[i] = s[m + i - 1]
<1>1. Len(s) \in Nat
  BY LenProperties
<1>2. \A i \in m .. n : s[i] \in S
  <2> TAKE i \in m .. n
  <2>1. i \in 1 .. Len(s)
    BY <1>1
  <2> QED BY <2>1, ElementOfSeq
<1>3. /\ SubSeq(s, m, n) \in Seq(S)
      /\ Len(SubSeq(s, m, n)) = IF m <= n THEN n - m + 1 ELSE 0
      /\ \A i \in 1 .. n - m + 1 : SubSeq(s, m, n)[i] = s[m + i - 1]
  BY <1>2, SubSeqProperties
<1> QED BY <1>3

-----------------------------------------------------------------------------
(* Tokens and groups.                                                       *)

LEMMA Kinds ==
    /\ Empty.kind = "empty"
    /\ \A g : Hex(g).kind = "hex" /\ Hex(g).group = g
    /\ \A b : Dotted(b).kind = "dotted" /\ Dotted(b).bytes = b
  BY DEF Empty, Hex, Dotted

LEMMA TokenIntro ==
    /\ Empty \in Tokens
    /\ \A g \in Pairs : Hex(g) \in Tokens
    /\ \A b \in Seq(Byte) : Dotted(b) \in Tokens
  BY DEF Tokens, Empty, Hex, Dotted, Pairs

LEMMA TokenElim ==
    ASSUME NEW x \in Tokens
    PROVE  /\ x.kind \in {"empty", "hex", "dotted"}
           /\ x.kind = "empty" <=> x = Empty
           /\ x.kind = "hex" => x.group \in Pairs
           /\ x.kind = "dotted" => x.bytes \in Seq(Byte)
  BY DEF Tokens, Empty, Pairs

LEMMA ZeroPair ==
    Zero \in Pairs /\ Zero[1] = {} /\ Zero[2] = {}
  BY DEF Pairs, Byte, Zero

LEMMA PairIs ==
    ASSUME NEW g \in Pairs
    PROVE  /\ g = <<g[1], g[2]>> /\ g[1] \in Byte /\ g[2] \in Byte
           /\ g \in Seq(Byte) /\ Len(g) = 2
<1>1. PICK a \in Byte, b \in Byte : g = <<a, b>>
  BY DEF Pairs
<1>2. g[1] = a /\ g[2] = b
  BY <1>1
<1>3. <<a, b>> \in Seq(Byte) /\ Len(<<a, b>>) = 2
  <2> HIDE DEF Byte
  <2> QED OBVIOUS
<1> QED BY <1>1, <1>2, <1>3

LEMMA TwoBytes ==
    ASSUME NEW s \in Seq(Byte), Len(s) = 2
    PROVE  s \in Pairs /\ s = <<s[1], s[2]>>
<1>1. PICK a : a = s[1]
  OBVIOUS
<1>2. PICK b : b = s[2]
  OBVIOUS
<1>3. a \in Byte /\ b \in Byte
  BY <1>1, <1>2, ElementOfSeq
<1>4. PICK t : t = <<a, b>>
  OBVIOUS
<1> HIDE DEF Byte
<1>5. t \in Seq(Byte) /\ Len(t) = 2 /\ t[1] = a /\ t[2] = b
  BY <1>3, <1>4
<1>6. Len(s) = Len(t) /\ \A i \in 1 .. Len(s) : s[i] = t[i]
  BY <1>1, <1>2, <1>5
<1>7. s = t
  BY <1>5, <1>6, SeqEqual, Zenon
<1> QED BY <1>1, <1>2, <1>3, <1>4, <1>7 DEF Pairs

\* The two groups of an IPV4 that is displayed as such.
LEMMA Quads ==
    ASSUME NEW g \in Pairs, NEW h \in Pairs
    PROVE  /\ g \o h \in Seq(Byte) /\ Len(g \o h) = 4
           /\ SubSeq(g \o h, 1, 2) = g /\ SubSeq(g \o h, 3, 4) = h
<1>1. g \in Seq(Byte) /\ Len(g) = 2 /\ h \in Seq(Byte) /\ Len(h) = 2
  BY PairIs
<1>2. PICK c : c = g \o h
  OBVIOUS
<1> HIDE DEF Byte
<1>3. c \in Seq(Byte) /\ Len(c) = Len(g) + Len(h)
  BY <1>1, <1>2, ConcatProperties, Zenon
<1>4. /\ \A m, n \in 1 .. 2 : SubSeq(c, m, n) = SubSeq(g, m, n)
      /\ \A m, n \in 3 .. 4 : SubSeq(c, m, n) = SubSeq(h, m - 2, n - 2)
  <2>1. \A m, n \in 1 .. Len(g) : SubSeq(c, m, n) = SubSeq(g, m, n)
    BY <1>1, <1>2, SubSeqOfConcat1, Zenon
  <2>2. \A m, n \in Len(g) + 1 .. Len(g) + Len(h) :
            SubSeq(c, m, n) = SubSeq(h, m - Len(g), n - Len(g))
    <3>1. \A m, n \in Len(g) + 1 .. Len(g) + Len(h) :
              SubSeq(g \o h, m, n) = SubSeq(h, m - Len(g), n - Len(g))
      <4>1. g \in Seq(Byte) /\ h \in Seq(Byte)
        BY <1>1
      <4> QED BY ONLY <4>1, SubSeqOfConcat2
    <3> QED BY ONLY <1>2, <3>1
  <2>3. 1 .. Len(g) = 1 .. 2 /\ Len(g) + 1 .. Len(g) + Len(h) = 3 .. 4 /\ Len(g) = 2
    BY <1>1
  <2> QED BY <2>1, <2>2, <2>3
<1>5. SubSeq(c, 1, 2) = SubSeq(g, 1, 2) /\ SubSeq(c, 3, 4) = SubSeq(h, 1, 2)
  BY <1>4
<1>6. SubSeq(g, 1, 2) = g /\ SubSeq(h, 1, 2) = h
  BY <1>1, SubSeqFull
<1> QED BY <1>1, <1>2, <1>3, <1>5, <1>6

\* Read from a string, four bytes are two groups.
LEMMA HalvesOf ==
    ASSUME NEW b \in Seq(Byte), Len(b) = 4
    PROVE  SubSeq(b, 1, 2) \in Pairs /\ SubSeq(b, 3, 4) \in Pairs
<1> HIDE DEF Byte
<1>1. PICK c : c = SubSeq(b, 1, 2)
  OBVIOUS
<1>2. PICK d : d = SubSeq(b, 3, 4)
  OBVIOUS
<1>3. ASSUME NEW m \in Int, NEW n \in Int, 1 <= m, m <= n + 1, n <= Len(b)
      PROVE  SubSeq(b, m, n) \in Seq(Byte) /\ Len(SubSeq(b, m, n)) = n - m + 1
  BY <1>3, Sliced
<1>4. c \in Seq(Byte) /\ Len(c) = 2 /\ d \in Seq(Byte) /\ Len(d) = 2
  BY <1>1, <1>2, <1>3
<1> QED BY <1>1, <1>2, <1>4, TwoBytes

-----------------------------------------------------------------------------
(* What a string is packed into.                                            *)

Packs(t) == UNION {Packed(t, i) : i \in DOMAIN t}
Bits(packs, k, b) == UNION {p[2][b] : p \in {q \in packs : q[1] = k}}

FourBytes(t) == HasDotted(t) => Len(Last(t).bytes) = 4

LEMMA Addressed ==
    /\ \A w : V6(w) # Throws /\ V6(w) # None /\ V6(w).ipv6 = w /\ V6(w).type = "V6"
    /\ \A b : V4(b) # Throws /\ V4(b) # None /\ V4(b).ipv4 = b /\ V4(b).type = "V4"
    /\ None.type = "None"
  BY DEF V6, V4, Throws, None

LEMMA ParseUnfold ==
    ASSUME NEW t
    PROVE  parseIPV6(t) =
             IF SanityChecks(t) /\ FourBytes(t) /\ \A p \in Packs(t) : p[1] \in 0 .. 7
             THEN V6([k \in 1 .. 8 |-> <<Bits(Packs(t), k - 1, 1), Bits(Packs(t), k - 1, 2)>>])
             ELSE Throws
  BY Zenon DEF parseIPV6, Packs, Bits, FourBytes

LEMMA PackedIs ==
    ASSUME NEW t, NEW i
    PROVE  /\ t[i].kind = "empty" => Packed(t, i) = {}
           /\ t[i].kind = "hex" => Packed(t, i) = {<<PackPosition(t, i), t[i].group>>}
           /\ t[i].kind = "dotted" =>
                Packed(t, i) = {<<PackPosition(t, i), SubSeq(t[i].bytes, 1, 2)>>,
                                <<PackPosition(t, i) + 1, SubSeq(t[i].bytes, 3, 4)>>}
<1>1. CASE t[i].kind = "empty"
  BY <1>1 DEF Packed
<1>2. CASE t[i].kind = "hex"
  BY <1>2 DEF Packed
<1>3. CASE t[i].kind = "dotted"
  BY <1>3 DEF Packed
<1> QED BY <1>1, <1>2, <1>3

\* Of the token that is dotted the checks know that it is the last.
LEMMA DottedIsLast ==
    ASSUME NEW t \in Seq(Tokens), SanityChecks(t), NEW i \in 1 .. Len(t)
    PROVE  t[i].kind = "dotted" <=> HasDotted(t) /\ i = Len(t)
<1>1. DOMAIN t = 1 .. Len(t) /\ Len(t) \in Nat
  BY LenProperties
<1>2. t[i].kind = "dotted" => i = Len(t)
  BY <1>1 DEF SanityChecks
<1>3. t # <<>>
  BY <1>1, EmptySeq
<1> QED BY <1>1, <1>2, <1>3 DEF HasDotted, Last

LEMMA PacksArePairs ==
    ASSUME NEW t \in Seq(Tokens), SanityChecks(t), FourBytes(t), NEW p \in Packs(t)
    PROVE  p[2] \in Pairs
<1>1. PICK i \in 1 .. Len(t) : p \in Packed(t, i)
  BY LenProperties DEF Packs
<1>2. t[i] \in Tokens
  BY ElementOfSeq
<1>3. CASE t[i].kind = "hex"
  <2>1. p = <<PackPosition(t, i), t[i].group>>
    BY <1>1, <1>3, PackedIs
  <2> QED BY <1>2, <1>3, <2>1, TokenElim
<1>4. CASE t[i].kind = "dotted"
  <2>1. t[i] = Last(t) /\ HasDotted(t)
    BY <1>4, DottedIsLast DEF Last
  <2>2. t[i].bytes \in Seq(Byte) /\ Len(t[i].bytes) = 4
    BY <1>2, <1>4, <2>1, TokenElim DEF FourBytes
  <2>3. SubSeq(t[i].bytes, 1, 2) \in Pairs /\ SubSeq(t[i].bytes, 3, 4) \in Pairs
    BY <2>2, HalvesOf
  <2>4. \/ p = <<PackPosition(t, i), SubSeq(t[i].bytes, 1, 2)>>
        \/ p = <<PackPosition(t, i) + 1, SubSeq(t[i].bytes, 3, 4)>>
    BY <1>1, <1>4, PackedIs
  <2>5. \A x, y : <<x, y>>[2] = y
    OBVIOUS
  <2>6. p[2] = SubSeq(t[i].bytes, 1, 2) \/ p[2] = SubSeq(t[i].bytes, 3, 4)
    BY <2>4, <2>5, Zenon
  <2> QED BY <2>3, <2>6
<1>5. CASE t[i].kind = "empty"
  BY <1>1, <1>5, PackedIs
<1> QED BY <1>2, <1>3, <1>4, <1>5, TokenElim

\* What is accepted is an address.
LEMMA ParseType ==
    ASSUME NEW t \in Seq(Tokens)
    PROVE  parseIPV6(t) = Throws \/ \E w \in Addresses : parseIPV6(t) = V6(w)
<1> SUFFICES ASSUME SanityChecks(t), FourBytes(t)
             PROVE  [k \in 1 .. 8 |-> <<Bits(Packs(t), k - 1, 1), Bits(Packs(t), k - 1, 2)>>]
                        \in Addresses
  BY ParseUnfold
<1>1. ASSUME NEW k, NEW b \in {1, 2} PROVE Bits(Packs(t), k, b) \in Byte
  <2>1. \A p \in Packs(t) : p[2][b] \in Byte
    BY PacksArePairs, PairIs
  <2> QED BY <2>1 DEF Bits, Byte
<1> QED BY <1>1 DEF Addresses, Pairs

\* An address is read if every group a string is packed into is that address's
\* group, and the groups that it is not packed into are zero.
LEMMA ParseIs ==
    ASSUME NEW t, NEW w \in Addresses,
           SanityChecks(t), FourBytes(t),
           \A p \in Packs(t) : p[1] \in 0 .. 7 /\ w[p[1] + 1] = p[2],
           \A k \in 1 .. 8 : w[k] = Zero \/ \E p \in Packs(t) : p[1] + 1 = k
    PROVE  parseIPV6(t) = V6(w)
<1>1. ASSUME NEW k \in 1 .. 8, NEW b \in {1, 2} PROVE Bits(Packs(t), k - 1, b) = w[k][b]
  <2>1. \A p \in Packs(t) : p[1] = k - 1 <=> p[1] + 1 = k
    OBVIOUS
  <2>2. \A p \in {q \in Packs(t) : q[1] = k - 1} : p[2][b] = w[k][b]
    BY <2>1
  <2>3. CASE \E p \in Packs(t) : p[1] + 1 = k
    BY <2>1, <2>2, <2>3 DEF Bits
  <2>4. CASE ~\E p \in Packs(t) : p[1] + 1 = k
    <3>1. Bits(Packs(t), k - 1, b) = {}
      BY <2>1, <2>4 DEF Bits
    <3> QED BY <2>4, <3>1, ZeroPair
  <2> QED BY <2>3, <2>4
<1>2. \A k \in 1 .. 8 : <<Bits(Packs(t), k - 1, 1), Bits(Packs(t), k - 1, 2)>> = w[k]
  <2> TAKE k \in 1 .. 8
  <2>1. w[k] = <<w[k][1], w[k][2]>>
    BY PairIs DEF Addresses
  <2> QED BY <1>1, <2>1
<1>3. [k \in 1 .. 8 |-> <<Bits(Packs(t), k - 1, 1), Bits(Packs(t), k - 1, 2)>>] = w
  BY <1>2 DEF Addresses
<1> QED BY <1>3, ParseUnfold

-----------------------------------------------------------------------------
(* Where the tokens of a string that passes the checks are packed.          *)

Four(t) == IF HasDotted(t) THEN 1 ELSE 0

LEMMA EmptiesIs ==
    ASSUME NEW t \in Seq(Tokens)
    PROVE  \A i : i \in Empties(t) <=> i \in 1 .. Len(t) /\ t[i] = Empty
  BY LenProperties DEF Empties

LEMMA AtMostOneEmpty ==
    ASSUME NEW t \in Seq(Tokens), SanityChecks(t)
    PROVE  Empties(t) = {} \/ \E e \in 1 .. Len(t) : Empties(t) = {e}
<1>1. Len(t) \in Nat
  BY LenProperties
<1>2. IsFiniteSet(Empties(t))
  <2>1. IsFiniteSet(1 .. Len(t))
    BY <1>1, FS_Interval
  <2> QED BY <2>1, FS_Subset, EmptiesIs
<1>3. Cardinality(Empties(t)) \in Nat /\ Cardinality(Empties(t)) <= 1
  BY <1>2, FS_CardinalityType DEF SanityChecks
<1>4. CASE Cardinality(Empties(t)) = 0
  BY <1>2, <1>4, FS_EmptySet
<1>5. CASE Cardinality(Empties(t)) = 1
  <2>1. PICK e : Empties(t) = {e}
    BY <1>2, <1>5, FS_Singleton
  <2> QED BY <2>1, EmptiesIs
<1> QED BY <1>3, <1>4, <1>5

LEMMA PlacesWithout ==
    ASSUME NEW t \in Seq(Tokens), SanityChecks(t), Empties(t) = {}
    PROVE  /\ Len(t) = 8 - Four(t)
           /\ \A i \in 1 .. Len(t) : PackPosition(t, i) = i - 1
<1>1. Len(t) = 8 - Four(t)
  BY DEF SanityChecks, Four
<1>2. ASSUME NEW i \in 1 .. Len(t) PROVE PackPosition(t, i) = i - 1
  BY DEF PackPosition
<1> QED BY <1>1, <1>2

LEMMA PlacesAround ==
    ASSUME NEW t \in Seq(Tokens), NEW e \in 1 .. Len(t), Empties(t) = {e}
    PROVE  /\ \A i \in 1 .. e - 1 : PackPosition(t, i) = i - 1
           /\ \A i \in e + 1 .. Len(t) : PackPosition(t, i) = i + 7 - Len(t) - Four(t)
<1>1. Len(t) \in Nat
  BY LenProperties
<1>2. EmptyTokens(t) = 9 - Len(t) - Four(t) /\ Four(t) \in {0, 1}
  BY <1>1 DEF EmptyTokens, Four
<1>3. ASSUME NEW i \in 1 .. e - 1 PROVE PackPosition(t, i) = i - 1
  <2>1. ~\E x \in Empties(t) : x < i
    BY <1>1
  <2> QED BY <2>1 DEF PackPosition
<1>4. ASSUME NEW i \in e + 1 .. Len(t) PROVE PackPosition(t, i) = i + 7 - Len(t) - Four(t)
  <2>1. \E x \in Empties(t) : x < i
    BY <1>1
  <2>2. PackPosition(t, i) = i - 1 + (EmptyTokens(t) - 1)
    BY <2>1 DEF PackPosition
  <2> QED BY <1>1, <1>2, <2>2
<1> QED BY <1>3, <1>4

\* ipAddress.cpp:326, "Invalid pack position": the assertion never fails.  In every
\* string that passes the checks an IPV4 comes to be packed from group 6 on, be
\* there a "::" before it or not, also where EmptyTokens is below zero.
THEOREM PackPositionAsserted ==
    ASSUME NEW t \in Seq(Tokens), SanityChecks(t), HasDotted(t)
    PROVE  PackPosition(t, Len(t)) = 6
<1>1. Len(t) \in Nat /\ t # <<>> /\ t[Len(t)].kind = "dotted"
  BY LenProperties DEF HasDotted, Last
<1>2. Len(t) \in 1 .. Len(t)
  BY <1>1, LenProperties, EmptySeq
<1>3. Four(t) = 1
  BY DEF Four
<1>4. CASE Empties(t) = {}
  BY <1>2, <1>3, <1>4, PlacesWithout
<1>5. ASSUME NEW e \in 1 .. Len(t), Empties(t) = {e}
      PROVE  PackPosition(t, Len(t)) = 6
  <2>1. e # Len(t)
    BY <1>1, <1>5, EmptiesIs DEF Empty
  <2>2. Len(t) \in e + 1 .. Len(t)
    BY <1>1, <2>1
  <2>3. PackPosition(t, Len(t)) = Len(t) + 7 - Len(t) - Four(t)
    BY <1>5, <2>2, PlacesAround
  <2> QED BY <1>1, <1>3, <2>3
<1> QED BY <1>4, <1>5, AtMostOneEmpty

\* What ParseIs asks, token by token.
LEMMA ReadAs ==
    ASSUME NEW t \in Seq(Tokens), NEW w \in Addresses, SanityChecks(t), FourBytes(t),
           \A i \in 1 .. Len(t) : t[i].kind = "hex" =>
                PackPosition(t, i) \in 0 .. 7 /\ w[PackPosition(t, i) + 1] = t[i].group,
           \A i \in 1 .. Len(t) : t[i].kind = "dotted" =>
                /\ PackPosition(t, i) = 6
                /\ w[7] = SubSeq(t[i].bytes, 1, 2) /\ w[8] = SubSeq(t[i].bytes, 3, 4),
           \A k \in 1 .. 8 :
                \/ w[k] = Zero
                \/ \E i \in 1 .. Len(t) : t[i].kind = "hex" /\ PackPosition(t, i) + 1 = k
                \/ \E i \in 1 .. Len(t) : t[i].kind = "dotted" /\ k \in {7, 8}
    PROVE  parseIPV6(t) = V6(w)
<1>1. \A p : p \in Packs(t) <=> \E i \in 1 .. Len(t) : p \in Packed(t, i)
  <2>1. DOMAIN t = 1 .. Len(t)
    BY LenProperties
  <2> QED BY ONLY <2>1 DEF Packs
<1>2. \A i \in 1 .. Len(t) : t[i].kind \in {"empty", "hex", "dotted"}
  BY ElementOfSeq, TokenElim
<1>3. \A x, y : <<x, y>>[1] = x /\ <<x, y>>[2] = y
  OBVIOUS
<1>4. ASSUME NEW p \in Packs(t) PROVE p[1] \in 0 .. 7 /\ w[p[1] + 1] = p[2]
  <2>1. PICK i \in 1 .. Len(t) : p \in Packed(t, i)
    BY <1>1
  <2>2. CASE t[i].kind = "hex"
    <3>1. p = <<PackPosition(t, i), t[i].group>>
      BY <2>1, <2>2, PackedIs
    <3>2. p[1] = PackPosition(t, i) /\ p[2] = t[i].group
      BY <1>3, <3>1, Zenon
    <3> QED BY <2>2, <3>2
  <2>3. CASE t[i].kind = "dotted"
    <3>1. PICK g : g = SubSeq(t[i].bytes, 1, 2)
      OBVIOUS
    <3>2. PICK h : h = SubSeq(t[i].bytes, 3, 4)
      OBVIOUS
    <3>3. PackPosition(t, i) = 6 /\ w[7] = g /\ w[8] = h
      BY <2>3, <3>1, <3>2
    <3>4. Packed(t, i) = {<<PackPosition(t, i), SubSeq(t[i].bytes, 1, 2)>>,
                          <<PackPosition(t, i) + 1, SubSeq(t[i].bytes, 3, 4)>>}
      BY <2>3, PackedIs, Zenon
    <3>5. p = <<6, g>> \/ p = <<7, h>>
      BY ONLY <2>1, <3>1, <3>2, <3>3, <3>4
    <3> QED BY <3>3, <3>5
  <2>4. CASE t[i].kind = "empty"
    BY <2>1, <2>4, PackedIs
  <2> QED BY <1>2, <2>2, <2>3, <2>4
<1>5. ASSUME NEW k \in 1 .. 8 PROVE w[k] = Zero \/ \E p \in Packs(t) : p[1] + 1 = k
  <2>1. ASSUME NEW i \in 1 .. Len(t), t[i].kind = "hex", PackPosition(t, i) + 1 = k
        PROVE  \E p \in Packs(t) : p[1] + 1 = k
    <3>1. PICK p : p = <<PackPosition(t, i), t[i].group>>
      OBVIOUS
    <3>2. p \in Packs(t) /\ p[1] = PackPosition(t, i)
      BY <1>1, <2>1, <3>1, PackedIs
    <3> QED BY <2>1, <3>2
  <2>2. ASSUME NEW i \in 1 .. Len(t), t[i].kind = "dotted", k \in {7, 8}
        PROVE  \E p \in Packs(t) : p[1] + 1 = k
    <3>1. PICK p : p = <<PackPosition(t, i), SubSeq(t[i].bytes, 1, 2)>>
      OBVIOUS
    <3>2. PICK q : q = <<PackPosition(t, i) + 1, SubSeq(t[i].bytes, 3, 4)>>
      OBVIOUS
    <3>3. p \in Packs(t) /\ q \in Packs(t)
      BY <1>1, <2>2, <3>1, <3>2, PackedIs
    <3>4. p[1] = PackPosition(t, i) /\ q[1] = PackPosition(t, i) + 1
      BY <1>3, <3>1, <3>2, Zenon
    <3>5. p[1] + 1 = 7 /\ q[1] + 1 = 8
      BY <2>2, <3>4
    <3> QED BY <2>2, <3>3, <3>5
  <2> QED BY <2>1, <2>2
<1> QED BY <1>4, <1>5, ParseIs

-----------------------------------------------------------------------------
(* What buildIPString displays.                                             *)

LEMMA ElementsIs ==
    ASSUME NEW v \in Addresses, NEW from \in 1 .. 9, NEW to \in from - 1 .. 8
    PROVE  /\ Elements(v, from, to) \in Seq(Tokens)
           /\ Len(Elements(v, from, to)) = to - from + 1
           /\ \A i \in 1 .. to - from + 1 : Elements(v, from, to)[i] = Hex(v[from + i - 1])
<1>1. PICK n \in Nat : n = to - from + 1
  OBVIOUS
<1>2. \A i \in 1 .. n : from + i - 1 \in 1 .. 8
  BY <1>1
<1>3. Elements(v, from, to) = [i \in 1 .. n |-> Hex(v[from + i - 1])]
  BY <1>1 DEF Elements
<1>4. \A i \in 1 .. n : Hex(v[from + i - 1]) \in Tokens
  BY <1>2, TokenIntro DEF Addresses
<1>5. Elements(v, from, to) \in [1 .. n -> Tokens]
  BY <1>3, <1>4
<1>6. Elements(v, from, to) \in Seq(Tokens) /\ Len(Elements(v, from, to)) = n
  BY <1>5, Tuple
<1> QED BY <1>1, <1>3, <1>6

\* How many IPV4 are displayed from a group on: one, or none.
Cut(v, from) == IF Embedded(v) /\ from <= 7 THEN 1 ELSE 0

LEMMA EndingIs ==
    ASSUME NEW v \in Addresses, NEW from \in 1 .. 9
    PROVE  /\ Ending(v, from) \in Seq(Tokens)
           /\ Len(Ending(v, from)) = 9 - from - Cut(v, from)
           /\ \A i \in 1 .. 9 - from - 2 * Cut(v, from) :
                 Ending(v, from)[i] = Hex(v[from + i - 1])
           /\ Cut(v, from) = 1 => Ending(v, from)[8 - from] = Dotted(v[7] \o v[8])
<1>1. CASE Embedded(v) /\ from <= 7
  <2>1. PICK a : a = Elements(v, from, 6)
    OBVIOUS
  <2>2. PICK d : d = Dotted(v[7] \o v[8])
    OBVIOUS
  <2>3. /\ a \in Seq(Tokens) /\ Len(a) = 7 - from
        /\ \A i \in 1 .. 7 - from : a[i] = Hex(v[from + i - 1])
    <3>1. 6 \in from - 1 .. 8
      BY <1>1
    <3>2. /\ a \in Seq(Tokens) /\ Len(a) = 6 - from + 1
          /\ \A i \in 1 .. 6 - from + 1 : a[i] = Hex(v[from + i - 1])
      BY <2>1, <3>1, ElementsIs, Zenon
    <3>3. 6 - from + 1 = 7 - from
      OBVIOUS
    <3> QED BY <3>2, <3>3
  <2>4. d \in Tokens
    <3>1. v[7] \in Pairs /\ v[8] \in Pairs
      BY DEF Addresses
    <3>2. v[7] \o v[8] \in Seq(Byte)
      BY <3>1, Quads, Zenon
    <3> QED BY <2>2, <3>2, TokenIntro, Zenon
  <2>5. /\ Append(a, d) \in Seq(Tokens) /\ Len(Append(a, d)) = 8 - from
        /\ \A i \in 1 .. 7 - from : Append(a, d)[i] = a[i]
        /\ Append(a, d)[8 - from] = d
    BY <1>1, <2>3, <2>4, AppendProperties
  <2>6. Ending(v, from) = Append(a, d) /\ Cut(v, from) = 1
    BY <1>1, <2>1, <2>2 DEF Ending, Cut
  <2> QED BY <2>2, <2>3, <2>5, <2>6
<1>2. CASE ~(Embedded(v) /\ from <= 7)
  <2>1. Ending(v, from) = Elements(v, from, 8) /\ Cut(v, from) = 0
    BY <1>2 DEF Ending, Cut
  <2>2. 8 \in from - 1 .. 8
    OBVIOUS
  <2>3. /\ Ending(v, from) \in Seq(Tokens) /\ Len(Ending(v, from)) = 8 - from + 1
        /\ \A i \in 1 .. 8 - from + 1 : Ending(v, from)[i] = Hex(v[from + i - 1])
    <3>1. PICK a : a = Elements(v, from, 8)
      OBVIOUS
    <3>2. /\ a \in Seq(Tokens) /\ Len(a) = 8 - from + 1
          /\ \A i \in 1 .. 8 - from + 1 : a[i] = Hex(v[from + i - 1])
      BY <2>2, <3>1, ElementsIs, Zenon
    <3> QED BY ONLY <2>1, <3>1, <3>2
  <2>4. 8 - from + 1 = 9 - from - Cut(v, from) /\ 8 - from + 1 = 9 - from - 2 * Cut(v, from)
    BY <2>1
  <2> QED BY <2>1, <2>3, <2>4
<1> QED BY <1>1, <1>2

OrEmpty(s) == IF s = <<>> THEN <<Empty>> ELSE s

LEMMA OrEmptyIs ==
    ASSUME NEW s \in Seq(Tokens)
    PROVE  /\ OrEmpty(s) \in Seq(Tokens)
           /\ Len(OrEmpty(s)) = IF Len(s) = 0 THEN 1 ELSE Len(s)
           /\ Len(s) = 0 => OrEmpty(s)[1] = Empty
           /\ \A i \in 1 .. Len(s) : OrEmpty(s)[i] = s[i]
<1>1. Len(s) \in Nat /\ (s = <<>> <=> Len(s) = 0)
  BY EmptySeq, LenProperties
<1>2. PICK e \in Tokens : e = Empty
  BY TokenIntro
<1>3. <<e>> \in Seq(Tokens) /\ Len(<<e>>) = 1 /\ <<e>>[1] = e
  OBVIOUS
<1> QED BY <1>1, <1>2, <1>3 DEF OrEmpty

\* Where the "::" is, one token later if nothing is before it.
Middle(f) == IF f = 1 THEN 2 ELSE f

Elided(v, f, l) == Elide(Elements(v, 1, f - 1), Ending(v, l + 1))
After(v, l) == 8 - l - Cut(v, l + 1)

LEMMA AfterIs ==
    ASSUME NEW v, NEW l \in 1 .. 8
    PROVE  /\ Cut(v, l + 1) \in {0, 1} /\ After(v, l) \in Nat
           /\ Cut(v, l + 1) <= After(v, l) /\ After(v, l) = 8 - l - Cut(v, l + 1)
           /\ Cut(v, l + 1) = 1 => l <= 6
  BY DEF Cut, After

LEMMA ElidedIs ==
    ASSUME NEW v \in Addresses, NEW f \in 1 .. 8, NEW l \in f .. 8
    PROVE  /\ Elided(v, f, l) \in Seq(Tokens)
           /\ Len(Elided(v, f, l)) =
                Middle(f) + (IF After(v, l) = 0 THEN 1 ELSE After(v, l))
           /\ \A i \in 1 .. f - 1 : Elided(v, f, l)[i] = Hex(v[i])
           /\ f = 1 => Elided(v, f, l)[1] = Empty
           /\ Elided(v, f, l)[Middle(f)] = Empty
           /\ After(v, l) = 0 => Elided(v, f, l)[Middle(f) + 1] = Empty
           /\ \A i \in 1 .. After(v, l) - Cut(v, l + 1) :
                Elided(v, f, l)[Middle(f) + i] = Hex(v[l + i])
           /\ Cut(v, l + 1) = 1 =>
                Elided(v, f, l)[Middle(f) + After(v, l)] = Dotted(v[7] \o v[8])
<1>1. PICK b : b = Elements(v, 1, f - 1)
  OBVIOUS
<1>2. PICK c : c = Ending(v, l + 1)
  OBVIOUS
<1>3. PICK a : a = OrEmpty(b)
  OBVIOUS
<1>4. PICK d : d = OrEmpty(c)
  OBVIOUS
<1>5. PICK e : e = Empty
  OBVIOUS
<1>6. PICK x : x = a \o <<e>>
  OBVIOUS
<1>7. PICK y : y = x \o d
  OBVIOUS
<1>8. PICK n : n = After(v, l)
  OBVIOUS
<1>9. PICK k : k = Cut(v, l + 1)
  OBVIOUS
<1>10. PICK q : q = Dotted(v[7] \o v[8])
  OBVIOUS
<1>0. l \in 1 .. 8
  OBVIOUS
<1>11. k \in {0, 1} /\ n \in Nat /\ k <= n /\ n = 8 - l - k
  BY <1>0, <1>8, <1>9, AfterIs, Zenon
<1>12. /\ b \in Seq(Tokens) /\ Len(b) = f - 1
       /\ \A i \in 1 .. f - 1 : b[i] = Hex(v[i])
  <2>1. f - 1 \in 1 - 1 .. 8 /\ 1 \in 1 .. 9
    OBVIOUS
  <2>2. /\ b \in Seq(Tokens) /\ Len(b) = f - 1 - 1 + 1
        /\ \A i \in 1 .. f - 1 - 1 + 1 : b[i] = Hex(v[1 + i - 1])
    BY <1>1, <2>1, ElementsIs, Zenon
  <2> QED BY <2>2
<1>13. /\ c \in Seq(Tokens) /\ Len(c) = n
       /\ \A i \in 1 .. n - k : c[i] = Hex(v[l + i])
       /\ k = 1 => c[n] = q
  <2>1. l + 1 \in 1 .. 9
    OBVIOUS
  <2>2. /\ c \in Seq(Tokens) /\ Len(c) = 9 - (l + 1) - k
        /\ \A i \in 1 .. 9 - (l + 1) - 2 * k : c[i] = Hex(v[l + 1 + i - 1])
        /\ k = 1 => c[8 - (l + 1)] = q
    BY <1>2, <1>9, <1>10, <2>1, EndingIs
  <2>3. 9 - (l + 1) - k = n /\ 9 - (l + 1) - 2 * k = n - k /\ (k = 1 => 8 - (l + 1) = n)
    BY <1>11
  <2> QED BY <2>2, <2>3
<1>14. /\ a \in Seq(Tokens) /\ Len(a) = Middle(f) - 1
       /\ f = 1 => a[1] = e
       /\ \A i \in 1 .. f - 1 : a[i] = Hex(v[i])
  <2>1. /\ a \in Seq(Tokens) /\ Len(a) = IF f - 1 = 0 THEN 1 ELSE f - 1
        /\ f - 1 = 0 => a[1] = Empty
        /\ \A i \in 1 .. f - 1 : a[i] = b[i]
    BY <1>3, <1>12, OrEmptyIs
  <2> QED BY <1>5, <1>12, <2>1 DEF Middle
<1>15. /\ d \in Seq(Tokens) /\ Len(d) = IF n = 0 THEN 1 ELSE n
       /\ n = 0 => d[1] = e
       /\ \A i \in 1 .. n : d[i] = c[i]
  BY <1>4, <1>5, <1>13, OrEmptyIs
<1>16. Middle(f) \in Nat \ {0} /\ f - 1 <= Middle(f) - 1 /\ f <= Middle(f)
  BY DEF Middle
<1>17. /\ x \in Seq(Tokens) /\ Len(x) = Middle(f) /\ x[Middle(f)] = e
       /\ \A i \in 1 .. Middle(f) - 1 : x[i] = a[i]
  <2>1. PICK z : z = <<e>>
    OBVIOUS
  <2>2. z \in Seq(Tokens) /\ Len(z) = 1 /\ z[1] = e
    <3>1. e \in Tokens
      BY <1>5, TokenIntro
    <3> QED BY <2>1, <3>1
  <2>3. /\ x \in Seq(Tokens) /\ Len(x) = Len(a) + Len(z)
        /\ \A i \in 1 .. Len(a) : x[i] = a[i]
        /\ \A i \in 1 .. Len(z) : x[Len(a) + i] = z[i]
    <3>1. a \in Seq(Tokens) /\ z \in Seq(Tokens) /\ x = a \o z
      BY <1>6, <1>14, <2>1, <2>2
    <3>2. /\ a \o z \in Seq(Tokens) /\ Len(a \o z) = Len(a) + Len(z)
          /\ \A i \in 1 .. Len(a) : (a \o z)[i] = a[i]
          /\ \A i \in 1 .. Len(z) : (a \o z)[Len(a) + i] = z[i]
      BY ONLY <3>1, Joined
    <3> QED BY ONLY <3>1, <3>2
  <2>4. Len(a) + Len(z) = Middle(f) /\ Len(a) = Middle(f) - 1 /\ Len(a) + 1 = Middle(f)
    BY <1>14, <1>16, <2>2
  <2> QED BY <2>2, <2>3, <2>4
<1>18. /\ y \in Seq(Tokens) /\ Len(y) = Middle(f) + Len(d)
       /\ \A i \in 1 .. Middle(f) : y[i] = x[i]
       /\ \A i \in 1 .. Len(d) : y[Middle(f) + i] = d[i]
  <2>1. /\ y \in Seq(Tokens) /\ Len(y) = Len(x) + Len(d)
        /\ \A i \in 1 .. Len(x) : y[i] = x[i]
        /\ \A i \in 1 .. Len(d) : y[Len(x) + i] = d[i]
    <3>1. x \in Seq(Tokens) /\ d \in Seq(Tokens)
      BY <1>15, <1>17
    <3>2. /\ x \o d \in Seq(Tokens) /\ Len(x \o d) = Len(x) + Len(d)
          /\ \A i \in 1 .. Len(x) : (x \o d)[i] = x[i]
          /\ \A i \in 1 .. Len(d) : (x \o d)[Len(x) + i] = d[i]
      BY ONLY <3>1, Joined
    <3> QED BY ONLY <1>7, <3>2
  <2> QED BY <1>17, <2>1
<1>19. Elided(v, f, l) = y
  BY <1>1, <1>2, <1>3, <1>4, <1>5, <1>6, <1>7 DEF Elided, Elide, OrEmpty
<1>20. \A i \in 1 .. f - 1 : i \in 1 .. Middle(f) /\ i \in 1 .. Middle(f) - 1
  BY <1>16
<1>21. /\ Middle(f) \in 1 .. Middle(f)
       /\ f = 1 => 1 \in 1 .. Middle(f) /\ 1 \in 1 .. Middle(f) - 1
       /\ n = 0 => 1 \in 1 .. Len(d)
       /\ \A i \in 1 .. n - k : i \in 1 .. n /\ i \in 1 .. Len(d)
       /\ k = 1 => n \in 1 .. n /\ n \in 1 .. Len(d)
  BY <1>11, <1>15, <1>16 DEF Middle
<1>22. Len(y) = Middle(f) + (IF n = 0 THEN 1 ELSE n)
  BY <1>15, <1>18
<1>23. /\ \A i \in 1 .. f - 1 : y[i] = Hex(v[i])
       /\ f = 1 => y[1] = e
       /\ y[Middle(f)] = e
  BY <1>14, <1>17, <1>18, <1>20, <1>21
<1>24. /\ n = 0 => y[Middle(f) + 1] = e
       /\ \A i \in 1 .. n - k : y[Middle(f) + i] = Hex(v[l + i])
       /\ k = 1 => y[Middle(f) + n] = q
  <2>1. ASSUME n = 0 PROVE y[Middle(f) + 1] = e
    BY <1>15, <1>18, <1>21, <2>1
  <2>2. ASSUME NEW i \in 1 .. n - k PROVE y[Middle(f) + i] = Hex(v[l + i])
    <3>1. y[Middle(f) + i] = d[i] /\ d[i] = c[i]
      BY <1>15, <1>18, <1>21
    <3> QED BY <1>13, <3>1
  <2>3. ASSUME k = 1 PROVE y[Middle(f) + n] = q
    <3>1. y[Middle(f) + n] = d[n] /\ d[n] = c[n]
      BY <1>15, <1>18, <1>21, <2>3
    <3> QED BY <1>13, <2>3, <3>1
  <2> QED BY <2>1, <2>2, <2>3
<1> QED BY <1>5, <1>8, <1>9, <1>10, <1>18, <1>19, <1>22, <1>23, <1>24

-----------------------------------------------------------------------------
(* A leading and a trailing "::" are trimmed.                               *)

\* The string once a leading "::" is taken care of.
Led(s) == IF s[1] = Empty /\ s[2] = Empty THEN Tail(s) ELSE s

LEMMA TrimsIs ==
    ASSUME NEW s, NEW n, n = Len(Led(s))
    PROVE  /\ Led(s)[n] = Empty /\ n = 1 => Trims(s) = {Led(s), <<>>}
           /\ Led(s)[n] = Empty /\ n > 1 /\ n # 1 /\ Led(s)[n - 1] = Empty
                => Trims(s) = {Front(Led(s))}
           /\ Led(s)[n] # Empty => Trims(s) = {Led(s)}
           /\ n > 1 /\ n # 1 /\ Led(s)[n - 1] # Empty => Trims(s) = {Led(s)}
<1>1. PICK u : u = Led(s)
  OBVIOUS
<1>2. Trims(s) = CASE u[n] = Empty /\ n = 1 -> {u, <<>>}
                   [] u[n] = Empty /\ n > 1 /\ u[n - 1] = Empty -> {Front(u)}
                   [] OTHER -> {u}
  BY <1>1 DEF Trims, Led
<1>3. CASE u[n] = Empty /\ n = 1
  <2>1. Trims(s) = {u, <<>>}
    BY <1>2, <1>3
  <2> QED BY <1>1, <1>3, <2>1
<1>4. CASE u[n] = Empty /\ n > 1 /\ n # 1 /\ u[n - 1] = Empty
  <2>1. Trims(s) = {Front(u)}
    BY <1>2, <1>4
  <2> QED BY <1>1, <1>4, <2>1
<1>5. CASE ~(u[n] = Empty /\ n = 1) /\ ~(u[n] = Empty /\ n > 1 /\ u[n - 1] = Empty)
  <2>1. Trims(s) = {u}
    BY <1>2, <1>5
  <2> QED BY <1>1, <1>5, <2>1
<1> QED BY <1>1, <1>3, <1>4, <1>5

LEMMA LedIs ==
    ASSUME NEW s \in Seq(Tokens), Len(s) >= 2, NEW o,
           o = IF s[1] = Empty /\ s[2] = Empty THEN 1 ELSE 0
    PROVE  /\ Led(s) \in Seq(Tokens) /\ Len(Led(s)) = Len(s) - o
           /\ \A i \in 1 .. Len(s) - o : Led(s)[i] = s[i + o]
<1>1. Len(s) \in Nat /\ s # <<>>
  BY LenProperties, EmptySeq
<1>2. /\ Tail(s) \in Seq(Tokens) /\ Len(Tail(s)) = Len(s) - 1
      /\ \A i \in 1 .. Len(s) - 1 : Tail(s)[i] = s[i + 1]
  BY <1>1, HeadTailProperties
<1>3. CASE s[1] = Empty /\ s[2] = Empty
  <2>1. Led(s) = Tail(s) /\ o = 1
    BY <1>3 DEF Led
  <2> QED BY <1>2, <2>1
<1>4. CASE ~(s[1] = Empty /\ s[2] = Empty)
  <2>1. Led(s) = s /\ o = 0
    BY <1>4 DEF Led
  <2> QED BY <1>1, <2>1
<1> QED BY <1>3, <1>4

LEMMA FrontIs ==
    ASSUME NEW s \in Seq(Tokens), Len(s) >= 1
    PROVE  /\ Front(s) \in Seq(Tokens) /\ Len(Front(s)) = Len(s) - 1
           /\ \A i \in 1 .. Len(s) - 1 : Front(s)[i] = s[i]
<1>1. Len(s) \in Nat
  BY LenProperties
<1>2. PICK n \in Int : n = Len(s) - 1
  BY <1>1
<1>3. /\ SubSeq(s, 1, n) \in Seq(Tokens) /\ Len(SubSeq(s, 1, n)) = n - 1 + 1
      /\ \A i \in 1 .. n - 1 + 1 : SubSeq(s, 1, n)[i] = s[1 + i - 1]
  BY <1>1, <1>2, Sliced
<1>4. Front(s) = SubSeq(s, 1, n)
  BY <1>2 DEF Front
<1> QED BY <1>1, <1>2, <1>3, <1>4

\* Whatever is trimmed, the tokens that remain are next to one another.
LEMMA TrimsAre ==
    ASSUME NEW s \in Seq(Tokens), Len(s) >= 2, NEW t \in Trims(s)
    PROVE  /\ t \in Seq(Tokens)
           /\ \E o \in {0, 1} : \A i \in 1 .. Len(t) : i + o \in 1 .. Len(s) /\ t[i] = s[i + o]
<1>0. Len(s) \in Nat
  BY LenProperties
<1>1. PICK o \in {0, 1} : o = IF s[1] = Empty /\ s[2] = Empty THEN 1 ELSE 0
  OBVIOUS
<1>2. PICK u : u = Led(s)
  OBVIOUS
<1>3. /\ u \in Seq(Tokens) /\ Len(u) = Len(s) - o
      /\ \A i \in 1 .. Len(s) - o : u[i] = s[i + o]
  BY <1>1, <1>2, LedIs
<1>4. PICK n : n = Len(u)
  OBVIOUS
<1>5. n \in Nat /\ n >= 1
  BY <1>0, <1>3, <1>4
<1>6. t = u \/ t = <<>> \/ t = Front(u)
  <2>1. /\ u[n] = Empty /\ n = 1 => Trims(s) = {u, <<>>}
        /\ u[n] = Empty /\ n > 1 /\ n # 1 /\ u[n - 1] = Empty => Trims(s) = {Front(u)}
        /\ u[n] # Empty => Trims(s) = {u}
        /\ n > 1 /\ n # 1 /\ u[n - 1] # Empty => Trims(s) = {u}
    BY <1>2, <1>4, TrimsIs
  <2>2. n = 1 \/ (n > 1 /\ n # 1)
    BY <1>5
  <2> QED BY <2>1, <2>2
<1>7. CASE t = u
  <2>1. \A i \in 1 .. Len(t) : i + o \in 1 .. Len(s) /\ t[i] = s[i + o]
    BY <1>0, <1>3, <1>7
  <2> QED BY <1>3, <1>7, <2>1
<1>8. CASE t = <<>>
  BY <1>8, EmptySeq
<1>9. CASE t = Front(u)
  <2>1. /\ t \in Seq(Tokens) /\ Len(t) = Len(u) - 1
        /\ \A i \in 1 .. Len(u) - 1 : t[i] = u[i]
    BY <1>3, <1>4, <1>5, <1>9, FrontIs
  <2>2. \A i \in 1 .. Len(t) : i + o \in 1 .. Len(s) /\ t[i] = s[i + o]
    BY <1>0, <1>3, <2>1
  <2> QED BY <2>1, <2>2
<1> QED BY <1>6, <1>7, <1>8, <1>9

\* What is left of a displayed "::" is one token, wherever it is.
LEMMA TrimsElided ==
    ASSUME NEW v \in Addresses, NEW f \in 1 .. 8, NEW l \in f .. 8
    PROVE  \E t \in Seq(Tokens) :
              /\ Trims(Elided(v, f, l)) = {t}
              /\ Len(t) = f + After(v, l)
              /\ \A i \in 1 .. f - 1 : t[i] = Hex(v[i])
              /\ t[f] = Empty
              /\ \A i \in 1 .. After(v, l) - Cut(v, l + 1) : t[f + i] = Hex(v[l + i])
              /\ Cut(v, l + 1) = 1 => t[f + After(v, l)] = Dotted(v[7] \o v[8])
<1>1. PICK s : s = Elided(v, f, l)
  OBVIOUS
<1>2. PICK n : n = After(v, l)
  OBVIOUS
<1>3. PICK k : k = Cut(v, l + 1)
  OBVIOUS
<1>4. PICK m : m = Middle(f)
  OBVIOUS
<1>5. PICK e : e = Empty
  OBVIOUS
<1>6. PICK q : q = Dotted(v[7] \o v[8])
  OBVIOUS
<1>7. PICK H : H = [i \in 1 .. 8 |-> Hex(v[i])]
  OBVIOUS
<1>8. l \in 1 .. 8
  OBVIOUS
<1>9. /\ s \in Seq(Tokens) /\ Len(s) = m + (IF n = 0 THEN 1 ELSE n)
      /\ \A i \in 1 .. f - 1 : s[i] = Hex(v[i])
      /\ f = 1 => s[1] = e
      /\ s[m] = e
      /\ n = 0 => s[m + 1] = e
      /\ \A i \in 1 .. n - k : s[m + i] = Hex(v[l + i])
      /\ k = 1 => s[m + n] = q
  BY <1>1, <1>2, <1>3, <1>4, <1>5, <1>6, ElidedIs
<1>10. k \in {0, 1} /\ n \in Nat /\ k <= n /\ n = 8 - l - k
  BY <1>2, <1>3, <1>8, AfterIs, Zenon
<1>11. q # e /\ \A i \in 1 .. 8 : H[i] = Hex(v[i]) /\ H[i] # e
  BY <1>5, <1>6, <1>7 DEF Empty, Hex, Dotted
<1>12. m = IF f = 1 THEN 2 ELSE f
  BY <1>4 DEF Middle
<1>13. /\ \A i \in 1 .. f - 1 : s[i] = H[i]
       /\ \A i \in 1 .. n - k : s[m + i] = H[l + i]
  <2>1. /\ \A i \in 1 .. f - 1 : i \in 1 .. 8
        /\ \A i \in 1 .. n - k : l + i \in 1 .. 8
    BY <1>8, <1>10
  <2> QED BY <1>9, <1>11, <2>1
<1>14. PICK o \in {0, 1} : o = IF s[1] = Empty /\ s[2] = Empty THEN 1 ELSE 0
  OBVIOUS
<1>15. o = m - f
  <2>1. CASE f = 1
    <3>1. s[1] = e /\ s[2] = e /\ m = 2
      BY <1>9, <1>12, <2>1
    <3> QED BY <1>5, <1>14, <2>1, <3>1
  <2>2. CASE f # 1
    <3>1. s[1] = H[1] /\ H[1] # e /\ m = f
      BY <1>11, <1>12, <1>13, <2>2
    <3> QED BY <1>5, <1>14, <3>1
  <2> QED BY <2>1, <2>2
<1>16. PICK u : u = Led(s)
  OBVIOUS
<1>17. Len(s) \in Nat /\ Len(s) >= 2
  BY <1>9, <1>10, <1>12
<1>18. /\ u \in Seq(Tokens) /\ Len(u) = Len(s) - o
       /\ \A i \in 1 .. Len(s) - o : u[i] = s[i + o]
  BY <1>9, <1>14, <1>16, <1>17, LedIs
<1>19. PICK z \in Nat : z = f + (IF n = 0 THEN 1 ELSE n)
  BY <1>10
<1>20. /\ Len(u) = z /\ z > 1 /\ z # 1
       /\ \A i \in 1 .. z : u[i] = s[i + (m - f)]
  BY <1>9, <1>10, <1>12, <1>15, <1>18, <1>19
<1>21. /\ \A i \in 1 .. f - 1 : u[i] = H[i]
       /\ u[f] = e
       /\ n = 0 => u[f + 1] = e
       /\ \A i \in 1 .. n - k : u[f + i] = H[l + i]
       /\ k = 1 => u[f + n] = q
  <2>1. ASSUME NEW i \in 1 .. f - 1 PROVE u[i] = H[i]
    <3>1. i \in 1 .. z /\ i + (m - f) = i
      BY <1>10, <1>12, <1>19
    <3> QED BY <1>13, <1>20, <3>1
  <2>2. u[f] = e
    BY <1>9, <1>10, <1>12, <1>19, <1>20
  <2>3. n = 0 => u[f + 1] = e
    BY <1>9, <1>12, <1>19, <1>20
  <2>4. ASSUME NEW i \in 1 .. n - k PROVE u[f + i] = H[l + i]
    <3>1. f + i \in 1 .. z /\ f + i + (m - f) = m + i
      BY <1>10, <1>12, <1>19
    <3> QED BY <1>13, <1>20, <3>1
  <2>5. ASSUME k = 1 PROVE u[f + n] = q
    <3>1. f + n \in 1 .. z /\ f + n + (m - f) = m + n
      BY <1>10, <1>12, <1>19, <2>5
    <3> QED BY <1>9, <1>20, <2>5, <3>1
  <2> QED BY <2>1, <2>2, <2>3, <2>4, <2>5
<1>22. /\ u[z] = e /\ u[z - 1] = e => Trims(s) = {Front(u)}
       /\ u[z] # e => Trims(s) = {u}
  BY <1>5, <1>16, <1>20, TrimsIs
<1>23. PICK t : t = IF n = 0 THEN Front(u) ELSE u
  OBVIOUS
<1>24. /\ t \in Seq(Tokens) /\ Trims(s) = {t} /\ Len(t) = f + n
       /\ \A i \in 1 .. f + n : t[i] = u[i]
  <2>1. CASE n = 0
    <3>1. z = f + 1 /\ z - 1 = f
      BY <1>19, <2>1
    <3>2. Trims(s) = {Front(u)}
      BY <1>21, <1>22, <2>1, <3>1
    <3>3. /\ Front(u) \in Seq(Tokens) /\ Len(Front(u)) = z - 1
          /\ \A i \in 1 .. z - 1 : Front(u)[i] = u[i]
      <4>1. u \in Seq(Tokens) /\ Len(u) >= 1 /\ Len(u) = z
        BY <1>18, <1>20
      <4> QED BY ONLY <4>1, FrontIs
    <3> QED BY <1>23, <2>1, <3>1, <3>2, <3>3
  <2>2. CASE n # 0
    <3>1. z = f + n
      BY <1>19, <2>2
    <3>2. u[z] # e
      <4>1. CASE k = 1
        BY <1>11, <1>21, <3>1, <4>1
      <4>2. CASE k = 0
        <5>1. n \in 1 .. n - k /\ l + n \in 1 .. 8
          BY <1>8, <1>10, <2>2, <4>2
        <5> QED BY <1>11, <1>21, <3>1, <5>1
      <4> QED BY <1>10, <4>1, <4>2
    <3>3. Trims(s) = {u}
      BY <1>22, <3>2
    <3> QED BY <1>18, <1>20, <1>23, <2>2, <3>1, <3>3
  <2> QED BY <2>1, <2>2
<1>25. /\ \A i \in 1 .. f - 1 : t[i] = Hex(v[i])
       /\ t[f] = e
       /\ \A i \in 1 .. n - k : t[f + i] = Hex(v[l + i])
       /\ k = 1 => t[f + n] = q
  <2>1. /\ \A i \in 1 .. f - 1 : i \in 1 .. f + n /\ i \in 1 .. 8
        /\ f \in 1 .. f + n /\ f + n \in 1 .. f + n
        /\ \A i \in 1 .. n - k : f + i \in 1 .. f + n /\ l + i \in 1 .. 8
    BY <1>8, <1>10
  <2> QED BY <1>11, <1>21, <1>24, <2>1
<1> QED BY <1>1, <1>2, <1>3, <1>5, <1>6, <1>24, <1>25

\* Without a "::" nothing is trimmed.
LEMMA TrimsHex ==
    ASSUME NEW s \in Seq(Tokens), Len(s) = 8, \A i \in 1 .. 8 : s[i] # Empty
    PROVE  Trims(s) = {s}
<1>1. Led(s) = s
  <2>1. s[1] # Empty
    OBVIOUS
  <2> QED BY <2>1 DEF Led
<1>2. Led(s)[Len(Led(s))] # Empty
  <2>1. s[Len(s)] # Empty
    <3>1. s[8] # Empty
      OBVIOUS
    <3> QED BY <3>1
  <2> QED BY <1>1, <2>1
<1> QED BY <1>1, <1>2, TrimsIs, Zenon

-----------------------------------------------------------------------------
(* The longest sequence of zeros, of several the first.                     *)

LEMMA WellOrdered ==
    ASSUME NEW S \in SUBSET Nat, S # {}
    PROVE  \E n \in S : \A m \in S : n <= m
<1>1. PICK n \in S : \A m \in S : ~(<<m, n>> \in OpToRel(<, Nat))
  BY WFMin, NatLessThanWellFounded
<1>2. \A m \in S : ~(m < n)
  BY <1>1 DEF OpToRel
<1> QED BY <1>2

LEMMA RunIs ==
    ASSUME NEW v, NEW r \in ZeroRuns(v)
    PROVE  /\ r.first \in 1 .. 8 /\ r.last \in 1 .. 8
           /\ Size(r) = r.last - r.first + 1 /\ Size(r) \in 2 .. 8
           /\ r.last \in r.first .. 8
           /\ \A i \in r.first .. r.last : v[i] = Zero
  BY DEF ZeroRuns, Size

LEMMA LongestIs ==
    ASSUME NEW v, ZeroRuns(v) # {}
    PROVE  /\ Longest(ZeroRuns(v)) \in ZeroRuns(v)
           /\ \A s \in ZeroRuns(v) :
                \/ Size(Longest(ZeroRuns(v))) > Size(s)
                \/ /\ Size(Longest(ZeroRuns(v))) = Size(s)
                   /\ Longest(ZeroRuns(v)).first <= s.first
<1> DEFINE Rank(r) == 100 - 9 * Size(r) + r.first
           M == {Rank(r) : r \in ZeroRuns(v)}
<1>1. \A r \in ZeroRuns(v) : Size(r) \in 2 .. 8 /\ r.first \in 1 .. 8
  BY RunIs
<1>2. M \in SUBSET Nat /\ M # {}
  <2>1. ASSUME NEW r \in ZeroRuns(v) PROVE Rank(r) \in Nat
    BY <1>1
  <2> QED BY <2>1
<1>3. PICK n \in M : \A m \in M : n <= m
  <2> HIDE DEF M
  <2> QED BY <1>2, WellOrdered
<1>4. PICK r \in ZeroRuns(v) : n = Rank(r)
  OBVIOUS
<1>5. ASSUME NEW s \in ZeroRuns(v)
      PROVE  Size(r) > Size(s) \/ (Size(r) = Size(s) /\ r.first <= s.first)
  <2>1. Rank(r) <= Rank(s)
    BY <1>3, <1>4
  <2>2. /\ Size(r) \in 2 .. 8 /\ r.first \in 1 .. 8
        /\ Size(s) \in 2 .. 8 /\ s.first \in 1 .. 8
    BY <1>1
  <2> QED BY <2>1, <2>2
<1>6. \E x \in ZeroRuns(v) : \A s \in ZeroRuns(v) :
          Size(x) > Size(s) \/ (Size(x) = Size(s) /\ x.first <= s.first)
  BY <1>5
<1> QED BY <1>6, Zenon DEF Longest

\* An address without a sequence of zeros embeds no IPV4.
LEMMA EmbeddedHasZeros ==
    ASSUME NEW v, ZeroRuns(v) = {}
    PROVE  ~Embedded(v)
<1> SUFFICES ASSUME Embedded(v) PROVE FALSE
  OBVIOUS
<1>1. PICK r : r = [first |-> 1, last |-> 2]
  OBVIOUS
<1>2. r \in [first : 1 .. 8, last : 1 .. 8] /\ r.first = 1 /\ r.last = 2
  BY <1>1
<1>3. \A i \in 1 .. 2 : v[i] = Zero
  BY DEF Embedded
<1>4. r \in ZeroRuns(v)
  BY <1>2, <1>3 DEF ZeroRuns, Size
<1> QED BY <1>4

-----------------------------------------------------------------------------
(* Reading back what is displayed.                                          *)

LEMMA OneEmpty ==
    ASSUME NEW S, NEW e, S = {e}
    PROVE  Cardinality(S) = 1
  BY FS_Singleton

LEMMA ReadBackElided ==
    ASSUME NEW v \in Addresses, NEW f \in 1 .. 8, NEW l \in f .. 8,
           \A i \in f .. l : v[i] = Zero,
           NEW t \in Seq(Tokens),
           Len(t) = f + After(v, l),
           \A i \in 1 .. f - 1 : t[i] = Hex(v[i]),
           t[f] = Empty,
           \A i \in 1 .. After(v, l) - Cut(v, l + 1) : t[f + i] = Hex(v[l + i]),
           Cut(v, l + 1) = 1 => t[f + After(v, l)] = Dotted(v[7] \o v[8])
    PROVE  parseIPV6(t) = V6(v)
<1>1. PICK n : n = After(v, l)
  OBVIOUS
<1>2. PICK k : k = Cut(v, l + 1)
  OBVIOUS
<1>3. l \in 1 .. 8
  OBVIOUS
<1>4. /\ k \in {0, 1} /\ n \in Nat /\ k <= n /\ n = 8 - l - k
      /\ k = 1 => l <= 6
  BY <1>1, <1>2, <1>3, AfterIs, Zenon
<1>5. PICK q : q = v[7] \o v[8]
  OBVIOUS
<1>6. q \in Seq(Byte) /\ Len(q) = 4 /\ SubSeq(q, 1, 2) = v[7] /\ SubSeq(q, 3, 4) = v[8]
  <2>1. v[7] \in Pairs /\ v[8] \in Pairs
    BY DEF Addresses
  <2> QED BY <1>5, <2>1, Quads
<1>7. /\ Len(t) = f + n
      /\ \A i \in 1 .. f - 1 : t[i].kind = "hex" /\ t[i].group = v[i]
      /\ t[f].kind = "empty"
      /\ \A i \in 1 .. n - k : t[f + i].kind = "hex" /\ t[f + i].group = v[l + i]
      /\ k = 1 => t[f + n].kind = "dotted" /\ t[f + n].bytes = q
  <2>1. PICK x : x = Dotted(q)
    OBVIOUS
  <2>2. x.kind = "dotted" /\ x.bytes = q
    BY <2>1, Kinds
  <2>3. k = 1 => t[f + n] = x
    BY <1>1, <1>2, <1>5, <2>1
  <2>4. \A i \in 1 .. n - k : t[f + i] = Hex(v[l + i])
    BY <1>1, <1>2
  <2>5. \A i \in 1 .. n - k : t[f + i].kind = "hex" /\ t[f + i].group = v[l + i]
    BY <2>4, Kinds
  <2>6. \A i \in 1 .. f - 1 : t[i].kind = "hex" /\ t[i].group = v[i]
    BY Kinds
  <2>7. t[f].kind = "empty"
    BY Kinds
  <2> QED BY <1>1, <2>2, <2>3, <2>5, <2>6, <2>7
<1>8. \A i \in 1 .. Len(t) :
         \/ i \in 1 .. f - 1
         \/ i = f
         \/ \E j \in 1 .. n - k : i = f + j
         \/ k = 1 /\ i = f + n
  <2> TAKE i \in 1 .. Len(t)
  <2>1. CASE i > f /\ i - f <= n - k
    <3>1. i - f \in 1 .. n - k /\ i = f + (i - f)
      BY <1>4, <1>7, <2>1
    <3> QED BY <3>1
  <2> QED BY <1>4, <1>7, <2>1
<1>9. \A i \in 1 .. Len(t) : t[i].kind = "dotted" <=> k = 1 /\ i = f + n
  <2> TAKE i \in 1 .. Len(t)
  <2>1. CASE i \in 1 .. f - 1
    BY <1>4, <1>7, <2>1
  <2>2. CASE i = f
    BY <1>4, <1>7, <2>2
  <2>3. CASE \E j \in 1 .. n - k : i = f + j
    BY <1>4, <1>7, <2>3
  <2>4. CASE k = 1 /\ i = f + n
    BY <1>7, <2>4
  <2> QED BY <1>8, <2>1, <2>2, <2>3, <2>4
<1>10. \A i \in 1 .. Len(t) : t[i] = Empty <=> i = f
  <2> TAKE i \in 1 .. Len(t)
  <2>1. CASE i \in 1 .. f - 1
    BY <1>7, <2>1, Kinds
  <2>2. CASE i = f
    BY <2>2
  <2>3. CASE \E j \in 1 .. n - k : i = f + j
    <3>1. t[i].kind = "hex" /\ i # f
      BY <1>7, <2>3
    <3> QED BY <3>1, Kinds
  <2>4. CASE k = 1 /\ i = f + n
    <3>1. t[i].kind = "dotted" /\ i # f
      BY <1>4, <1>7, <2>4
    <3> QED BY <3>1, Kinds
  <2> QED BY <1>8, <2>1, <2>2, <2>3, <2>4
<1>11. DOMAIN t = 1 .. Len(t) /\ Len(t) \in Nat /\ f \in 1 .. Len(t) /\ Len(t) \in 1 .. Len(t)
  BY <1>4, <1>7, LenProperties
<1>12. Empties(t) = {f}
  BY <1>10, <1>11, EmptiesIs
<1>13. HasDotted(t) <=> k = 1
  <2>1. t # <<>>
    BY <1>11, EmptySeq
  <2>2. t[Len(t)].kind = "dotted" <=> k = 1
    BY <1>7, <1>9, <1>11
  <2> QED BY <2>1, <2>2 DEF HasDotted, Last
<1>14. Four(t) = k
  BY <1>4, <1>13 DEF Four
<1>15. FourBytes(t)
  BY <1>6, <1>7, <1>13 DEF FourBytes, Last
<1>16. SanityChecks(t)
  <2>1. Cardinality(Empties(t)) = 1
    BY <1>12, OneEmpty
  <2> QED BY <1>7, <1>9, <1>11, <1>12, <2>1 DEF SanityChecks
<1>17. /\ \A i \in 1 .. f - 1 : PackPosition(t, i) = i - 1
       /\ \A i \in 1 .. n : PackPosition(t, f + i) = l + i - 1
  <2>1. /\ \A i \in 1 .. f - 1 : PackPosition(t, i) = i - 1
        /\ \A i \in f + 1 .. Len(t) : PackPosition(t, i) = i + 7 - Len(t) - Four(t)
    BY <1>11, <1>12, PlacesAround
  <2>2. ASSUME NEW i \in 1 .. n PROVE PackPosition(t, f + i) = l + i - 1
    <3>1. f + i \in f + 1 .. Len(t) /\ f + i + 7 - Len(t) - k = l + i - 1
      BY <1>4, <1>7
    <3> QED BY <1>14, <2>1, <3>1
  <2> QED BY <2>1, <2>2
<1>18. ASSUME NEW i \in 1 .. Len(t), t[i].kind = "hex"
       PROVE  PackPosition(t, i) \in 0 .. 7 /\ v[PackPosition(t, i) + 1] = t[i].group
  <2>1. CASE i \in 1 .. f - 1
    <3>1. PackPosition(t, i) = i - 1 /\ i - 1 \in 0 .. 7 /\ i - 1 + 1 = i
      BY <1>17, <2>1
    <3> QED BY <1>7, <2>1, <3>1
  <2>2. CASE \E j \in 1 .. n - k : i = f + j
    <3>1. PICK j \in 1 .. n - k : i = f + j
      BY <2>2
    <3>2. j \in 1 .. n /\ l + j - 1 \in 0 .. 7 /\ l + j - 1 + 1 = l + j
      BY <1>3, <1>4
    <3>3. PackPosition(t, i) = l + j - 1
      BY <1>17, <3>1, <3>2
    <3>4. t[i].group = v[l + j]
      BY <1>7, <3>1
    <3> QED BY <3>2, <3>3, <3>4
  <2> QED BY <1>7, <1>8, <1>18, <2>1, <2>2
<1>19. ASSUME NEW i \in 1 .. Len(t), t[i].kind = "dotted"
       PROVE  /\ PackPosition(t, i) = 6
              /\ v[7] = SubSeq(t[i].bytes, 1, 2) /\ v[8] = SubSeq(t[i].bytes, 3, 4)
  <2>1. k = 1 /\ i = f + n
    BY <1>9, <1>19
  <2>2. n \in 1 .. n /\ l + n - 1 = 6
    BY <1>3, <1>4, <2>1
  <2> QED BY <1>6, <1>7, <1>17, <2>1, <2>2
<1>20. ASSUME NEW g \in 1 .. 8
       PROVE  \/ v[g] = Zero
              \/ \E i \in 1 .. Len(t) : t[i].kind = "hex" /\ PackPosition(t, i) + 1 = g
              \/ \E i \in 1 .. Len(t) : t[i].kind = "dotted" /\ g \in {7, 8}
  <2>1. CASE g < f
    <3>1. g \in 1 .. f - 1 /\ g \in 1 .. Len(t) /\ g - 1 + 1 = g
      BY <1>4, <1>7, <2>1
    <3>2. t[g].kind = "hex" /\ PackPosition(t, g) + 1 = g
      BY <1>7, <1>17, <3>1
    <3> QED BY <3>1, <3>2
  <2>2. CASE g \in f .. l
    BY <2>2
  <2>3. CASE g > l /\ g - l <= n - k
    <3>1. PICK j \in 1 .. n - k : g = l + j
      <4>1. g - l \in 1 .. n - k /\ g = l + (g - l)
        BY <1>3, <1>4, <2>3
      <4> QED BY <4>1
    <3>2. f + j \in 1 .. Len(t) /\ j \in 1 .. n /\ l + j - 1 + 1 = g
      BY <1>3, <1>4, <1>7, <3>1
    <3>3. t[f + j].kind = "hex" /\ PackPosition(t, f + j) + 1 = g
      BY <1>7, <1>17, <3>2
    <3> QED BY <3>2, <3>3
  <2>4. CASE g > l /\ g - l > n - k
    <3>1. k = 1 /\ g \in {7, 8}
      BY <1>3, <1>4, <2>4
    <3>2. f + n \in 1 .. Len(t)
      BY <1>4, <1>7
    <3> QED BY <1>7, <3>1, <3>2
  <2>5. g < f \/ g \in f .. l \/ (g > l /\ g - l <= n - k) \/ (g > l /\ g - l > n - k)
    BY <1>3, <1>4
  <2> QED BY <2>1, <2>2, <2>3, <2>4, <2>5, Zenon
<1> QED BY <1>15, <1>16, <1>18, <1>19, <1>20, ReadAs

LEMMA ReadBackHex ==
    ASSUME NEW v \in Addresses, NEW t \in Seq(Tokens), Len(t) = 8,
           \A i \in 1 .. 8 : t[i] = Hex(v[i])
    PROVE  parseIPV6(t) = V6(v) /\ Empties(t) = {}
<1>1. \A i \in 1 .. 8 : t[i].kind = "hex" /\ t[i].group = v[i] /\ t[i] # Empty
  BY Kinds
<1>2. DOMAIN t = 1 .. 8
  BY LenProperties
<1>3. Empties(t) = {}
  BY <1>1, EmptiesIs
<1>4. ~HasDotted(t)
  <2>1. t[8].kind = "hex"
    BY <1>1
  <2> QED BY <2>1 DEF HasDotted, Last
<1>5. SanityChecks(t) /\ FourBytes(t)
  <2>1. Cardinality(Empties(t)) = 0
    BY <1>3, FS_EmptySet
  <2>2. \A i \in DOMAIN t : t[i].kind # "dotted"
    BY <1>1, <1>2
  <2> QED BY <1>3, <1>4, <2>1, <2>2 DEF SanityChecks, FourBytes
<1>6. \A i \in 1 .. 8 : PackPosition(t, i) = i - 1
  BY <1>3, <1>5, PlacesWithout
<1>7. ASSUME NEW i \in 1 .. Len(t), t[i].kind = "hex"
      PROVE  PackPosition(t, i) \in 0 .. 7 /\ v[PackPosition(t, i) + 1] = t[i].group
  <2>1. PackPosition(t, i) = i - 1 /\ i - 1 \in 0 .. 7 /\ i - 1 + 1 = i
    BY <1>6
  <2> QED BY <1>1, <2>1
<1>8. ASSUME NEW g \in 1 .. 8
      PROVE  \E i \in 1 .. Len(t) : t[i].kind = "hex" /\ PackPosition(t, i) + 1 = g
  <2>1. t[g].kind = "hex" /\ PackPosition(t, g) = g - 1 /\ g - 1 + 1 = g
    BY <1>1, <1>6
  <2> QED BY <2>1
<1>9. \A i \in 1 .. Len(t) : t[i].kind # "dotted"
  BY <1>1
<1>10. parseIPV6(t) = V6(v)
  BY <1>5, <1>7, <1>8, <1>9, ReadAs
<1> QED BY <1>3, <1>10

LEMMA BuildIs ==
    /\ \A v : buildIPString(V6(v)) = buildIPV6String(v)
    /\ \A b : buildIPString(V4(b)) = <<Dotted(b)>>
<1>1. ASSUME NEW v PROVE buildIPString(V6(v)) = buildIPV6String(v)
  BY DEF buildIPString, V6
<1>2. ASSUME NEW b PROVE buildIPString(V4(b)) = <<Dotted(b)>>
  BY DEF buildIPString, V4
<1> QED BY <1>1, <1>2

\* The string of an address without zeros to elide, and of one that has them.
LEMMA ShownHex ==
    ASSUME NEW v \in Addresses, ZeroRuns(v) = {}
    PROVE  /\ buildIPV6String(v) \in Seq(Tokens) /\ Len(buildIPV6String(v)) = 8
           /\ \A i \in 1 .. 8 : buildIPV6String(v)[i] = Hex(v[i])
<1>1. PICK s : s = Elements(v, 1, 8)
  OBVIOUS
<1>2. buildIPV6String(v) = s
  BY <1>1, EmbeddedHasZeros DEF buildIPV6String, Ending
<1>3. 1 \in 1 .. 9 /\ 8 \in 1 - 1 .. 8
  OBVIOUS
<1>4. /\ s \in Seq(Tokens) /\ Len(s) = 8 - 1 + 1
      /\ \A i \in 1 .. 8 - 1 + 1 : s[i] = Hex(v[1 + i - 1])
  BY <1>1, <1>3, ElementsIs, Zenon
<1> QED BY <1>2, <1>4

LEMMA ShownElided ==
    ASSUME NEW v, ZeroRuns(v) # {}
    PROVE  buildIPV6String(v) =
             Elided(v, Longest(ZeroRuns(v)).first, Longest(ZeroRuns(v)).last)
  BY DEF buildIPV6String, Elided

LEMMA DisplayedReadBack6 ==
    ASSUME NEW v \in Addresses
    PROVE  Parsed(buildIPString(V6(v))) = {V6(v)}
<1>1. PICK s : s = buildIPV6String(v)
  OBVIOUS
<1>2. CASE ZeroRuns(v) = {}
  <2>1. s \in Seq(Tokens) /\ Len(s) = 8 /\ \A i \in 1 .. 8 : s[i] = Hex(v[i])
    BY <1>1, <1>2, ShownHex
  <2>2. \A i \in 1 .. 8 : s[i] # Empty
    BY <2>1, Kinds
  <2>3. Trims(s) = {s} /\ parseIPV6(s) = V6(v)
    BY <2>1, <2>2, TrimsHex, ReadBackHex
  <2>4. Len(s) >= 2
    BY <2>1
  <2>5. Parsed(s) = {parseIPV6(t) : t \in Trims(s)}
    BY <2>4 DEF Parsed
  <2> QED BY <1>1, <2>3, <2>5, BuildIs
<1>3. CASE ZeroRuns(v) # {}
  <2>1. PICK r \in ZeroRuns(v) : r = Longest(ZeroRuns(v))
    BY <1>3, LongestIs
  <2>2. PICK f \in 1 .. 8 : f = r.first
    BY RunIs
  <2>3. PICK l \in f .. 8 : l = r.last
    BY <2>2, RunIs
  <2>4. \A i \in f .. l : v[i] = Zero
    BY <2>2, <2>3, RunIs
  <2>5. s = Elided(v, f, l)
    BY <1>1, <1>3, <2>1, <2>2, <2>3, ShownElided
  <2>6. PICK t \in Seq(Tokens) :
            /\ Trims(s) = {t}
            /\ Len(t) = f + After(v, l)
            /\ \A i \in 1 .. f - 1 : t[i] = Hex(v[i])
            /\ t[f] = Empty
            /\ \A i \in 1 .. After(v, l) - Cut(v, l + 1) : t[f + i] = Hex(v[l + i])
            /\ Cut(v, l + 1) = 1 => t[f + After(v, l)] = Dotted(v[7] \o v[8])
    BY <2>5, TrimsElided
  <2>7. parseIPV6(t) = V6(v)
    BY <2>4, <2>6, ReadBackElided
  <2>8. Len(s) >= 2
    <3>1. Len(s) = Middle(f) + (IF After(v, l) = 0 THEN 1 ELSE After(v, l))
      BY <2>5, ElidedIs
    <3>2. l \in 1 .. 8
      OBVIOUS
    <3>3. After(v, l) \in Nat
      BY <3>2, AfterIs, Zenon
    <3> QED BY <3>1, <3>3 DEF Middle
  <2>9. Parsed(s) = {parseIPV6(x) : x \in Trims(s)}
    BY <2>8 DEF Parsed
  <2> QED BY <1>1, <2>6, <2>7, <2>9, BuildIs
<1> QED BY <1>2, <1>3

LEMMA DisplayedReadBack4 ==
    ASSUME NEW b, Len(b) = 4
    PROVE  Parsed(buildIPString(V4(b))) = {V4(b)}
<1>1. PICK x : x = Dotted(b)
  OBVIOUS
<1>2. PICK s : s = <<x>>
  OBVIOUS
<1>3. Len(s) = 1 /\ s[1] = x /\ ~(Len(s) >= 2)
  BY <1>2
<1>4. Parsed(s) = {parseIPV4(x)}
  BY <1>3 DEF Parsed
<1>5. parseIPV4(x) = V4(b)
  BY <1>1, Kinds DEF parseIPV4
<1> QED BY <1>1, <1>2, <1>4, <1>5, BuildIs

-----------------------------------------------------------------------------
(* What every reachable state has: an address is made of bytes, and its     *)
(* string is the one that is displayed for it.                              *)

IsAddress(a) ==
    \/ \E b \in Seq(Byte) : Len(b) = 4 /\ a = V4(b)
    \/ \E v \in Addresses : a = V6(v)

TypeOK ==
    /\ text \in Seq(Tokens)
    /\ ip = None \/ IsAddress(ip)

IInv ==
    /\ TypeOK
    /\ ip # None => ipString = buildIPString(ip)

\* Two addresses that buildIPString displays alike are the same address, so that
\* a string can stand for its address.
THEOREM StringsDistinguish ==
    \A a, b : IsAddress(a) /\ IsAddress(b) /\ buildIPString(a) = buildIPString(b) => a = b
<1>1. \A a : IsAddress(a) => Parsed(buildIPString(a)) = {a}
  BY DisplayedReadBack4, DisplayedReadBack6 DEF IsAddress
<1> QED BY <1>1

LEMMA ParsedAre ==
    ASSUME NEW s \in Seq(Tokens), s # <<>>, NEW a \in Parsed(s), a # Throws
    PROVE  IsAddress(a)
<1>1. Len(s) \in Nat \ {0}
  BY EmptySeq
<1>2. CASE Len(s) >= 2
  <2>1. PICK t \in Trims(s) : a = parseIPV6(t)
    BY <1>2 DEF Parsed
  <2>2. t \in Seq(Tokens)
    BY <1>2, <2>1, TrimsAre
  <2> QED BY <2>1, <2>2, ParseType DEF IsAddress
<1>3. CASE ~(Len(s) >= 2)
  <2>1. a = parseIPV4(s[1])
    BY <1>3 DEF Parsed
  <2>2. s[1] \in Tokens
    BY <1>1, ElementOfSeq
  <2>3. s[1].kind = "dotted" /\ Len(s[1].bytes) = 4 /\ a = V4(s[1].bytes)
    BY <2>1 DEF parseIPV4
  <2>4. s[1].bytes \in Seq(Byte)
    BY <2>2, <2>3, TokenElim
  <2> QED BY <2>3, <2>4 DEF IsAddress
<1> QED BY <1>2, <1>3

LEMMA InvInit == Init => IInv
<1> SUFFICES ASSUME Init PROVE IInv
  OBVIOUS
<1>1. <<>> \in Seq(Tokens)
  BY EmptySeq
<1> QED BY <1>1 DEF Init, IInv, TypeOK

LEMMA SetInv ==
    ASSUME NEW a, IsAddress(a), Set(a), text' \in Seq(Tokens)
    PROVE  IInv'
  BY DEF Set, IInv, TypeOK

LEMMA InvStep == IInv /\ [Next]_vars => IInv'
<1> SUFFICES ASSUME IInv, [Next]_vars PROVE IInv'
  OBVIOUS
<1> USE DEF IInv, TypeOK
<1>1. CASE Type
  <2>1. PICK token \in Inputs : text' = Append(text, token)
    BY <1>1 DEF Type
  <2>2. token \in Tokens
    BY InputsAssumption
  <2>3. text' \in Seq(Tokens)
    BY <2>1, <2>2, AppendProperties
  <2> QED BY <1>1, <2>3 DEF Type
<1>2. CASE SetValue
  <2>1. PICK v \in [1 .. 8 -> Groups] : Set(V6(v))
    BY <1>2 DEF SetValue
  <2>2. v \in Addresses
    BY GroupsAssumption DEF Addresses, Pairs
  <2>3. IsAddress(V6(v))
    BY <2>2 DEF IsAddress
  <2> QED BY <1>2, <2>1, <2>3, SetInv DEF SetValue
<1>3. CASE Construct
  <2>1. PICK a \in Parsed(text) : a # Throws /\ Set(a)
    BY <1>3 DEF Construct
  <2>2. IsAddress(a)
    BY <1>3, <2>1, ParsedAre DEF Construct
  <2>3. text' \in Seq(Tokens)
    BY <1>3, EmptySeq DEF Construct
  <2> QED BY <2>1, <2>2, <2>3, SetInv
<1>4. CASE UNCHANGED vars
  BY <1>4 DEF vars
<1> QED BY <1>1, <1>2, <1>3, <1>4 DEF Next

\* Strings are made of tokens, and what the constructor reads is an address made
\* of bytes: four of an IPV4, eight pairs of an IPV6.
THEOREM TypeCorrect == Spec => []TypeOK
<1>1. IInv => TypeOK
  BY DEF IInv
<1> QED BY <1>1, InvInit, InvStep, PTL DEF Spec

LEMMA RoundTripHolds == IInv => RoundTrip
<1> SUFFICES ASSUME IInv, ip # None PROVE Parsed(ipString) = {ip}
  BY DEF RoundTrip
<1>1. ipString = buildIPString(ip) /\ IsAddress(ip)
  BY DEF IInv, TypeOK
<1> QED BY <1>1, DisplayedReadBack4, DisplayedReadBack6 DEF IsAddress

\* Whatever an address is, the constructor reads its string, the _ipString that
\* setValue leaves, as that address and no other.
THEOREM ReadBack == Spec => []RoundTrip
  BY RoundTripHolds, InvInit, InvStep, PTL DEF Spec

-----------------------------------------------------------------------------
(* How many groups a string spells out.                                     *)

OfKind(s, kind) == {i \in DOMAIN s : s[i].kind = kind}

LEMMA SpelledIs ==
    ASSUME NEW s
    PROVE  Spelled(s) = Cardinality(OfKind(s, "hex")) + 2 * Cardinality(OfKind(s, "dotted"))
  BY DEF Spelled, OfKind

LEMMA OfKindFinite ==
    ASSUME NEW s \in Seq(Tokens), NEW kind
    PROVE  /\ IsFiniteSet(OfKind(s, kind)) /\ Cardinality(OfKind(s, kind)) \in Nat
           /\ \A i : i \in OfKind(s, kind) <=> i \in 1 .. Len(s) /\ s[i].kind = kind
<1>1. DOMAIN s = 1 .. Len(s) /\ Len(s) \in Nat
  BY LenProperties
<1>2. \A i : i \in OfKind(s, kind) <=> i \in 1 .. Len(s) /\ s[i].kind = kind
  BY <1>1 DEF OfKind
<1>3. IsFiniteSet(1 .. Len(s))
  BY <1>1, FS_Interval
<1>4. OfKind(s, kind) \in SUBSET (1 .. Len(s))
  BY <1>2
<1>5. IsFiniteSet(OfKind(s, kind))
  BY <1>3, <1>4, FS_Subset
<1> QED BY <1>2, <1>5, FS_CardinalityType

LEMMA TwoIntervals ==
    ASSUME NEW a \in Nat, NEW m \in Nat, NEW b \in Nat, a <= m
    PROVE  Cardinality((1 .. a) \cup (m + 1 .. m + b)) = a + b
<1>1. PICK A : A = 1 .. a
  OBVIOUS
<1>2. PICK B : B = m + 1 .. m + b
  OBVIOUS
<1>3. IsFiniteSet(A) /\ Cardinality(A) = a
  BY <1>1, FS_Interval
<1>4. IsFiniteSet(B) /\ Cardinality(B) = b
  <2>1. m + 1 \in Int /\ m + b \in Int
    OBVIOUS
  <2>2. IsFiniteSet(B) /\ Cardinality(B) = IF m + 1 > m + b THEN 0 ELSE m + b - (m + 1) + 1
    BY <1>2, <2>1, FS_Interval
  <2> QED BY <2>2
<1>5. A \cap B = {}
  BY <1>1, <1>2
<1>6. Cardinality(A \cap B) = 0
  BY <1>5, FS_EmptySet
<1>7. Cardinality(A \cup B) = Cardinality(A) + Cardinality(B) - Cardinality(A \cap B)
  BY <1>3, <1>4, FS_Union
<1> QED BY <1>1, <1>2, <1>3, <1>4, <1>6, <1>7

\* All groups but the ones that are elided; and the "::" is where they were.
LEMMA ElidedSpells ==
    ASSUME NEW v \in Addresses, NEW f \in 1 .. 8, NEW l \in f .. 8
    PROVE  /\ Spelled(Elided(v, f, l)) = 8 - (l - f + 1)
           /\ f \in Empties(Elided(v, f, l))
           /\ \A i \in Empties(Elided(v, f, l)) : f <= i
<1>1. PICK s : s = Elided(v, f, l)
  OBVIOUS
<1>2. PICK n : n = After(v, l)
  OBVIOUS
<1>3. PICK k : k = Cut(v, l + 1)
  OBVIOUS
<1>4. PICK m : m = Middle(f)
  OBVIOUS
<1>5. l \in 1 .. 8
  OBVIOUS
<1>6. k \in {0, 1} /\ n \in Nat /\ k <= n /\ n = 8 - l - k
  BY <1>2, <1>3, <1>5, AfterIs, Zenon
<1>7. /\ s \in Seq(Tokens) /\ Len(s) = m + (IF n = 0 THEN 1 ELSE n)
      /\ \A i \in 1 .. f - 1 : s[i].kind = "hex"
      /\ f = 1 => s[1] = Empty
      /\ s[m] = Empty
      /\ n = 0 => s[m + 1] = Empty
      /\ \A i \in 1 .. n - k : s[m + i].kind = "hex"
      /\ k = 1 => s[m + n].kind = "dotted"
  <2>1. PICK e : e = Empty
    OBVIOUS
  <2>2. PICK q : q = Dotted(v[7] \o v[8])
    OBVIOUS
  <2>3. /\ s \in Seq(Tokens) /\ Len(s) = m + (IF n = 0 THEN 1 ELSE n)
        /\ \A i \in 1 .. f - 1 : s[i] = Hex(v[i])
        /\ f = 1 => s[1] = e
        /\ s[m] = e
        /\ n = 0 => s[m + 1] = e
        /\ \A i \in 1 .. n - k : s[m + i] = Hex(v[l + i])
        /\ k = 1 => s[m + n] = q
    BY <1>1, <1>2, <1>3, <1>4, <2>1, <2>2, ElidedIs
  <2>4. q.kind = "dotted" /\ \A g : Hex(g).kind = "hex"
    BY <2>2, Kinds
  <2> QED BY <2>1, <2>3, <2>4
<1>8. m = IF f = 1 THEN 2 ELSE f
  BY <1>4 DEF Middle
<1>9. /\ s[m].kind = "empty"
      /\ f = 1 => s[1].kind = "empty"
      /\ n = 0 => s[m + 1].kind = "empty"
  BY <1>7, Kinds
<1>10. ASSUME NEW i \in 1 .. Len(s)
       PROVE  \/ i \in 1 .. f - 1
              \/ f = 1 /\ i = 1
              \/ i = m
              \/ n = 0 /\ i = m + 1
              \/ \E j \in 1 .. n - k : i = m + j
              \/ k = 1 /\ i = m + n
  <2>1. CASE i > m /\ i - m <= n - k
    <3>1. i - m \in 1 .. n - k /\ i = m + (i - m)
      BY <1>6, <1>8, <2>1
    <3> QED BY <3>1
  <2>2. CASE i > m /\ ~(i - m <= n - k)
    <3>1. m \in Nat /\ Len(s) = m + (IF n = 0 THEN 1 ELSE n)
      BY <1>7, <1>8
    <3>2. CASE n = 0
      BY <1>6, <2>2, <3>1, <3>2
    <3>3. CASE n # 0
      BY <1>6, <2>2, <3>1, <3>3
    <3> QED BY <3>2, <3>3
  <2>3. CASE ~(i > m)
    <3>1. i <= m /\ i >= 1
      BY <1>8, <2>3
    <3> QED BY <1>8, <3>1
  <2> QED BY <2>1, <2>2, <2>3
<1>11. OfKind(s, "hex") = (1 .. f - 1) \cup (m + 1 .. m + (n - k))
  <2>1. \A i : i \in OfKind(s, "hex") <=> i \in 1 .. Len(s) /\ s[i].kind = "hex"
    BY <1>7, OfKindFinite
  <2>2. ASSUME NEW i \in OfKind(s, "hex") PROVE i \in (1 .. f - 1) \cup (m + 1 .. m + (n - k))
    <3>1. i \in 1 .. Len(s) /\ s[i].kind = "hex"
      BY <2>1
    <3>2. i \in 1 .. f - 1 \/ \E j \in 1 .. n - k : i = m + j
      BY <1>7, <1>9, <1>10, <3>1
    <3> QED BY <1>6, <1>8, <3>2
  <2>3. ASSUME NEW i \in 1 .. f - 1 PROVE i \in OfKind(s, "hex")
    <3>1. i \in 1 .. Len(s)
      BY <1>6, <1>7, <1>8
    <3> QED BY <1>7, <2>1, <3>1
  <2>4. ASSUME NEW i \in m + 1 .. m + (n - k) PROVE i \in OfKind(s, "hex")
    <3>1. m \in Nat /\ n >= 1 /\ i <= m + n
      BY <1>6, <1>8
    <3>2. Len(s) = m + n
      BY <1>7, <3>1
    <3>3. i \in 1 .. Len(s) /\ i - m \in 1 .. n - k /\ m + (i - m) = i
      BY <1>6, <3>1, <3>2
    <3> QED BY <1>7, <2>1, <3>3
  <2> QED BY <2>2, <2>3, <2>4
<1>12. Cardinality(OfKind(s, "hex")) = f - 1 + (n - k)
  <2>1. f - 1 \in Nat /\ m \in Nat /\ n - k \in Nat /\ f - 1 <= m
    BY <1>6, <1>8
  <2> QED BY <1>11, <2>1, TwoIntervals
<1>13. Cardinality(OfKind(s, "dotted")) = k
  <2>1. \A i : i \in OfKind(s, "dotted") <=> i \in 1 .. Len(s) /\ s[i].kind = "dotted"
    BY <1>7, OfKindFinite
  <2>2. \A i \in OfKind(s, "dotted") : k = 1 /\ i = m + n
    BY <1>7, <1>9, <1>10, <2>1
  <2>3. CASE k = 0
    <3>1. OfKind(s, "dotted") = {}
      BY <2>2, <2>3
    <3> QED BY <2>3, <3>1, FS_EmptySet
  <2>4. CASE k = 1
    <3>1. m + n \in 1 .. Len(s)
      BY <1>6, <1>7, <1>8, <2>4
    <3>2. OfKind(s, "dotted") = {m + n}
      BY <1>7, <2>1, <2>2, <2>4, <3>1
    <3> QED BY <2>4, <3>2, OneEmpty
  <2> QED BY <1>6, <2>3, <2>4
<1>14. Spelled(s) = 8 - (l - f + 1)
  <2>1. Spelled(s) = f - 1 + (n - k) + 2 * k
    BY <1>12, <1>13, SpelledIs
  <2> QED BY <1>6, <2>1
<1>15. \A i : i \in Empties(s) <=> i \in 1 .. Len(s) /\ s[i] = Empty
  BY <1>7, EmptiesIs
<1>16. f \in Empties(s)
  <2>1. f \in 1 .. Len(s) /\ s[f] = Empty
    BY <1>6, <1>7, <1>8
  <2> QED BY <1>15, <2>1
<1>17. ASSUME NEW i \in Empties(s) PROVE f <= i
  <2>1. i \in 1 .. Len(s) /\ s[i].kind = "empty"
    BY <1>15, Kinds
  <2>2. ~(i \in 1 .. f - 1)
    BY <1>7, <2>1
  <2> QED BY <1>7, <2>1, <2>2
<1> QED BY <1>1, <1>14, <1>16, <1>17

LEMMA CanonicalHolds == IInv => Canonical
<1> SUFFICES ASSUME IInv, ip.type = "V6" PROVE Canonical
  BY DEF Canonical
<1>1. ip # None
  BY Addressed
<1>2. ipString = buildIPString(ip) /\ IsAddress(ip)
  BY <1>1 DEF IInv, TypeOK
<1>3. PICK v \in Addresses : ip = V6(v)
  BY <1>2, Addressed DEF IsAddress
<1>4. ip.ipv6 = v /\ ipString = buildIPV6String(v)
  BY <1>2, <1>3, Addressed, BuildIs
<1>5. CASE ZeroRuns(v) = {}
  <2>1. PICK s : s = buildIPV6String(v)
    OBVIOUS
  <2>2. Empties(s) = {}
    BY <1>5, <2>1, ShownHex, ReadBackHex
  <2> QED BY <1>4, <1>5, <2>1, <2>2 DEF Canonical
<1>6. CASE ZeroRuns(v) # {}
  <2>1. PICK r \in ZeroRuns(v) : r = Longest(ZeroRuns(v))
    BY <1>6, LongestIs
  <2>2. \A x \in ZeroRuns(v) :
            Size(r) > Size(x) \/ (Size(r) = Size(x) /\ r.first <= x.first)
    BY <1>6, <2>1, LongestIs
  <2>3. \A x \in ZeroRuns(v) :
            /\ x.first \in 1 .. 8 /\ x.last \in x.first .. 8
            /\ Size(x) = x.last - x.first + 1 /\ Size(x) \in 2 .. 8
    BY RunIs
  <2>4. \A x \in ZeroRuns(v) :
            /\ Spelled(Elided(v, x.first, x.last)) = 8 - Size(x)
            /\ x.first \in Empties(Elided(v, x.first, x.last))
            /\ \A i \in Empties(Elided(v, x.first, x.last)) : x.first <= i
    BY <2>3, ElidedSpells
  <2>5. ipString = Elided(v, r.first, r.last)
    BY <1>4, <1>6, <2>1, ShownElided
  <2>6. ASSUME NEW x \in ZeroRuns(v), NEW other, other = Elided(v, x.first, x.last)
        PROVE  \/ Spelled(ipString) < Spelled(other)
               \/ /\ Spelled(ipString) = Spelled(other)
                  /\ \A i \in Empties(other) : \E j \in Empties(ipString) : j <= i
    <3>1. Spelled(ipString) = 8 - Size(r) /\ Spelled(other) = 8 - Size(x)
      BY <2>4, <2>5, <2>6
    <3>2. CASE Size(r) > Size(x)
      BY <2>3, <3>1, <3>2
    <3>3. CASE Size(r) = Size(x) /\ r.first <= x.first
      <4>1. ASSUME NEW i \in Empties(other) PROVE r.first \in Empties(ipString) /\ r.first <= i
        <5>1. other \in Seq(Tokens) /\ i \in Nat /\ x.first <= i
          <6>1. other \in Seq(Tokens)
            BY <2>3, <2>6, ElidedIs
          <6>2. i \in Nat
            BY <6>1, EmptiesIs, LenProperties
          <6> QED BY <2>4, <2>6, <6>1, <6>2
        <5>2. r.first \in Empties(ipString)
          BY <2>4, <2>5
        <5>3. r.first \in 1 .. 8 /\ x.first \in 1 .. 8
          BY <2>3
        <5> QED BY <3>3, <5>1, <5>2, <5>3
      <4> QED BY <3>1, <3>3, <4>1
    <3> QED BY <2>2, <3>2, <3>3
  <2>7. \A x \in ZeroRuns(v) :
            LET other == Elide(Elements(v, 1, x.first - 1), Ending(v, x.last + 1))
            IN  \/ Spelled(ipString) < Spelled(other)
                \/ /\ Spelled(ipString) = Spelled(other)
                   /\ \A i \in Empties(other) : \E j \in Empties(ipString) : j <= i
    BY <2>6, Zenon DEF Elided
  <2> QED BY <1>4, <1>6, <2>7, Zenon DEF Canonical
<1> QED BY <1>5, <1>6

\* buildIPV6String displays an address as short as it can be, spells out a
\* single zero, and of several longest sequences of zeros elides the first.
THEOREM Shortest == Spec => []Canonical
  BY CanonicalHolds, InvInit, InvStep, PTL DEF Spec

-----------------------------------------------------------------------------
(* What an accepted string means.                                           *)

\* What is trimmed spells nothing, and trimming adds nothing.
LEMMA SpelledSub ==
    ASSUME NEW s \in Seq(Tokens), NEW t \in Seq(Tokens), NEW o \in {0, 1},
           \A i \in 1 .. Len(t) : i + o \in 1 .. Len(s) /\ t[i] = s[i + o]
    PROVE  Spelled(t) \in Nat /\ Spelled(t) <= Spelled(s)
<1>1. ASSUME NEW kind
      PROVE  Cardinality(OfKind(t, kind)) <= Cardinality(OfKind(s, kind))
  <2>1. PICK T : T = OfKind(t, kind)
    OBVIOUS
  <2>2. PICK S : S = OfKind(s, kind)
    OBVIOUS
  <2>3. PICK f : f = [i \in T |-> i + o]
    OBVIOUS
  <2>4. /\ \A i : i \in T <=> i \in 1 .. Len(t) /\ t[i].kind = kind
        /\ \A i : i \in S <=> i \in 1 .. Len(s) /\ s[i].kind = kind
        /\ IsFiniteSet(S)
    <3>1. \A i : i \in T <=> i \in 1 .. Len(t) /\ t[i].kind = kind
      BY <2>1, OfKindFinite
    <3>2. IsFiniteSet(S) /\ \A i : i \in S <=> i \in 1 .. Len(s) /\ s[i].kind = kind
      BY <2>2, OfKindFinite
    <3> QED BY <3>1, <3>2
  <2>5. \A i \in T : i + o \in S /\ i \in Int
    <3> TAKE i \in T
    <3>1. i \in 1 .. Len(t) /\ t[i].kind = kind
      BY <2>4
    <3>2. i + o \in 1 .. Len(s) /\ t[i] = s[i + o]
      BY <3>1
    <3> QED BY <2>4, <3>1, <3>2
  <2>6. f \in Injection(T, S)
    <3>1. f \in [T -> S]
      BY <2>3, <2>5
    <3>2. \A i, j \in T : f[i] = f[j] => i = j
      BY <2>3, <2>5
    <3> QED BY <3>1, <3>2 DEF Injection, IsInjective
  <2>7. Cardinality(T) <= Cardinality(S)
    BY <2>4, <2>6, FS_Injection
  <2> QED BY <2>1, <2>2, <2>7
<1>2. /\ Cardinality(OfKind(t, "hex")) \in Nat /\ Cardinality(OfKind(s, "hex")) \in Nat
      /\ Cardinality(OfKind(t, "dotted")) \in Nat /\ Cardinality(OfKind(s, "dotted")) \in Nat
  BY OfKindFinite
<1>3. /\ Cardinality(OfKind(t, "hex")) <= Cardinality(OfKind(s, "hex"))
      /\ Cardinality(OfKind(t, "dotted")) <= Cardinality(OfKind(s, "dotted"))
  BY <1>1
<1>4. /\ Spelled(t) = Cardinality(OfKind(t, "hex")) + 2 * Cardinality(OfKind(t, "dotted"))
      /\ Spelled(s) = Cardinality(OfKind(s, "hex")) + 2 * Cardinality(OfKind(s, "dotted"))
  BY SpelledIs
<1> QED BY <1>2, <1>3, <1>4

\* The tokens beside a "::" are groups, but for an IPV4 that ends the string.
LEMMA SpelledAround ==
    ASSUME NEW t \in Seq(Tokens), SanityChecks(t), NEW e \in 1 .. Len(t), Empties(t) = {e}
    PROVE  Spelled(t) = Len(t) - 1 + Four(t)
<1>1. PICK n \in Nat : n = Len(t)
  BY LenProperties
<1>2. PICK d \in {0, 1} : d = Four(t)
  BY DEF Four
<1>3. \A i \in 1 .. n : t[i].kind = "dotted" <=> d = 1 /\ i = n
  BY <1>1, <1>2, DottedIsLast DEF Four
<1>4. \A i \in 1 .. n : /\ t[i].kind \in {"empty", "hex", "dotted"}
                        /\ t[i].kind = "empty" <=> i = e
  <2> TAKE i \in 1 .. n
  <2>1. t[i] \in Tokens
    BY <1>1, ElementOfSeq
  <2>2. t[i] = Empty <=> i = e
    BY <1>1, EmptiesIs
  <2> QED BY <2>1, <2>2, TokenElim
<1>5. d = 1 => e # n
  BY <1>1, <1>3, <1>4
<1>6. e \in 1 .. n
  BY <1>1
<1>7. OfKind(t, "hex") = (1 .. e - 1) \cup (e + 1 .. e + (n - e - d))
  <2>1. \A i : i \in OfKind(t, "hex") <=> i \in 1 .. n /\ t[i].kind = "hex"
    BY <1>1, OfKindFinite
  <2>2. \A i : i \in OfKind(t, "hex") <=> i \in 1 .. n /\ i # e /\ ~(d = 1 /\ i = n)
    BY <1>3, <1>4, <2>1
  <2>3. \A i : i \in 1 .. n /\ i # e /\ ~(d = 1 /\ i = n) <=>
               i \in (1 .. e - 1) \cup (e + 1 .. e + (n - e - d))
    BY <1>5, <1>6
  <2> QED BY <2>2, <2>3
<1>8. Cardinality(OfKind(t, "hex")) = e - 1 + (n - e - d)
  <2>1. PICK b \in Nat : b = n - e - d
    BY <1>5, <1>6
  <2>2. PICK a \in Nat : a = e - 1
    BY <1>6
  <2>3. e \in Nat /\ a <= e
    BY <1>6, <2>2
  <2>4. Cardinality((1 .. a) \cup (e + 1 .. e + b)) = a + b
    BY <2>3, TwoIntervals
  <2> QED BY <1>7, <2>1, <2>2, <2>4
<1>9. Cardinality(OfKind(t, "dotted")) = d
  <2>1. \A i : i \in OfKind(t, "dotted") <=> i \in 1 .. n /\ d = 1 /\ i = n
    BY <1>1, <1>3, OfKindFinite
  <2>2. CASE d = 0
    <3>1. OfKind(t, "dotted") = {}
      BY <2>1, <2>2
    <3> QED BY <2>2, <3>1, FS_EmptySet
  <2>3. CASE d = 1
    <3>1. OfKind(t, "dotted") = {n}
      BY <1>6, <2>1, <2>3
    <3> QED BY <2>3, <3>1, OneEmpty
  <2> QED BY <2>2, <2>3
<1>10. Spelled(t) = e - 1 + (n - e - d) + 2 * d
  BY <1>8, <1>9, SpelledIs
<1> QED BY <1>1, <1>2, <1>6, <1>10

LEMMA GroupsOfIs ==
    ASSUME NEW s \in Seq(Tokens), FourBytes(s),
           \A i \in 1 .. Len(s) : s[i] # Empty,
           \A i \in 1 .. Len(s) : s[i].kind = "dotted" => i = Len(s)
    PROVE  /\ GroupsOf(s) \in Seq(Pairs) /\ Len(GroupsOf(s)) = Len(s) + Four(s)
           /\ \A i \in 1 .. Len(s) - Four(s) : GroupsOf(s)[i] = s[i].group
           /\ HasDotted(s) => /\ GroupsOf(s)[Len(s)] = SubSeq(Last(s).bytes, 1, 2)
                              /\ GroupsOf(s)[Len(s) + 1] = SubSeq(Last(s).bytes, 3, 4)
<1>1. PICK n \in Nat : n = Len(s)
  BY LenProperties
<1>2. \A i \in 1 .. n : s[i] \in Tokens
  BY <1>1, ElementOfSeq
<1>3. \A i \in 1 .. n : s[i].kind # "dotted" => s[i].group \in Pairs
  BY <1>1, <1>2, TokenElim
<1>4. CASE HasDotted(s)
  <2>1. n >= 1 /\ Last(s) = s[n] /\ s[n].kind = "dotted"
    <3>1. n # 0
      BY <1>1, <1>4, EmptySeq DEF HasDotted
    <3> QED BY <1>1, <1>4, <3>1 DEF HasDotted, Last
  <2>2. PICK b : b = Last(s).bytes
    OBVIOUS
  <2>3. b \in Seq(Byte) /\ Len(b) = 4
    BY <1>2, <1>4, <2>1, <2>2, TokenElim DEF FourBytes
  <2>4. PICK g \in Pairs : g = SubSeq(b, 1, 2)
    BY <2>3, HalvesOf
  <2>5. PICK h \in Pairs : h = SubSeq(b, 3, 4)
    BY <2>3, HalvesOf
  <2>6. PICK a : a = [i \in 1 .. n - 1 |-> s[i].group]
    OBVIOUS
  <2>7. /\ a \in Seq(Pairs) /\ Len(a) = n - 1
        /\ \A i \in 1 .. n - 1 : a[i] = s[i].group
    <3>1. \A i \in 1 .. n - 1 : s[i].group \in Pairs
      <4> TAKE i \in 1 .. n - 1
      <4>1. i \in 1 .. n /\ i # n
        OBVIOUS
      <4> QED BY <1>1, <1>3, <4>1
    <3>2. a \in [1 .. n - 1 -> Pairs] /\ n - 1 \in Nat
      BY <2>1, <2>6, <3>1
    <3> QED BY <2>6, <3>2, Tuple
  <2>8. PICK c : c = <<g, h>>
    OBVIOUS
  <2>9. c \in Seq(Pairs) /\ Len(c) = 2 /\ c[1] = g /\ c[2] = h
    BY <2>8
  <2>10. PICK x : x = a \o c
    OBVIOUS
  <2>11. /\ x \in Seq(Pairs) /\ Len(x) = Len(a) + Len(c)
         /\ \A i \in 1 .. Len(a) : x[i] = a[i]
         /\ \A i \in 1 .. Len(c) : x[Len(a) + i] = c[i]
    <3>1. a \in Seq(Pairs) /\ c \in Seq(Pairs)
      BY <2>7, <2>9
    <3>2. /\ a \o c \in Seq(Pairs) /\ Len(a \o c) = Len(a) + Len(c)
          /\ \A i \in 1 .. Len(a) : (a \o c)[i] = a[i]
          /\ \A i \in 1 .. Len(c) : (a \o c)[Len(a) + i] = c[i]
      BY ONLY <3>1, Joined
    <3> QED BY ONLY <2>10, <3>2
  <2>12. /\ Len(x) = n + 1
         /\ \A i \in 1 .. n - 1 : x[i] = s[i].group
         /\ x[n] = g /\ x[n + 1] = h
    <3>1. 1 \in 1 .. Len(c) /\ 2 \in 1 .. Len(c) /\ Len(a) + 1 = n /\ Len(a) + 2 = n + 1
      BY <2>1, <2>7, <2>9
    <3>2. x[n] = c[1] /\ x[n + 1] = c[2]
      BY <2>11, <3>1
    <3> QED BY <2>7, <2>9, <2>11, <3>1, <3>2
  <2>13. GroupsOf(s) = x
    BY <1>1, <1>4, <2>2, <2>4, <2>5, <2>6, <2>8, <2>10, Zenon DEF GroupsOf
  <2>14. Four(s) = 1
    BY <1>4 DEF Four
  <2> QED BY <1>1, <2>2, <2>4, <2>5, <2>11, <2>12, <2>13, <2>14
<1>5. CASE ~HasDotted(s)
  <2>1. \A i \in 1 .. n : s[i].kind # "dotted"
    <3> SUFFICES ASSUME NEW i \in 1 .. n, s[i].kind = "dotted" PROVE FALSE
      OBVIOUS
    <3>1. i = n /\ n # 0
      BY <1>1
    <3>2. s # <<>>
      BY <1>1, <3>1, EmptySeq
    <3> QED BY <1>1, <1>5, <3>1, <3>2 DEF HasDotted, Last
  <2>2. GroupsOf(s) = [i \in 1 .. n |-> s[i].group]
    BY <1>1, <1>5, LenProperties DEF GroupsOf
  <2>3. GroupsOf(s) \in [1 .. n -> Pairs]
    BY <1>3, <2>1, <2>2
  <2>4. GroupsOf(s) \in Seq(Pairs) /\ Len(GroupsOf(s)) = n
    BY <2>3, Tuple
  <2>5. Four(s) = 0
    BY <1>5 DEF Four
  <2> QED BY <1>1, <1>5, <2>2, <2>4, <2>5
<1> QED BY <1>4, <1>5

LEMMA MeansWithout ==
    ASSUME NEW t \in Seq(Tokens), SanityChecks(t), FourBytes(t), Empties(t) = {}
    PROVE  parseIPV6(t) = V6(Meaning(t))
<1>1. PICK w : w = GroupsOf(t)
  OBVIOUS
<1>2. Meaning(t) = w
  BY <1>1 DEF Meaning
<1>3. PICK d \in {0, 1} : d = Four(t)
  BY DEF Four
<1>4. Len(t) = 8 - d /\ \A i \in 1 .. Len(t) : PackPosition(t, i) = i - 1
  BY <1>3, PlacesWithout
<1>5. \A i \in 1 .. Len(t) : t[i] # Empty /\ (t[i].kind = "dotted" <=> d = 1 /\ i = Len(t))
  BY <1>3, EmptiesIs, DottedIsLast DEF Four
<1>6. /\ w \in Seq(Pairs) /\ Len(w) = 8
      /\ \A i \in 1 .. 8 - 2 * d : w[i] = t[i].group
      /\ d = 1 => /\ w[7] = SubSeq(t[7].bytes, 1, 2)
                  /\ w[8] = SubSeq(t[7].bytes, 3, 4)
  <2>1. /\ w \in Seq(Pairs) /\ Len(w) = Len(t) + d
        /\ \A i \in 1 .. Len(t) - d : w[i] = t[i].group
        /\ HasDotted(t) => /\ w[Len(t)] = SubSeq(Last(t).bytes, 1, 2)
                           /\ w[Len(t) + 1] = SubSeq(Last(t).bytes, 3, 4)
    BY <1>1, <1>3, <1>5, GroupsOfIs
  <2>2. d = 1 => HasDotted(t) /\ Last(t) = t[7]
    BY <1>3, <1>4 DEF Four, Last
  <2>3. CASE d = 0
    BY <1>4, <2>1, <2>3
  <2>4. CASE d = 1
    BY <1>4, <2>1, <2>2, <2>4
  <2> QED BY <2>3, <2>4
<1>7. w \in Addresses
  BY <1>6, LenProperties DEF Addresses
<1>8. \A i \in 1 .. Len(t) : t[i].kind \in {"empty", "hex", "dotted"} /\ t[i].kind # "empty"
  BY <1>5, ElementOfSeq, TokenElim
<1>9. ASSUME NEW i \in 1 .. Len(t), t[i].kind = "hex"
      PROVE  PackPosition(t, i) \in 0 .. 7 /\ w[PackPosition(t, i) + 1] = t[i].group
  <2>1. i \in 1 .. 8 - 2 * d
    BY <1>4, <1>5, <1>9
  <2>2. PackPosition(t, i) = i - 1 /\ i - 1 \in 0 .. 7 /\ i - 1 + 1 = i
    BY <1>4, <2>1
  <2> QED BY <1>6, <2>1, <2>2
<1>10. ASSUME NEW i \in 1 .. Len(t), t[i].kind = "dotted"
       PROVE  /\ PackPosition(t, i) = 6
              /\ w[7] = SubSeq(t[i].bytes, 1, 2) /\ w[8] = SubSeq(t[i].bytes, 3, 4)
  <2>1. d = 1 /\ i = 7
    BY <1>4, <1>5, <1>10
  <2> QED BY <1>4, <1>6, <2>1
<1>11. ASSUME NEW g \in 1 .. 8
       PROVE  \/ \E i \in 1 .. Len(t) : t[i].kind = "hex" /\ PackPosition(t, i) + 1 = g
              \/ \E i \in 1 .. Len(t) : t[i].kind = "dotted" /\ g \in {7, 8}
  <2>1. CASE g \in 1 .. 8 - 2 * d
    <3>1. g \in 1 .. Len(t) /\ ~(d = 1 /\ g = Len(t)) /\ g - 1 + 1 = g
      BY <1>4, <2>1
    <3>2. t[g].kind = "hex" /\ PackPosition(t, g) = g - 1
      BY <1>4, <1>5, <1>8, <3>1
    <3> QED BY <3>1, <3>2
  <2>2. CASE ~(g \in 1 .. 8 - 2 * d)
    <3>1. d = 1 /\ g \in {7, 8} /\ 7 \in 1 .. Len(t) /\ t[7].kind = "dotted"
      BY <1>4, <1>5, <2>2
    <3> QED BY <3>1
  <2> QED BY <2>1, <2>2
<1> QED BY <1>2, <1>7, <1>9, <1>10, <1>11, ReadAs

LEMMA MeaningAround ==
    ASSUME NEW t, NEW e, Empties(t) = {e}
    PROVE  Meaning(t) = GroupsOf(SubSeq(t, 1, e - 1))
                          \o [i \in 1 .. 8 - Spelled(t) |-> Zero]
                          \o GroupsOf(SubSeq(t, e + 1, Len(t)))
<1>1. Empties(t) # {}
  OBVIOUS
<1>2. (CHOOSE i \in Empties(t) : TRUE) = e
  OBVIOUS
<1> QED BY <1>1, <1>2, Zenon DEF Meaning

LEMMA MeansAround ==
    ASSUME NEW t \in Seq(Tokens), SanityChecks(t), FourBytes(t),
           NEW e \in 1 .. Len(t), Empties(t) = {e}, Spelled(t) <= 8
    PROVE  parseIPV6(t) = V6(Meaning(t))
<1>1. PICK n \in Nat : n = Len(t)
  BY LenProperties
<1>2. PICK d \in {0, 1} : d = Four(t)
  BY DEF Four
<1>3. PICK z \in Nat : z = 8 - Spelled(t)
  <2>1. Spelled(t) \in Nat
    <3>1. \A i \in 1 .. Len(t) : i + 0 \in 1 .. Len(t) /\ t[i] = t[i + 0]
      BY <1>1
    <3>2. 0 \in {0, 1}
      OBVIOUS
    <3> QED BY <3>1, <3>2, SpelledSub
  <2> QED BY <2>1
<1>4. e \in 1 .. n /\ z = 9 - n - d
  BY <1>1, <1>2, <1>3, SpelledAround
<1>5. \A i \in 1 .. n : /\ t[i].kind \in {"empty", "hex", "dotted"}
                        /\ t[i].kind = "empty" <=> i = e
                        /\ t[i] = Empty <=> i = e
                        /\ t[i].kind = "dotted" <=> d = 1 /\ i = n
  <2> TAKE i \in 1 .. n
  <2>1. t[i] \in Tokens
    BY <1>1, ElementOfSeq
  <2>2. t[i] = Empty <=> i = e
    BY <1>1, EmptiesIs
  <2>3. t[i].kind = "dotted" <=> d = 1 /\ i = n
    BY <1>1, <1>2, DottedIsLast DEF Four
  <2> QED BY <2>1, <2>2, <2>3, TokenElim
<1>6. d = 1 => e # n
  BY <1>4, <1>5
<1>7. PICK q : q = Last(t).bytes
  OBVIOUS
<1>8. d = 1 => Last(t) = t[n] /\ q = t[n].bytes /\ Len(q) = 4
  BY <1>1, <1>2, <1>7 DEF Four, FourBytes, Last
\* The tokens before the "::" and after it.
<1>9. PICK s1 : s1 = SubSeq(t, 1, e - 1)
  OBVIOUS
<1>10. PICK s2 : s2 = SubSeq(t, e + 1, n)
  OBVIOUS
<1>11. /\ s1 \in Seq(Tokens) /\ Len(s1) = e - 1
       /\ \A i \in 1 .. e - 1 : s1[i] = t[i]
  <2>1. PICK m \in Int : m = e - 1
    BY <1>4
  <2>2. 1 \in Int /\ 1 <= 1 /\ 1 <= m + 1 /\ m <= Len(t)
    BY <1>1, <1>4, <2>1
  <2>3. /\ s1 \in Seq(Tokens) /\ Len(s1) = m - 1 + 1
        /\ \A i \in 1 .. m - 1 + 1 : s1[i] = t[1 + i - 1]
    BY <1>9, <2>1, <2>2, Sliced
  <2> QED BY <1>4, <2>1, <2>3
<1>12. /\ s2 \in Seq(Tokens) /\ Len(s2) = n - e
       /\ \A i \in 1 .. n - e : s2[i] = t[e + i]
  <2>1. PICK m \in Int : m = e + 1
    BY <1>4
  <2>2. 1 <= m /\ m <= n + 1 /\ n <= Len(t) /\ n \in Int
    BY <1>1, <1>4, <2>1
  <2>3. /\ s2 \in Seq(Tokens) /\ Len(s2) = n - m + 1
        /\ \A i \in 1 .. n - m + 1 : s2[i] = t[m + i - 1]
    BY <1>10, <2>1, <2>2, Sliced
  <2> QED BY <1>4, <2>1, <2>3
<1>13. ~HasDotted(s1)
  <2> SUFFICES ASSUME HasDotted(s1) PROVE FALSE
    OBVIOUS
  <2>1. s1 # <<>> /\ s1[Len(s1)].kind = "dotted"
    BY DEF HasDotted, Last
  <2>2. e - 1 # 0
    BY <1>11, <2>1, EmptySeq
  <2>3. e - 1 \in 1 .. e - 1 /\ e - 1 \in 1 .. n /\ e - 1 # n
    BY <1>4, <2>2
  <2> QED BY <1>5, <1>11, <2>1, <2>3
<1>14. HasDotted(s2) <=> d = 1
  <2>1. CASE e = n
    <3>1. s2 = <<>>
      BY <1>4, <1>12, <2>1, EmptySeq
    <3> QED BY <1>6, <2>1, <3>1 DEF HasDotted
  <2>2. CASE e # n
    <3>1. n - e \in 1 .. n - e /\ e + (n - e) = n /\ n \in 1 .. n
      BY <1>4, <2>2
    <3>2. s2 # <<>>
      BY <1>12, <3>1, EmptySeq
    <3>3. s2[Len(s2)] = t[n]
      BY <1>12, <3>1
    <3> QED BY <1>5, <3>1, <3>2, <3>3 DEF HasDotted, Last
  <2> QED BY <2>1, <2>2
<1>15. d = 1 => Last(s2) = t[n]
  <2> SUFFICES ASSUME d = 1 PROVE Last(s2) = t[n]
    OBVIOUS
  <2>1. n - e \in 1 .. n - e /\ e + (n - e) = n
    BY <1>4, <1>6
  <2> QED BY <1>12, <2>1 DEF Last
\* What they spell, and the groups between.
<1>16. PICK a : a = GroupsOf(s1)
  OBVIOUS
<1>17. PICK c : c = GroupsOf(s2)
  OBVIOUS
<1>18. PICK b : b = [i \in 1 .. z |-> Zero]
  OBVIOUS
<1>19. /\ a \in Seq(Pairs) /\ Len(a) = e - 1
       /\ \A i \in 1 .. e - 1 : a[i] = t[i].group
  <2>1. \A i \in 1 .. Len(s1) : s1[i] # Empty /\ s1[i].kind # "dotted"
    <3> TAKE i \in 1 .. Len(s1)
    <3>1. i \in 1 .. e - 1 /\ i \in 1 .. n /\ i # e /\ i # n
      BY <1>4, <1>11
    <3> QED BY <1>5, <1>11, <3>1
  <2>2. FourBytes(s1) /\ Four(s1) = 0
    BY <1>13 DEF FourBytes, Four
  <2>3. /\ a \in Seq(Pairs) /\ Len(a) = Len(s1) + 0
        /\ \A i \in 1 .. Len(s1) - 0 : a[i] = s1[i].group
    BY <1>11, <1>16, <2>1, <2>2, GroupsOfIs
  <2> QED BY <1>4, <1>11, <2>3
<1>20. /\ c \in Seq(Pairs) /\ Len(c) = n - e + d
       /\ \A i \in 1 .. n - e - d : c[i] = t[e + i].group
       /\ d = 1 => /\ c[n - e] = SubSeq(q, 1, 2)
                   /\ c[n - e + 1] = SubSeq(q, 3, 4)
  <2>1. \A i \in 1 .. Len(s2) : s2[i] # Empty /\ (s2[i].kind = "dotted" => i = Len(s2))
    <3> TAKE i \in 1 .. Len(s2)
    <3>1. i \in 1 .. n - e /\ e + i \in 1 .. n /\ e + i # e /\ (e + i = n => i = n - e)
      BY <1>4, <1>12
    <3> QED BY <1>5, <1>12, <3>1
  <2>2. FourBytes(s2) /\ Four(s2) = d
    BY <1>8, <1>14, <1>15 DEF FourBytes, Four
  <2>3. /\ c \in Seq(Pairs) /\ Len(c) = Len(s2) + d
        /\ \A i \in 1 .. Len(s2) - d : c[i] = s2[i].group
        /\ HasDotted(s2) => /\ c[Len(s2)] = SubSeq(Last(s2).bytes, 1, 2)
                            /\ c[Len(s2) + 1] = SubSeq(Last(s2).bytes, 3, 4)
    BY <1>12, <1>17, <2>1, <2>2, GroupsOfIs
  <2>4. \A i \in 1 .. n - e - d : i \in 1 .. n - e
    BY <1>4
  <2> QED BY <1>8, <1>12, <1>14, <1>15, <2>3, <2>4
<1>21. b \in Seq(Pairs) /\ Len(b) = z /\ \A i \in 1 .. z : b[i] = Zero
  <2>1. b \in [1 .. z -> Pairs]
    BY <1>18, ZeroPair
  <2> QED BY <1>18, <2>1, Tuple
<1>22. PICK w : w = a \o b \o c
  OBVIOUS
<1>23. Meaning(t) = w
  BY <1>1, <1>3, <1>9, <1>10, <1>16, <1>17, <1>18, <1>22, MeaningAround
<1>24. /\ w \in Seq(Pairs) /\ Len(w) = 8
       /\ \A i \in 1 .. e - 1 : w[i] = t[i].group
       /\ \A i \in e .. e - 1 + z : w[i] = Zero
       /\ \A i \in 1 .. n - e + d : w[e - 1 + z + i] = c[i]
  <2>1. PICK x : x = a \o b
    OBVIOUS
  <2>2. /\ x \in Seq(Pairs) /\ Len(x) = e - 1 + z
        /\ \A i \in 1 .. e - 1 : x[i] = a[i]
        /\ \A i \in 1 .. z : x[e - 1 + i] = b[i]
    <3>1. a \in Seq(Pairs) /\ b \in Seq(Pairs)
      BY <1>19, <1>21
    <3>2. /\ a \o b \in Seq(Pairs) /\ Len(a \o b) = Len(a) + Len(b)
          /\ \A i \in 1 .. Len(a) : (a \o b)[i] = a[i]
          /\ \A i \in 1 .. Len(b) : (a \o b)[Len(a) + i] = b[i]
      BY ONLY <3>1, Joined
    <3> QED BY <1>19, <1>21, <2>1, <3>2
  <2>3. /\ w \in Seq(Pairs) /\ Len(w) = e - 1 + z + (n - e + d)
        /\ \A i \in 1 .. e - 1 + z : w[i] = x[i]
        /\ \A i \in 1 .. n - e + d : w[e - 1 + z + i] = c[i]
    <3>1. x \in Seq(Pairs) /\ c \in Seq(Pairs)
      BY <1>20, <2>2
    <3>2. /\ x \o c \in Seq(Pairs) /\ Len(x \o c) = Len(x) + Len(c)
          /\ \A i \in 1 .. Len(x) : (x \o c)[i] = x[i]
          /\ \A i \in 1 .. Len(c) : (x \o c)[Len(x) + i] = c[i]
      BY ONLY <3>1, Joined
    <3> QED BY <1>20, <1>22, <2>1, <2>2, <3>2
  <2>4. ASSUME NEW i \in 1 .. e - 1 PROVE w[i] = t[i].group
    <3>1. i \in 1 .. e - 1 + z
      BY <1>4
    <3> QED BY <1>19, <2>2, <2>3, <3>1
  <2>5. ASSUME NEW i \in e .. e - 1 + z PROVE w[i] = Zero
    <3>1. i \in 1 .. e - 1 + z /\ i - e + 1 \in 1 .. z /\ e - 1 + (i - e + 1) = i
      BY <1>4
    <3>2. w[i] = x[i] /\ x[i] = b[i - e + 1]
      BY <2>2, <2>3, <3>1
    <3> QED BY <1>21, <3>1, <3>2
  <2> QED BY <1>4, <2>3, <2>4, <2>5
<1>25. w \in Addresses
  BY <1>24, LenProperties DEF Addresses
<1>26. /\ \A i \in 1 .. n - e - d : w[e - 1 + z + i] = t[e + i].group
       /\ d = 1 => w[7] = SubSeq(q, 1, 2) /\ w[8] = SubSeq(q, 3, 4)
  <2>1. ASSUME NEW i \in 1 .. n - e - d PROVE w[e - 1 + z + i] = t[e + i].group
    <3>1. i \in 1 .. n - e + d
      BY <1>4
    <3> QED BY <1>20, <1>24, <3>1
  <2>2. ASSUME d = 1 PROVE w[7] = SubSeq(q, 1, 2) /\ w[8] = SubSeq(q, 3, 4)
    <3>1. /\ n - e \in 1 .. n - e + d /\ n - e + 1 \in 1 .. n - e + d
          /\ e - 1 + z + (n - e) = 7 /\ e - 1 + z + (n - e + 1) = 8
      BY <1>4, <1>6, <2>2
    <3>2. w[7] = c[n - e] /\ w[8] = c[n - e + 1]
      BY <1>24, <3>1
    <3> QED BY <1>20, <2>2, <3>2
  <2> QED BY <2>1, <2>2
\* Where the code packs them.
<1>27. /\ \A i \in 1 .. e - 1 : PackPosition(t, i) = i - 1
       /\ \A i \in 1 .. n - e : PackPosition(t, e + i) = e - 2 + z + i
  <2>1. /\ \A i \in 1 .. e - 1 : PackPosition(t, i) = i - 1
        /\ \A i \in e + 1 .. n : PackPosition(t, i) = i + 7 - n - d
    BY <1>1, <1>2, PlacesAround
  <2>2. ASSUME NEW i \in 1 .. n - e PROVE PackPosition(t, e + i) = e - 2 + z + i
    <3>1. e + i \in e + 1 .. n /\ e + i + 7 - n - d = e - 2 + z + i
      BY <1>4
    <3> QED BY <2>1, <3>1
  <2> QED BY <2>1, <2>2
<1>28. ASSUME NEW i \in 1 .. Len(t), t[i].kind = "hex"
       PROVE  PackPosition(t, i) \in 0 .. 7 /\ w[PackPosition(t, i) + 1] = t[i].group
  <2>1. i \in 1 .. n /\ i # e /\ ~(d = 1 /\ i = n)
    BY <1>1, <1>5, <1>28
  <2>2. CASE i < e
    <3>1. i \in 1 .. e - 1 /\ i - 1 \in 0 .. 7 /\ i - 1 + 1 = i
      BY <1>4, <2>1, <2>2
    <3> QED BY <1>24, <1>27, <3>1
  <2>3. CASE i > e
    <3>1. PICK j \in 1 .. n - e - d : i = e + j
      <4>1. i - e \in 1 .. n - e - d /\ i = e + (i - e)
        BY <1>4, <2>1, <2>3
      <4> QED BY <4>1
    <3>2. /\ j \in 1 .. n - e /\ e - 2 + z + j \in 0 .. 7
          /\ e - 2 + z + j + 1 = e - 1 + z + j
      BY <1>4
    <3>3. PackPosition(t, i) = e - 2 + z + j
      BY <1>27, <3>1, <3>2
    <3>4. w[e - 1 + z + j] = t[i].group
      BY <1>26, <3>1
    <3> QED BY <3>2, <3>3, <3>4
  <2> QED BY <1>4, <2>1, <2>2, <2>3
<1>29. ASSUME NEW i \in 1 .. Len(t), t[i].kind = "dotted"
       PROVE  /\ PackPosition(t, i) = 6
              /\ w[7] = SubSeq(t[i].bytes, 1, 2) /\ w[8] = SubSeq(t[i].bytes, 3, 4)
  <2>1. d = 1 /\ i = n
    BY <1>1, <1>5, <1>29
  <2>2. n - e \in 1 .. n - e /\ e + (n - e) = n /\ e - 2 + z + (n - e) = 6
    BY <1>4, <1>6, <2>1
  <2>3. PackPosition(t, e + (n - e)) = e - 2 + z + (n - e)
    BY <1>27, <2>2
  <2> QED BY <1>8, <1>26, <2>1, <2>2, <2>3
<1>30. ASSUME NEW g \in 1 .. 8
       PROVE  \/ w[g] = Zero
              \/ \E i \in 1 .. Len(t) : t[i].kind = "hex" /\ PackPosition(t, i) + 1 = g
              \/ \E i \in 1 .. Len(t) : t[i].kind = "dotted" /\ g \in {7, 8}
  <2>1. CASE g < e
    <3>1. g \in 1 .. e - 1 /\ g \in 1 .. n /\ g - 1 + 1 = g /\ g # e /\ g # n
      BY <1>4, <2>1
    <3>2. t[g].kind = "hex" /\ PackPosition(t, g) + 1 = g
      BY <1>5, <1>27, <3>1
    <3> QED BY <1>1, <3>1, <3>2
  <2>2. CASE g \in e .. e - 1 + z
    BY <1>24, <2>2
  <2>3. CASE g > e - 1 + z /\ g - (e - 1 + z) <= n - e - d
    <3>1. PICK j \in 1 .. n - e - d : g = e - 1 + z + j
      <4>1. g - (e - 1 + z) \in 1 .. n - e - d /\ g = e - 1 + z + (g - (e - 1 + z))
        BY <1>4, <2>3
      <4> QED BY <4>1
    <3>2. /\ j \in 1 .. n - e /\ e + j \in 1 .. n /\ e + j # e /\ ~(d = 1 /\ e + j = n)
          /\ e - 2 + z + j + 1 = g
      BY <1>4, <3>1
    <3>3. t[e + j].kind = "hex" /\ PackPosition(t, e + j) + 1 = g
      BY <1>5, <1>27, <3>2
    <3> QED BY <1>1, <3>2, <3>3
  <2>4. CASE g > e - 1 + z /\ g - (e - 1 + z) > n - e - d
    <3>1. d = 1 /\ g \in {7, 8}
      BY <1>4, <2>4
    <3>2. n \in 1 .. n /\ t[n].kind = "dotted"
      BY <1>4, <1>5, <3>1
    <3> QED BY <1>1, <3>1, <3>2
  <2>5. \/ g < e \/ g \in e .. e - 1 + z
        \/ g > e - 1 + z /\ g - (e - 1 + z) <= n - e - d
        \/ g > e - 1 + z /\ g - (e - 1 + z) > n - e - d
    BY <1>4
  <2> QED BY <2>1, <2>2, <2>3, <2>4, <2>5, Zenon
<1>31. parseIPV6(t) = V6(w)
  BY <1>25, <1>28, <1>29, <1>30, ReadAs
<1> QED BY <1>23, <1>31

LEMMA MeaningHolds == IInv => MeansWhatItSpells
<1> SUFFICES ASSUME IInv, Len(text) >= 2, Spelled(text) <= 8,
                    NEW t \in Trims(text), parseIPV6(t) # Throws
             PROVE  parseIPV6(t).ipv6 = Meaning(t)
  BY DEF MeansWhatItSpells
<1>1. text \in Seq(Tokens)
  BY DEF IInv, TypeOK
<1>2. t \in Seq(Tokens)
  BY <1>1, TrimsAre
<1>3. SanityChecks(t) /\ FourBytes(t)
  BY ParseUnfold
<1>4. Spelled(t) <= 8
  <2>1. PICK o \in {0, 1} :
            \A i \in 1 .. Len(t) : i + o \in 1 .. Len(text) /\ t[i] = text[i + o]
    BY <1>1, TrimsAre
  <2>2. Spelled(t) \in Nat /\ Spelled(t) <= Spelled(text)
    BY <1>1, <1>2, <2>1, SpelledSub
  <2>3. Spelled(text) \in Nat
    BY <1>1, SpelledIs, OfKindFinite
  <2> QED BY <2>2, <2>3
<1>5. parseIPV6(t) = V6(Meaning(t))
  BY <1>2, <1>3, <1>4, AtMostOneEmpty, MeansWithout, MeansAround
<1> QED BY <1>5, Addressed

\* A string of any length that the constructor accepts means the groups it spells:
\* the ones before the "::" first, the ones after it last, and zeros between.
THEOREM Meant == Spec => []MeansWhatItSpells
  BY MeaningHolds, InvInit, InvStep, PTL DEF Spec

=============================================================================
