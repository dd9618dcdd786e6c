--------------------------- MODULE IPAddress_proofs ---------------------------
(***************************************************************************)
(* The arithmetic, the order and the embeddings of IPAddress for bytes of   *)
(* any size.                                                                *)
(***************************************************************************)
EXTENDS IPAddress, SequenceTheorems, TLAPS

-----------------------------------------------------------------------------
(* Division. *)

LEMMA Division ==
    ASSUME NEW m \in Nat \ {0}, NEW n \in Int
    PROVE  /\ n \div m \in Int /\ n % m \in 0 .. m - 1
           /\ n = (n \div m) * m + (n % m)
OBVIOUS

LEMMA Product ==
    ASSUME NEW k \in Nat, NEW m \in Nat
    PROVE  k * m \in Nat /\ (k # 0 => k * m >= m)
OBVIOUS

\* Numbers compare as their quotients do, and then as their remainders.
LEMMA Dominates ==
    ASSUME NEW m \in Nat, NEW x \in Int, NEW y \in Int,
           NEW r \in 0 .. m - 1, NEW s \in 0 .. m - 1
    PROVE  x * m + r < y * m + s <=> x < y \/ (x = y /\ r < s)
<1>1. ASSUME x < y PROVE x * m + r < y * m + s
  <2>1. PICK k \in Nat : y = x + 1 + k
    <3>1. y - x - 1 \in Nat  BY <1>1
    <3> QED BY <3>1
  <2>2. y * m = x * m + m + k * m /\ k * m \in Nat
    BY <2>1, Product
  <2> QED BY <2>2
<1>2. ASSUME y < x PROVE y * m + s < x * m + r
  <2>1. PICK k \in Nat : x = y + 1 + k
    <3>1. x - y - 1 \in Nat  BY <1>2
    <3> QED BY <3>1
  <2>2. x * m = y * m + m + k * m /\ k * m \in Nat
    BY <2>1, Product
  <2> QED BY <2>2
<1> QED BY <1>1, <1>2

LEMMA Unique ==
    ASSUME NEW m \in Nat \ {0}, NEW q \in Int, NEW r \in 0 .. m - 1
    PROVE  (q * m + r) \div m = q /\ (q * m + r) % m = r
<1> DEFINE n == q * m + r
<1>1. n \in Int
  OBVIOUS
<1> HIDE DEF n
<1>2. /\ n \div m \in Int /\ n % m \in 0 .. m - 1
      /\ n = (n \div m) * m + (n % m)
  BY <1>1, Division
<1>3. ~(n < n)
  BY <1>1
<1>4. n \div m = q
  <2>1. ~(n \div m < q)
    BY <1>2, <1>3, Dominates DEF n
  <2>2. ~(q < n \div m)
    BY <1>2, <1>3, Dominates DEF n
  <2>3. \A x, y \in Int : ~(x < y) /\ ~(y < x) => x = y
    OBVIOUS
  <2> QED BY <2>1, <2>2, <2>3, <1>2
<1>5. n % m = r
  BY <1>2, <1>4 DEF n
<1> QED BY <1>4, <1>5 DEF n

LEMMA Quotient ==
    ASSUME NEW m \in Nat \ {0}, NEW k \in Nat, NEW n \in 0 .. k * m - 1
    PROVE  n \div m \in 0 .. k - 1
<1>1. /\ n \div m \in Int /\ n % m \in 0 .. m - 1
      /\ n = (n \div m) * m + (n % m)
  BY Division
<1>2. n \div m < k
  <2>1. n < k * m + 0
    <3>1. k * m \in Nat  BY Product
    <3> QED BY <3>1
  <2>2. 0 \in 0 .. m - 1 /\ ~(n % m < 0)
    BY <1>1
  <2> QED BY <1>1, <2>1, <2>2, Dominates
<1>3. n \div m >= 0
  <2>1. ~(n < 0 * m + 0)
    BY Product
  <2>2. 0 \in 0 .. m - 1
    OBVIOUS
  <2> QED BY <1>1, <2>1, <2>2, Dominates
<1> QED BY <1>1, <1>2, <1>3

LEMMA Modulo ==
    ASSUME NEW m \in Nat \ {0}, NEW a \in Int, NEW b \in Int
    PROVE  ((a % m) + b) % m = (a + b) % m
<1> DEFINE q == a \div m
           c == (a % m) + b
<1>1. q \in Int /\ a % m \in Int /\ a = q * m + (a % m)
  BY Division
<1>2. c \in Int /\ a + b = q * m + c
  BY <1>1
<1> HIDE DEF c, q
<1>3. c \div m \in Int /\ c % m \in 0 .. m - 1 /\ c = (c \div m) * m + (c % m)
  BY <1>2, Division
<1>4. q + (c \div m) \in Int /\ a + b = (q + (c \div m)) * m + (c % m)
  <2> DEFINE d == c \div m
             r == c % m
  <2>1. d \in Int /\ r \in Int /\ c = d * m + r
    BY <1>3
  <2> HIDE DEF d, r
  <2>2. q + d \in Int /\ a + b = (q + d) * m + r
    BY <1>1, <1>2, <2>1
  <2> QED BY <2>2 DEF d, r
<1>5. (a + b) % m = c % m
  BY <1>3, <1>4, Unique
<1> QED BY <1>5 DEF c

-----------------------------------------------------------------------------
(* Numbers of four digits. *)

Numerals(base) == [1 .. 4 -> 0 .. base - 1]
Size(base) == (base * base) * (base * base)

LEMMA NumeralsAre ==
    ASSUME NEW base \in Nat \ {0}, NEW d \in Numerals(base)
    PROVE  /\ d[1] \in 0 .. base - 1 /\ d[2] \in 0 .. base - 1
           /\ d[3] \in 0 .. base - 1 /\ d[4] \in 0 .. base - 1
           /\ d[1] \in Int
BY DEF Numerals

LEMMA NumeralsEqual ==
    ASSUME NEW base \in Nat \ {0}, NEW d \in Numerals(base), NEW e \in Numerals(base),
           d[1] = e[1], d[2] = e[2], d[3] = e[3], d[4] = e[4]
    PROVE  d = e
<1>1. \A i \in 1 .. 4 : d[i] = e[i]
  <2> SUFFICES ASSUME NEW i \in 1 .. 4 PROVE d[i] = e[i]
      OBVIOUS
  <2>1. i = 1 \/ i = 2 \/ i = 3 \/ i = 4
    OBVIOUS
  <2> QED BY <2>1
<1> QED BY <1>1 DEF Numerals

LEMMA TuplesAreNumerals ==
    ASSUME NEW base \in Nat \ {0}, NEW a \in 0 .. base - 1, NEW b \in 0 .. base - 1,
           NEW c \in 0 .. base - 1, NEW d \in 0 .. base - 1
    PROVE  <<a, b, c, d>> \in Numerals(base)
BY DEF Numerals

LEMMA Horner ==
    ASSUME NEW base \in Nat \ {0}, NEW k \in Nat, NEW x \in 0 .. k - 1, NEW r \in 0 .. base - 1
    PROVE  x * base + r \in 0 .. k * base - 1
<1>1. x * base \in Nat /\ k * base \in Nat
  BY Product
<1>2. x * base + r < k * base + 0
  <2>1. x < k /\ x \in Int /\ 0 \in 0 .. base - 1
    OBVIOUS
  <2> QED BY <2>1, Dominates
<1> QED BY <1>1, <1>2

LEMMA SizeIs ==
    ASSUME NEW base \in Nat \ {0}
    PROVE  /\ Size(base) = ((base * base) * base) * base
           /\ Size(base) \in Nat \ {0} /\ base * base \in Nat \ {0}
           /\ (base * base) * base \in Nat \ {0}
<1> DEFINE g == base * base
<1>1. g \in Nat \ {0}
  BY Product
<1>2. g * base \in Nat \ {0}
  <2> HIDE DEF g
  <2> QED BY <1>1, Product
<1>3. g * g = (g * base) * base
  OBVIOUS
<1>4. g * g \in Nat \ {0}
  <2> HIDE DEF g
  <2> QED BY <1>1, Product
<1> QED BY <1>1, <1>2, <1>3, <1>4 DEF Size

LEMMA NumberRange ==
    ASSUME NEW base \in Nat \ {0}, NEW d \in Numerals(base)
    PROVE  Number(d, base) \in 0 .. Size(base) - 1
<1> DEFINE x2 == d[1] * base + d[2]
           x3 == x2 * base + d[3]
           x4 == x3 * base + d[4]
<1>1. x2 \in 0 .. (base * base) - 1
  BY NumeralsAre, Horner
<1> HIDE DEF x2
<1>2. x3 \in 0 .. ((base * base) * base) - 1
  BY <1>1, NumeralsAre, SizeIs, Horner
<1> HIDE DEF x3
<1>3. x4 \in 0 .. (((base * base) * base) * base) - 1
  BY <1>2, NumeralsAre, SizeIs, Horner
<1> QED BY <1>3, SizeIs DEF Number, x2, x3

\* The number with one more digit.
With(x, base, r) == x * base + r

LEMMA WithIs ==
    ASSUME NEW base \in Nat \ {0}, NEW x \in Int, NEW r \in 0 .. base - 1
    PROVE  /\ With(x, base, r) \in Int
           /\ With(x, base, r) \div base = x /\ With(x, base, r) % base = r
BY Unique DEF With

LEMMA Remainder ==
    ASSUME NEW base \in Nat \ {0}, NEW r \in 0 .. base - 1
    PROVE  r % base = r
<1>1. (0 * base + r) % base = r
  BY Unique
<1>2. 0 * base + r = r
  OBVIOUS
<1> QED BY <1>1, <1>2

LEMMA WithLess ==
    ASSUME NEW base \in Nat \ {0}, NEW x \in Int, NEW y \in Int,
           NEW r \in 0 .. base - 1, NEW s \in 0 .. base - 1
    PROVE  /\ With(x, base, r) < With(y, base, s) <=> x < y \/ (x = y /\ r < s)
           /\ With(x, base, r) = With(y, base, s) <=> x = y /\ r = s
<1>1. With(x, base, r) < With(y, base, s) <=> x < y \/ (x = y /\ r < s)
  BY Dominates DEF With
<1>2. With(x, base, r) = With(y, base, s) => x = y /\ r = s
  <2>1. With(x, base, r) \div base = x /\ With(x, base, r) % base = r
    BY WithIs, Zenon
  <2>2. With(y, base, s) \div base = y /\ With(y, base, s) % base = s
    BY WithIs, Zenon
  <2> QED BY <2>1, <2>2, Zenon
<1> QED BY <1>1, <1>2

LEMMA NumberWith ==
    ASSUME NEW base, NEW d
    PROVE  Number(d, base) =
             With(With(With(d[1], base, d[2]), base, d[3]), base, d[4])
BY DEF Number, With

LEMMA DigitsOfNumber ==
    ASSUME NEW base \in Nat \ {0}, NEW d \in Numerals(base)
    PROVE  Digits(Number(d, base), base) = d
<1> DEFINE x2 == With(d[1], base, d[2])
           x3 == With(x2, base, d[3])
           x4 == With(x3, base, d[4])
<1>1. /\ d[1] \in 0 .. base - 1 /\ d[2] \in 0 .. base - 1
      /\ d[3] \in 0 .. base - 1 /\ d[4] \in 0 .. base - 1 /\ d[1] \in Int
  BY NumeralsAre
<1>2. x2 \in Int /\ x2 \div base = d[1] /\ x2 % base = d[2]
  BY <1>1, WithIs, Zenon
<1>3. d[1] % base = d[1]
  BY <1>1, Remainder
<1> HIDE DEF x2
<1>4. x3 \in Int /\ x3 \div base = x2 /\ x3 % base = d[3]
  BY <1>1, <1>2, WithIs
<1> HIDE DEF x3
<1>5. x4 \div base = x3 /\ x4 % base = d[4]
  BY <1>1, <1>4, WithIs
<1>6. Number(d, base) = x4
  BY NumberWith DEF x3, x2
<1> HIDE DEF x4
<1>7. Digits(Number(d, base), base) = <<d[1], d[2], d[3], d[4]>>
  BY <1>2, <1>3, <1>4, <1>5, <1>6, Zenon DEF Digits
<1>8. <<d[1], d[2], d[3], d[4]>> \in Numerals(base)
  BY <1>1, TuplesAreNumerals
<1>9. <<d[1], d[2], d[3], d[4]>> = d
  BY <1>8, NumeralsEqual
<1> QED BY <1>7, <1>9

LEMMA NumberOfDigits ==
    ASSUME NEW base \in Nat \ {0}, NEW n \in 0 .. Size(base) - 1
    PROVE  Digits(n, base) \in Numerals(base) /\ Number(Digits(n, base), base) = n
<1> DEFINE g == base * base
           n1 == n \div base
           n2 == n1 \div base
           n3 == n2 \div base
<1>1. /\ g \in Nat /\ g * base \in Nat /\ base \in Nat
      /\ n \in 0 .. ((g * base) * base) - 1
  BY SizeIs
<1>2. n = n1 * base + (n % base) /\ n % base \in 0 .. base - 1
  BY Division
<1> HIDE DEF g
<1>3. n1 \in 0 .. (g * base) - 1
  <2> DEFINE k == g * base
  <2>1. k \in Nat /\ n \in 0 .. k * base - 1
    BY <1>1
  <2> HIDE DEF k
  <2>2. n \div base \in 0 .. k - 1
    BY <2>1, Quotient
  <2> QED BY <2>2 DEF k
<1> HIDE DEF n1
<1>4. n2 \in 0 .. g - 1
  BY <1>1, <1>3, Quotient
<1>5. n1 = n2 * base + (n1 % base) /\ n1 % base \in 0 .. base - 1
  BY <1>3, Division
<1> HIDE DEF n2
<1>6. n3 \in 0 .. base - 1
  <2>1. n2 \in 0 .. base * base - 1
    BY <1>4 DEF g
  <2> QED BY <2>1, Quotient
<1>7. n2 = n3 * base + (n2 % base) /\ n2 % base \in 0 .. base - 1
  BY <1>4, Division
<1> HIDE DEF n3
<1>8. n3 % base = n3
  <2>1. (0 * base + n3) % base = n3
    BY <1>6, Unique
  <2>2. 0 * base + n3 = n3
    BY <1>6
  <2> QED BY <2>1, <2>2
<1>9. Digits(n, base) = <<n3, n2 % base, n1 % base, n % base>>
  BY <1>8 DEF Digits, n1, n2, n3
<1>10. Digits(n, base) \in Numerals(base)
  BY <1>2, <1>5, <1>6, <1>7, <1>9, TuplesAreNumerals
<1>11. Number(Digits(n, base), base) =
         ((n3 * base + (n2 % base)) * base + (n1 % base)) * base + (n % base)
  BY <1>9 DEF Number
<1> QED BY <1>2, <1>5, <1>7, <1>10, <1>11

\* How the first four elements compare.
FirstLess(d, e) ==
    \/ d[1] < e[1]
    \/ d[1] = e[1] /\ d[2] < e[2]
    \/ d[1] = e[1] /\ d[2] = e[2] /\ d[3] < e[3]
    \/ d[1] = e[1] /\ d[2] = e[2] /\ d[3] = e[3] /\ d[4] < e[4]

LEMMA OrderOfFour ==
    ASSUME NEW base \in Nat \ {0}, NEW d \in Numerals(base), NEW e \in Numerals(base)
    PROVE  LexicographicallyLess(d, e) <=> FirstLess(d, e)
<1>1. DOMAIN d = 1 .. 4
  BY DEF Numerals
<1>2. \A i \in 1 .. 4 : i = 1 \/ i = 2 \/ i = 3 \/ i = 4
  OBVIOUS
<1>3. 1 .. 1 - 1 = {} /\ 1 .. 2 - 1 = {1} /\ 1 .. 3 - 1 = {1, 2} /\ 1 .. 4 - 1 = {1, 2, 3}
  OBVIOUS
<1> QED BY <1>1, <1>2, <1>3 DEF LexicographicallyLess, FirstLess

\* Digits compare from the first on as the numbers do.
LEMMA OrderOfNumbers ==
    ASSUME NEW base \in Nat \ {0}, NEW d \in Numerals(base), NEW e \in Numerals(base)
    PROVE  LexicographicallyLess(d, e) <=> Number(d, base) < Number(e, base)
<1> DEFINE x2 == With(d[1], base, d[2])
           x3 == With(x2, base, d[3])
           y2 == With(e[1], base, e[2])
           y3 == With(y2, base, e[3])
<1>1. /\ d[1] \in 0 .. base - 1 /\ d[2] \in 0 .. base - 1
      /\ d[3] \in 0 .. base - 1 /\ d[4] \in 0 .. base - 1
      /\ e[1] \in 0 .. base - 1 /\ e[2] \in 0 .. base - 1
      /\ e[3] \in 0 .. base - 1 /\ e[4] \in 0 .. base - 1
      /\ d[1] \in Int /\ e[1] \in Int
  BY NumeralsAre
<1>2. x2 \in Int /\ y2 \in Int
  BY <1>1, WithIs, Zenon
<1>3. /\ x2 < y2 <=> d[1] < e[1] \/ (d[1] = e[1] /\ d[2] < e[2])
      /\ x2 = y2 <=> d[1] = e[1] /\ d[2] = e[2]
  <2> DEFINE a == d[1]
             b == e[1]
             r == d[2]
             s == e[2]
  <2>1. a \in Int /\ b \in Int /\ r \in 0 .. base - 1 /\ s \in 0 .. base - 1
    BY <1>1
  <2> HIDE DEF a, b, r, s
  <2>2. /\ With(a, base, r) < With(b, base, s) <=> a < b \/ (a = b /\ r < s)
        /\ With(a, base, r) = With(b, base, s) <=> a = b /\ r = s
    BY <2>1, WithLess
  <2> QED BY <2>2 DEF a, b, r, s
<1> HIDE DEF x2, y2
<1>5. x3 \in Int /\ y3 \in Int
  BY <1>1, <1>2, WithIs
<1>6. /\ x3 < y3 <=> x2 < y2 \/ (x2 = y2 /\ d[3] < e[3])
      /\ x3 = y3 <=> x2 = y2 /\ d[3] = e[3]
  BY <1>1, <1>2, WithLess
<1> HIDE DEF x3, y3
<1>8. With(x3, base, d[4]) < With(y3, base, e[4]) <=> x3 < y3 \/ (x3 = y3 /\ d[4] < e[4])
  BY <1>1, <1>5, WithLess
<1>9. /\ Number(d, base) = With(x3, base, d[4])
      /\ Number(e, base) = With(y3, base, e[4])
  BY NumberWith DEF x2, x3, y2, y3
<1>10. LexicographicallyLess(d, e) <=> FirstLess(d, e)
  BY OrderOfFour
<1> QED BY <1>3, <1>6, <1>8, <1>9, <1>10 DEF FirstLess

-----------------------------------------------------------------------------
(* Addresses as numbers. *)

LEMMA Sizes ==
    /\ ByteSize \in Nat \ {0} /\ GroupSize \in Nat \ {0, 1}
    /\ V4Size = Size(ByteSize) /\ WordSize = Size(GroupSize)
    /\ V4Size \in Nat \ {0} /\ WordSize \in Nat \ {0}
<1>1. ByteSize \in Nat \ {0}
  BY ByteAssumption
<1>2. GroupSize \in Nat \ {0}
  BY <1>1, SizeIs DEF GroupSize
<1>3. GroupSize # 1
  BY ByteAssumption DEF GroupSize
<1>4. V4Size = Size(ByteSize) /\ WordSize = Size(GroupSize)
  BY DEF GroupSize, V4Size, WordSize, Size
<1> QED BY <1>1, <1>2, <1>3, <1>4, SizeIs

Groups == [1 .. 8 -> 0 .. GroupSize - 1]

LEMMA Halves ==
    ASSUME NEW v \in Groups
    PROVE  /\ SubSeq(v, 1, 4) = <<v[1], v[2], v[3], v[4]>>
           /\ SubSeq(v, 5, 8) = <<v[5], v[6], v[7], v[8]>>
           /\ SubSeq(v, 1, 4) \in Numerals(GroupSize)
           /\ SubSeq(v, 5, 8) \in Numerals(GroupSize)
<1> DEFINE S == 0 .. GroupSize - 1
           a == SubSeq(v, 1, 4)
           b == SubSeq(v, 5, 8)
           c == <<v[1], v[2], v[3], v[4]>>
           d == <<v[5], v[6], v[7], v[8]>>
<1>1. \A i \in 1 .. 8 : v[i] \in S
  BY DEF Groups
<1>2. c \in Numerals(GroupSize) /\ d \in Numerals(GroupSize)
  <2>1. /\ v[1] \in S /\ v[2] \in S /\ v[3] \in S /\ v[4] \in S
        /\ v[5] \in S /\ v[6] \in S /\ v[7] \in S /\ v[8] \in S
    BY <1>1
  <2>2. GroupSize \in Nat \ {0}
    BY Sizes
  <2> QED BY <2>1, <2>2, TuplesAreNumerals, Zenon
<1>3. /\ c[1] = v[1] /\ c[2] = v[2] /\ c[3] = v[3] /\ c[4] = v[4]
      /\ d[1] = v[5] /\ d[2] = v[6] /\ d[3] = v[7] /\ d[4] = v[8]
  OBVIOUS
<1> HIDE DEF S, a, b, c, d
<1>4. a \in Seq(S) /\ Len(a) = 4 /\ \A i \in 1 .. 4 - 1 + 1 : a[i] = v[1 + i - 1]
  BY <1>1, SubSeqProperties DEF a
<1>5. b \in Seq(S) /\ Len(b) = 4 /\ \A i \in 1 .. 8 - 5 + 1 : b[i] = v[5 + i - 1]
  BY <1>1, SubSeqProperties DEF b
<1>6. a \in [1 .. 4 -> S] /\ b \in [1 .. 4 -> S]
  BY <1>4, <1>5, LenProperties
<1>7. /\ a[1] = v[1] /\ a[2] = v[2] /\ a[3] = v[3] /\ a[4] = v[4]
      /\ b[1] = v[5] /\ b[2] = v[6] /\ b[3] = v[7] /\ b[4] = v[8]
  BY <1>4, <1>5
<1>8. a \in Numerals(GroupSize) /\ b \in Numerals(GroupSize)
  BY <1>6 DEF S, Numerals
<1>9. a = c /\ b = d
  BY <1>2, <1>3, <1>7, <1>8, Sizes, NumeralsEqual
<1> QED BY <1>8, <1>9 DEF a, b, c, d

LEMMA Joined ==
    ASSUME NEW d \in Numerals(GroupSize), NEW e \in Numerals(GroupSize)
    PROVE  /\ d \o e \in Groups
           /\ SubSeq(d \o e, 1, 4) = d /\ SubSeq(d \o e, 5, 8) = e
           /\ \A i \in 1 .. 4 : (d \o e)[i] = d[i] /\ (d \o e)[4 + i] = e[i]
<1> DEFINE S == 0 .. GroupSize - 1
           c == d \o e
<1>1. d \in [1 .. 4 -> S] /\ e \in [1 .. 4 -> S]
  BY DEF Numerals
<1> HIDE DEF S
<1>2. d \in Seq(S) /\ e \in Seq(S)
  <2> DEFINE F == [1 .. 4 -> S]
             T == {[1 .. n -> S] : n \in Nat}
  <2>1. F \in T
    OBVIOUS
  <2>2. Seq(S) = UNION T
    BY SeqDef
  <2>3. d \in F /\ e \in F
    BY <1>1
  <2> HIDE DEF F, T
  <2> QED BY <2>1, <2>2, <2>3
<1>3. Len(d) = 4 /\ Len(e) = 4
  BY <1>1, <1>2, LenProperties
<1>4. c \in Seq(S) /\ Len(c) = 8 /\ \A i \in 1 .. 8 : c[i] = IF i <= 4 THEN d[i] ELSE e[i - 4]
  <2>1. /\ c \in Seq(S) /\ Len(c) = Len(d) + Len(e)
        /\ \A i \in 1 .. Len(d) + Len(e) :
             c[i] = IF i <= Len(d) THEN d[i] ELSE e[i - Len(d)]
    BY <1>2, ConcatProperties, Zenon
  <2> HIDE DEF c
  <2> QED BY <1>3, <2>1
<1> HIDE DEF c
<1>5. c \in Groups
  BY <1>4, LenProperties DEF Groups, S
<1>6. /\ c[1] = d[1] /\ c[2] = d[2] /\ c[3] = d[3] /\ c[4] = d[4]
      /\ c[5] = e[1] /\ c[6] = e[2] /\ c[7] = e[3] /\ c[8] = e[4]
  BY <1>4
<1>7. /\ SubSeq(c, 1, 4) = <<c[1], c[2], c[3], c[4]>>
      /\ SubSeq(c, 5, 8) = <<c[5], c[6], c[7], c[8]>>
      /\ SubSeq(c, 1, 4) \in Numerals(GroupSize)
      /\ SubSeq(c, 5, 8) \in Numerals(GroupSize)
  BY <1>5, Halves
<1>8. SubSeq(c, 1, 4) = d /\ SubSeq(c, 5, 8) = e
  <2> DEFINE a == SubSeq(c, 1, 4)
             b == SubSeq(c, 5, 8)
  <2>1. /\ a[1] = d[1] /\ a[2] = d[2] /\ a[3] = d[3] /\ a[4] = d[4]
        /\ b[1] = e[1] /\ b[2] = e[2] /\ b[3] = e[3] /\ b[4] = e[4]
    BY <1>6, <1>7
  <2>2. a \in Numerals(GroupSize) /\ b \in Numerals(GroupSize)
    BY <1>7
  <2> HIDE DEF a, b
  <2>3. a = d /\ b = e
    BY <2>1, <2>2, Sizes, NumeralsEqual
  <2> QED BY <2>3 DEF a, b
<1>9. \A i \in 1 .. 4 : c[i] = d[i] /\ c[4 + i] = e[i]
  BY <1>4
<1> QED BY <1>5, <1>8, <1>9 DEF c

LEMMA PackingV4 ==
    /\ \A d \in Numerals(ByteSize) :
         packV4(d) \in 0 .. V4Size - 1 /\ unpackV4(packV4(d)) = d
    /\ \A n \in 0 .. V4Size - 1 :
         unpackV4(n) \in Numerals(ByteSize) /\ packV4(unpackV4(n)) = n
<1>1. ASSUME NEW d \in Numerals(ByteSize)
      PROVE  packV4(d) \in 0 .. V4Size - 1 /\ unpackV4(packV4(d)) = d
  BY Sizes, NumberRange, DigitsOfNumber DEF packV4, unpackV4
<1>2. ASSUME NEW n \in 0 .. V4Size - 1
      PROVE  unpackV4(n) \in Numerals(ByteSize) /\ packV4(unpackV4(n)) = n
  BY Sizes, NumberOfDigits DEF packV4, unpackV4
<1> QED BY <1>1, <1>2

Word == 0 .. MaxWord

\* The two words of an IPV6.
Upper(v6) == Number(SubSeq(v6, 1, 4), GroupSize)
Lower(v6) == Number(SubSeq(v6, 5, 8), GroupSize)

LEMMA WordIs == Word = 0 .. Size(GroupSize) - 1 /\ MaxWord \in Nat \ {0}
<1>1. WordSize # 1
  <2>1. V4Size >= GroupSize
    BY Sizes, Product DEF V4Size
  <2>2. WordSize >= V4Size
    BY Sizes, Product DEF WordSize
  <2> QED BY <2>1, <2>2, Sizes
<1> QED BY <1>1, Sizes DEF Word, MaxWord

LEMMA PackingV6 ==
    /\ \A v \in Groups :
         /\ packV6(v) = <<Upper(v), Lower(v)>>
         /\ Upper(v) \in Word /\ Lower(v) \in Word
         /\ unpackV6(packV6(v)) = v
    /\ \A h, l \in Word :
         /\ unpackV6(<<h, l>>) \in Groups
         /\ Upper(unpackV6(<<h, l>>)) = h /\ Lower(unpackV6(<<h, l>>)) = l
<1>1. ASSUME NEW v \in Groups
      PROVE  /\ packV6(v) = <<Upper(v), Lower(v)>>
             /\ Upper(v) \in Word /\ Lower(v) \in Word
             /\ unpackV6(packV6(v)) = v
  <2> DEFINE a == SubSeq(v, 1, 4)
             b == SubSeq(v, 5, 8)
  <2>1. /\ a \in Numerals(GroupSize) /\ b \in Numerals(GroupSize)
        /\ a = <<v[1], v[2], v[3], v[4]>> /\ b = <<v[5], v[6], v[7], v[8]>>
    BY Halves, Zenon
  <2>2. packV6(v) = <<Upper(v), Lower(v)>>
    BY DEF packV6, Upper, Lower
  <2>3. /\ Upper(v) = Number(a, GroupSize) /\ Lower(v) = Number(b, GroupSize)
        /\ unpackV6(packV6(v)) = Digits(Number(a, GroupSize), GroupSize)
                                   \o Digits(Number(b, GroupSize), GroupSize)
    BY DEF packV6, unpackV6, Upper, Lower
  <2> HIDE DEF a, b
  <2>4. Upper(v) \in Word /\ Lower(v) \in Word
    BY <2>1, <2>3, Sizes, WordIs, NumberRange
  <2>5. unpackV6(packV6(v)) = a \o b
    BY <2>1, <2>3, Sizes, DigitsOfNumber
  <2>6. a \o b = v
    <3> DEFINE c == a \o b
    <3>1. c \in Groups /\ \A i \in 1 .. 4 : c[i] = a[i] /\ c[4 + i] = b[i]
      BY <2>1, Joined, Zenon
    <3> HIDE DEF c
    <3>2. /\ c[1] = v[1] /\ c[2] = v[2] /\ c[3] = v[3] /\ c[4] = v[4]
          /\ c[5] = v[5] /\ c[6] = v[6] /\ c[7] = v[7] /\ c[8] = v[8]
      <4>1. /\ c[1] = a[1] /\ c[2] = a[2] /\ c[3] = a[3] /\ c[4] = a[4]
            /\ c[5] = b[1] /\ c[6] = b[2] /\ c[7] = b[3] /\ c[8] = b[4]
        BY <3>1
      <4> QED BY <2>1, <4>1
    <3>3. \A i \in 1 .. 8 : c[i] = v[i]
      <4> SUFFICES ASSUME NEW i \in 1 .. 8 PROVE c[i] = v[i]
          OBVIOUS
      <4>1. i = 1 \/ i = 2 \/ i = 3 \/ i = 4 \/ i = 5 \/ i = 6 \/ i = 7 \/ i = 8
        OBVIOUS
      <4> QED BY <3>2, <4>1
    <3>4. c = v
      BY <3>1, <3>3 DEF Groups
    <3> QED BY <3>4 DEF c
  <2> QED BY <2>2, <2>4, <2>5, <2>6
<1>2. ASSUME NEW h \in Word, NEW l \in Word
      PROVE  /\ unpackV6(<<h, l>>) \in Groups
             /\ Upper(unpackV6(<<h, l>>)) = h /\ Lower(unpackV6(<<h, l>>)) = l
  <2> DEFINE a == Digits(h, GroupSize)
             b == Digits(l, GroupSize)
  <2>1. /\ a \in Numerals(GroupSize) /\ b \in Numerals(GroupSize)
        /\ Number(a, GroupSize) = h /\ Number(b, GroupSize) = l
    BY Sizes, WordIs, NumberOfDigits
  <2>2. unpackV6(<<h, l>>) = a \o b
    BY DEF unpackV6
  <2> HIDE DEF a, b
  <2>3. a \o b \in Groups /\ SubSeq(a \o b, 1, 4) = a /\ SubSeq(a \o b, 5, 8) = b
    BY <2>1, Joined
  <2> QED BY <2>1, <2>2, <2>3 DEF Upper, Lower
<1> QED BY <1>1, <1>2

-----------------------------------------------------------------------------
(* Arithmetic. *)

\* The two words of a number, modulo what fits into them.
Words(m) == <<(m \div WordSize) % WordSize, m % WordSize>>

LEMMA WordsAre ==
    ASSUME NEW m \in Int
    PROVE  /\ Words(m)[1] \in Word /\ Words(m)[2] \in Word
           /\ Words(m) = <<Words(m)[1], Words(m)[2]>>
BY Sizes, Division DEF Words, Word, MaxWord

\* The words of a number given by what is above the lower word, and that word.
LEMMA WordsOf ==
    ASSUME NEW q \in Int, NEW r \in Word
    PROVE  Words(q * WordSize + r) = <<q % WordSize, r>>
<1>1. r \in 0 .. WordSize - 1
  BY DEF Word, MaxWord
<1>2. (q * WordSize + r) \div WordSize = q /\ (q * WordSize + r) % WordSize = r
  BY <1>1, Sizes, Unique
<1> QED BY <1>2, Zenon DEF Words

LEMMA Around ==
    ASSUME NEW q \in Int
    PROVE  /\ (q + 1) % WordSize = IF q % WordSize = MaxWord THEN 0 ELSE (q % WordSize) + 1
           /\ (q - 1) % WordSize = IF q % WordSize = 0 THEN MaxWord ELSE (q % WordSize) - 1
<1> DEFINE c == q \div WordSize
           r == q % WordSize
<1>1. /\ c \in Int /\ r \in 0 .. WordSize - 1 /\ q = c * WordSize + r
      /\ WordSize \in Nat \ {0} /\ MaxWord = WordSize - 1
  BY Sizes, Division DEF MaxWord
<1> HIDE DEF c, r
<1>2. (q + 1) % WordSize = IF r = MaxWord THEN 0 ELSE r + 1
  <2>1. CASE r = MaxWord
    <3>1. q + 1 = (c + 1) * WordSize + 0 /\ 0 \in 0 .. WordSize - 1 /\ c + 1 \in Int
      BY <1>1, <2>1
    <3> QED BY <1>1, <2>1, <3>1, Unique
  <2>2. CASE r # MaxWord
    <3>1. q + 1 = c * WordSize + (r + 1) /\ r + 1 \in 0 .. WordSize - 1
      BY <1>1, <2>2
    <3> QED BY <1>1, <2>2, <3>1, Unique
  <2> QED BY <2>1, <2>2
<1>3. (q - 1) % WordSize = IF r = 0 THEN MaxWord ELSE r - 1
  <2>1. CASE r = 0
    <3>1. q - 1 = (c - 1) * WordSize + MaxWord /\ MaxWord \in 0 .. WordSize - 1 /\ c - 1 \in Int
      BY <1>1, <2>1
    <3> QED BY <1>1, <2>1, <3>1, Unique
  <2>2. CASE r # 0
    <3>1. q - 1 = c * WordSize + (r - 1) /\ r - 1 \in 0 .. WordSize - 1
      BY <1>1, <2>2
    <3> QED BY <1>1, <2>2, <3>1, Unique
  <2> QED BY <2>1, <2>2
<1> QED BY <1>2, <1>3 DEF r

\* What the two words become in a step of one.
LEMMA OneUp ==
    ASSUME NEW h \in Word, NEW l \in Word
    PROVE  AddV6(<<h, l>>, 1) =
             IF l # MaxWord THEN <<h, l + 1>>
             ELSE IF h # MaxWord THEN <<h + 1, 0>> ELSE <<0, 0>>
<1> DEFINE p == <<h, l>>
<1>1. p[1] = h /\ p[2] = l /\ MaxWord \in Nat \ {0} /\ h \in 0 .. MaxWord /\ l \in 0 .. MaxWord
  BY WordIs DEF Word
<1>2. CASE l # MaxWord
  <2>1. MaxWord - l >= 1
    BY <1>1, <1>2
  <2>2. AddV6(p, 1) = <<h, l + 1>>
    BY <1>1, <2>1 DEF AddV6
  <2> QED BY <1>2, <2>2
<1>3. CASE l = MaxWord
  <2>1. MaxWord - l < 1 /\ ~(MaxWord - l >= 1) /\ 1 - (MaxWord - l) = 1
    BY <1>1, <1>3
  <2>2. CASE h # MaxWord
    <3>1. MaxWord - h >= 1 /\ ~(MaxWord - h < 1)
      BY <1>1, <2>2
    <3>2. AddV6(p, 1) = <<h + 1, 0>>
      BY <1>1, <2>1, <3>1 DEF AddV6
    <3> QED BY <1>3, <2>2, <3>2
  <2>3. CASE h = MaxWord
    <3>1. MaxWord - h < 1 /\ ~(MaxWord - h >= 1) /\ 1 - (MaxWord - h) - 1 = 0
      BY <1>1, <2>3
    <3>2. AddV6(p, 1) = <<0, 0>>
      BY <1>1, <2>1, <3>1 DEF AddV6
    <3> QED BY <1>3, <2>3, <3>2
  <2> QED BY <2>2, <2>3
<1> QED BY <1>2, <1>3

LEMMA OneDown ==
    ASSUME NEW h \in Word, NEW l \in Word
    PROVE  SubtractV6(<<h, l>>, 1) =
             IF l # 0 THEN <<h, l - 1>>
             ELSE IF h # 0 THEN <<h - 1, MaxWord>> ELSE <<MaxWord, MaxWord>>
BY WordIs DEF Word, SubtractV6

LEMMA NoStep ==
    ASSUME NEW h \in Word, NEW l \in Word
    PROVE  AddV6(<<h, l>>, 0) = <<h, l>> /\ SubtractV6(<<h, l>>, 0) = <<h, l>>
<1> DEFINE p == <<h, l>>
<1>1. p[1] = h /\ p[2] = l /\ l + 0 = l /\ l - 0 = l
      /\ MaxWord - l >= 0 /\ ~(MaxWord - l < 0) /\ l >= 0 /\ ~(l < 0)
  BY WordIs DEF Word
<1>2. AddV6(p, 0) = <<h, l>>
  BY <1>1 DEF AddV6
<1>3. SubtractV6(p, 0) = <<h, l>>
  BY <1>1 DEF SubtractV6
<1> QED BY <1>2, <1>3

LEMMA StepsOfWords ==
    ASSUME NEW m \in Int
    PROVE  /\ AddV6(Words(m), 1) = Words(m + 1) /\ SubtractV6(Words(m), 1) = Words(m - 1)
           /\ AddV6(Words(m), 0) = Words(m) /\ SubtractV6(Words(m), 0) = Words(m)
<1> DEFINE q == m \div WordSize
           l == m % WordSize
           h == q % WordSize
<1>1. /\ q \in Int /\ l \in Word /\ m = q * WordSize + l
      /\ WordSize \in Nat \ {0} /\ WordSize = MaxWord + 1 /\ MaxWord \in Nat \ {0}
  <2>1. WordSize \in Nat \ {0}
    BY Sizes
  <2>2. WordSize = MaxWord + 1
    BY <2>1 DEF MaxWord
  <2>3. q \in Int /\ l \in 0 .. WordSize - 1 /\ m = q * WordSize + l
    BY <2>1, Division
  <2>4. 0 .. WordSize - 1 = Word
    BY DEF Word, MaxWord
  <2> HIDE DEF q, l
  <2> QED BY <2>1, <2>2, <2>3, <2>4, WordIs
<1>2. Words(m) = <<h, l>>
  BY DEF Words
<1> HIDE DEF q, l
<1>3. h \in Word
  BY <1>1, Division DEF Word
<1>4. /\ (q + 1) % WordSize = IF h = MaxWord THEN 0 ELSE h + 1
      /\ (q - 1) % WordSize = IF h = 0 THEN MaxWord ELSE h - 1
  BY <1>1, Around
<1>5. /\ q + 1 \in Int /\ q - 1 \in Int /\ 0 \in Word /\ MaxWord \in Word
  BY <1>1 DEF Word
<1>6. Words(m + 1) = IF l # MaxWord THEN <<h, l + 1>>
                     ELSE IF h # MaxWord THEN <<h + 1, 0>> ELSE <<0, 0>>
  <2>1. CASE l # MaxWord
    <3>1. m + 1 = q * WordSize + (l + 1) /\ l + 1 \in Word
      BY <1>1, <2>1 DEF Word
    <3> QED BY <1>1, <2>1, <3>1, WordsOf
  <2>2. CASE l = MaxWord
    <3>1. m + 1 = (q + 1) * WordSize + 0
      BY <1>1, <2>2
    <3>2. Words(m + 1) = <<(q + 1) % WordSize, 0>>
      BY <1>5, <3>1, WordsOf
    <3> HIDE DEF h
    <3> QED BY <1>4, <2>2, <3>2
  <2> QED BY <2>1, <2>2
<1>7. Words(m - 1) = IF l # 0 THEN <<h, l - 1>>
                     ELSE IF h # 0 THEN <<h - 1, MaxWord>> ELSE <<MaxWord, MaxWord>>
  <2>1. CASE l # 0
    <3>1. m - 1 = q * WordSize + (l - 1) /\ l - 1 \in Word
      BY <1>1, <2>1 DEF Word
    <3> QED BY <1>1, <2>1, <3>1, WordsOf
  <2>2. CASE l = 0
    <3>1. m - 1 = (q - 1) * WordSize + MaxWord
      BY <1>1, <2>2
    <3>2. Words(m - 1) = <<(q - 1) % WordSize, MaxWord>>
      BY <1>5, <3>1, WordsOf
    <3> HIDE DEF h
    <3> QED BY <1>4, <2>2, <3>2
  <2> QED BY <2>1, <2>2
<1> HIDE DEF h
<1>8. AddV6(Words(m), 1) = Words(m + 1)
  <2>1. AddV6(<<h, l>>, 1) =
          IF l # MaxWord THEN <<h, l + 1>>
          ELSE IF h # MaxWord THEN <<h + 1, 0>> ELSE <<0, 0>>
    BY <1>1, <1>3, OneUp
  <2> QED BY <1>2, <1>6, <2>1, Zenon
<1>9. SubtractV6(Words(m), 1) = Words(m - 1)
  <2>1. SubtractV6(<<h, l>>, 1) =
          IF l # 0 THEN <<h, l - 1>>
          ELSE IF h # 0 THEN <<h - 1, MaxWord>> ELSE <<MaxWord, MaxWord>>
    BY <1>1, <1>3, OneDown
  <2> QED BY <1>2, <1>7, <2>1, Zenon
<1>10. AddV6(Words(m), 0) = Words(m) /\ SubtractV6(Words(m), 0) = Words(m)
  BY <1>1, <1>2, <1>3, NoStep, Zenon
<1> QED BY <1>8, <1>9, <1>10

-----------------------------------------------------------------------------
(* Types. *)

LEMMA AddressesAre ==
    /\ \A a \in IPAddresses :
         \/ a = None /\ a.type = "None"
         \/ a.type = "V4" /\ a.ipv4 \in Numerals(ByteSize) /\ a = V4(a.ipv4)
         \/ a.type = "V6" /\ a.ipv6 \in Groups /\ a = V6(a.ipv6)
    /\ \A d \in Numerals(ByteSize) :
         V4(d) \in IPAddresses /\ V4(d).type = "V4" /\ V4(d).ipv4 = d
    /\ \A v \in Groups :
         V6(v) \in IPAddresses /\ V6(v).type = "V6" /\ V6(v).ipv6 = v
<1>1. ASSUME NEW a \in IPAddresses
      PROVE  \/ a = None /\ a.type = "None"
             \/ a.type = "V4" /\ a.ipv4 \in Numerals(ByteSize) /\ a = V4(a.ipv4)
             \/ a.type = "V6" /\ a.ipv6 \in Groups /\ a = V6(a.ipv6)
  BY DEF IPAddresses, None, V4, V6, Numerals, Groups
<1>2. ASSUME NEW d \in Numerals(ByteSize)
      PROVE  V4(d) \in IPAddresses /\ V4(d).type = "V4" /\ V4(d).ipv4 = d
  BY DEF IPAddresses, V4, Numerals
<1>3. ASSUME NEW v \in Groups
      PROVE  V6(v) \in IPAddresses /\ V6(v).type = "V6" /\ V6(v).ipv6 = v
  BY DEF IPAddresses, V6, Groups
<1> QED BY <1>1, <1>2, <1>3

Prefixes == {CompatiblePrefix, MappedPrefix}

\* One of the prefixes, and two more groups.
LEMMA Embedding ==
    ASSUME NEW prefix \in Prefixes,
           NEW a \in 0 .. GroupSize - 1, NEW b \in 0 .. GroupSize - 1
    PROVE  /\ prefix \o <<a, b>> \in Groups
           /\ SubSeq(prefix \o <<a, b>>, 1, 6) = prefix
           /\ (prefix \o <<a, b>>)[7] = a /\ (prefix \o <<a, b>>)[8] = b
<1> DEFINE S == 0 .. GroupSize - 1
           t == <<a, b>>
           e == prefix \o t
<1>1. 0 \in S /\ GroupSize - 1 \in S
  BY Sizes
<1>2. prefix \in Seq(S) /\ Len(prefix) = 6 /\ prefix \in [1 .. 6 -> S]
  <2> HIDE DEF S
  <2>1. CASE prefix = CompatiblePrefix
    BY <1>1, <2>1 DEF CompatiblePrefix
  <2>2. CASE prefix = MappedPrefix
    <3> DEFINE g == GroupSize - 1
    <3>1. prefix = <<0, 0, 0, 0, 0, g>> /\ g \in S
      BY <1>1, <2>2 DEF MappedPrefix
    <3> HIDE DEF g
    <3> QED BY <1>1, <3>1
  <2> QED BY <2>1, <2>2 DEF Prefixes
<1>3. t \in Seq(S) /\ Len(t) = 2 /\ t[1] = a /\ t[2] = b
  <2>1. a \in S /\ b \in S
    OBVIOUS
  <2> HIDE DEF S
  <2> QED BY <2>1
<1> HIDE DEF S, t
<1>4. /\ e \in Seq(S) /\ Len(e) = 8
      /\ \A i \in 1 .. 8 : e[i] = IF i <= 6 THEN prefix[i] ELSE t[i - 6]
  <2>1. /\ e \in Seq(S) /\ Len(e) = Len(prefix) + Len(t)
        /\ \A i \in 1 .. Len(prefix) + Len(t) :
             e[i] = IF i <= Len(prefix) THEN prefix[i] ELSE t[i - Len(prefix)]
    BY <1>2, <1>3, ConcatProperties, Zenon
  <2> HIDE DEF e
  <2> QED BY <1>2, <1>3, <2>1
<1> HIDE DEF e
<1>5. e \in Groups
  BY <1>4, LenProperties DEF Groups, S
<1>6. e[7] = a /\ e[8] = b
  BY <1>3, <1>4
<1>7. SubSeq(e, 1, 6) = prefix
  <2> DEFINE c == SubSeq(e, 1, 6)
  <2>0. \A i \in 1 .. 6 : e[i] \in S
    BY <1>2, <1>4
  <2>1. c \in Seq(S) /\ Len(c) = 6 /\ \A i \in 1 .. 6 - 1 + 1 : c[i] = e[1 + i - 1]
    BY <2>0, SubSeqProperties
  <2> HIDE DEF c
  <2>2. \A i \in 1 .. 6 : c[i] = prefix[i]
    BY <1>4, <2>1
  <2>3. c = prefix
    BY <1>2, <2>1, <2>2, SeqEqual
  <2> QED BY <2>3 DEF c
<1> QED BY <1>5, <1>6, <1>7 DEF e, t

\* The part of the lower word that an embedded IPV4 takes.
Tail2(v6) == With(v6[7], GroupSize, v6[8])

LEMMA TailIs ==
    ASSUME NEW v \in Groups
    PROVE  Tail2(v) \in 0 .. V4Size - 1
<1> DEFINE a == v[7]
           b == v[8]
<1>1. a \in 0 .. GroupSize - 1 /\ b \in 0 .. GroupSize - 1 /\ GroupSize \in Nat \ {0}
  BY Sizes DEF Groups
<1> HIDE DEF a, b
<1>2. a * GroupSize + b \in 0 .. GroupSize * GroupSize - 1
  BY <1>1, Horner
<1> QED BY <1>2 DEF a, b, V4Size, Tail2, With

LEMMA ExtractIs ==
    ASSUME NEW v \in Groups
    PROVE  /\ Extract(V6(v)) = V4(unpackV4(Tail2(v)))
           /\ Extract(V6(v)) \in IPAddresses /\ Extract(V6(v)).type = "V4"
<1>1. Extract(V6(v)) = V4(unpackV4(Tail2(v)))
  BY AddressesAre DEF Extract, Tail2, With
<1>2. unpackV4(Tail2(v)) \in Numerals(ByteSize)
  BY TailIs, PackingV4
<1> QED BY <1>1, <1>2, AddressesAre

LEMMA EmbedIs ==
    ASSUME NEW prefix \in Prefixes,
           NEW a \in IPAddresses, a.type = "V4"
    PROVE  \E v \in Groups : /\ Embed(prefix, a) = V6(v)
                             /\ SubSeq(v, 1, 6) = prefix
                             /\ Tail2(v) = packV4(a.ipv4)
<1> DEFINE n == packV4(a.ipv4)
<1>1. n \in 0 .. V4Size - 1
  BY AddressesAre, PackingV4
<1>2. Embed(prefix, a) = V6(prefix \o <<n \div GroupSize, n % GroupSize>>)
  BY DEF Embed
<1> HIDE DEF n
<1>3. PICK x \in 0 .. GroupSize - 1, y \in 0 .. GroupSize - 1 :
        x = n \div GroupSize /\ y = n % GroupSize /\ n = With(x, GroupSize, y)
  <2>1. n \in 0 .. GroupSize * GroupSize - 1 /\ GroupSize \in Nat \ {0}
    BY <1>1, Sizes DEF V4Size
  <2>2. n \div GroupSize \in 0 .. GroupSize - 1
    BY <2>1, Quotient
  <2>3. n % GroupSize \in 0 .. GroupSize - 1 /\ n = (n \div GroupSize) * GroupSize + (n % GroupSize)
    BY <2>1, Division
  <2> QED BY <2>2, <2>3, Zenon DEF With
<1>4. PICK v : v = prefix \o <<x, y>>
  OBVIOUS
<1>5. v \in Groups /\ SubSeq(v, 1, 6) = prefix /\ v[7] = x /\ v[8] = y
  BY <1>4, Embedding
<1>6. Embed(prefix, a) = V6(v)
  BY <1>2, <1>3, <1>4, Zenon
<1>7. Tail2(v) = n
  BY <1>3, <1>5, Zenon DEF Tail2
<1> QED BY <1>5, <1>6, <1>7 DEF n

-----------------------------------------------------------------------------
(* The walk. *)

LEMMA PlusIs ==
    ASSUME NEW a \in IPAddresses, a.type = "V6"
    PROVE  /\ Plus(a, 1) = V6(unpackV6(AddV6(<<Upper(a.ipv6), Lower(a.ipv6)>>, 1)))
           /\ Minus(a, 1) = V6(unpackV6(SubtractV6(<<Upper(a.ipv6), Lower(a.ipv6)>>, 1)))
BY AddressesAre, PackingV6 DEF Plus, Minus

LEMMA WordsUnpack ==
    ASSUME NEW m \in Int
    PROVE  /\ V6(unpackV6(Words(m))) \in IPAddresses
           /\ V6(unpackV6(Words(m))).type = "V6"
           /\ packV6(V6(unpackV6(Words(m))).ipv6) = Words(m)
<1> DEFINE h == Words(m)[1]
           l == Words(m)[2]
           v == unpackV6(<<h, l>>)
<1>1. h \in Word /\ l \in Word /\ Words(m) = <<h, l>>
  BY WordsAre
<1> HIDE DEF h, l
<1>2. v \in Groups /\ Upper(v) = h /\ Lower(v) = l
  BY <1>1, PackingV6
<1> HIDE DEF v
<1>3. packV6(v) = <<h, l>>
  BY <1>2, PackingV6
<1>4. V6(v) \in IPAddresses /\ V6(v).type = "V6" /\ V6(v).ipv6 = v
  BY <1>2, AddressesAre
<1> QED BY <1>1, <1>3, <1>4 DEF v

\* What a step adds up to.
LEMMA AdvancedOnIPV4 ==
    ASSUME NEW a \in IPAddresses, a.type = "V4", NEW n \in Int, NEW v \in Int
    PROVE  /\ Advanced(a, n) \in IPAddresses /\ Advanced(a, n).type = "V4"
           /\ Plus(Advanced(a, n), v) = Advanced(a, n + v)
           /\ Minus(Advanced(a, n), v) = Advanced(a, n - v)
<1> DEFINE k == packV4(a.ipv4)
           r == (k + n) % V4Size
           d == unpackV4(r)
<1>1. k \in Int
  BY AddressesAre, PackingV4
<1> HIDE DEF k
<1>2. r \in 0 .. V4Size - 1 /\ k + n \in Int /\ -v \in Int
  <2> DEFINE s == k + n
  <2>1. s \in Int /\ -v \in Int
    BY <1>1
  <2> HIDE DEF s
  <2>2. s % V4Size \in 0 .. V4Size - 1
    BY <2>1, Sizes, Division
  <2> QED BY <2>1, <2>2 DEF s
<1>3. (r + v) % V4Size = (k + (n + v)) % V4Size
  <2>1. (r + v) % V4Size = ((k + n) + v) % V4Size
    BY <1>2, Sizes, Modulo, Zenon
  <2>2. (k + n) + v = k + (n + v)
    BY <1>1
  <2> QED BY <2>1, <2>2, Zenon
<1>4. (r - v) % V4Size = (k + (n - v)) % V4Size
  <2>1. (r + (-v)) % V4Size = ((k + n) + (-v)) % V4Size
    BY <1>2, Sizes, Modulo, Zenon
  <2>2. (k + n) + (-v) = k + (n - v) /\ r + (-v) = r - v
    <3> HIDE DEF r
    <3> QED BY <1>1, <1>2
  <2> QED BY <2>1, <2>2, Zenon
<1>5. Advanced(a, n) = V4(d)
  BY DEF Advanced, k
<1>6. Advanced(a, n + v) = V4(unpackV4((k + (n + v)) % V4Size))
  BY DEF Advanced, k
<1>7. Advanced(a, n - v) = V4(unpackV4((k + (n - v)) % V4Size))
  BY DEF Advanced, k
<1> HIDE DEF r
<1>8. d \in Numerals(ByteSize) /\ packV4(d) = r
  BY <1>2, PackingV4
<1> HIDE DEF d
<1>9. V4(d) \in IPAddresses /\ V4(d).type = "V4" /\ V4(d).ipv4 = d
  BY <1>8, AddressesAre
<1>10. /\ Plus(V4(d), v) = V4(unpackV4((r + v) % V4Size))
       /\ Minus(V4(d), v) = V4(unpackV4((r - v) % V4Size))
  BY <1>8, <1>9 DEF Plus, Minus
<1> QED BY <1>3, <1>4, <1>5, <1>6, <1>7, <1>9, <1>10, Zenon

LEMMA AdvancedOnIPV6 ==
    ASSUME NEW a \in IPAddresses, a.type = "V6", NEW n \in Int, NEW v \in {0, 1}
    PROVE  /\ Advanced(a, n) \in IPAddresses /\ Advanced(a, n).type = "V6"
           /\ Plus(Advanced(a, n), v) = Advanced(a, n + v)
           /\ Minus(Advanced(a, n), v) = Advanced(a, n - v)
<1> DEFINE k == packV6(a.ipv6)[1] * WordSize + packV6(a.ipv6)[2]
           w == Words(k + n)
           d == V6(unpackV6(w))
<1>1. k \in Int
  <2>1. packV6(a.ipv6) = <<Upper(a.ipv6), Lower(a.ipv6)>>
    BY AddressesAre, PackingV6
  <2>2. Upper(a.ipv6) \in Int /\ Lower(a.ipv6) \in Int /\ WordSize \in Int
    BY AddressesAre, PackingV6, Sizes DEF Word
  <2> QED BY <2>1, <2>2
<1>2. \A e \in Int : Advanced(a, e) = V6(unpackV6(Words(k + e)))
  <2> SUFFICES ASSUME NEW e \in Int PROVE Advanced(a, e) = V6(unpackV6(Words(k + e)))
      OBVIOUS
  <2>1. a.type # "V4"
    OBVIOUS
  <2> QED BY <2>1 DEF Advanced, Words
<1> HIDE DEF k
<1>3. k + n \in Int /\ n + v \in Int /\ n - v \in Int
  BY <1>1
<1>4. d \in IPAddresses /\ d.type = "V6" /\ packV6(d.ipv6) = w
  BY <1>3, WordsUnpack
<1>5. /\ AddV6(w, v) = Words(k + (n + v))
      /\ SubtractV6(w, v) = Words(k + (n - v))
  <2>1. CASE v = 0
    <3>1. k + (n + v) = k + n /\ k + (n - v) = k + n
      BY <1>1, <2>1
    <3> QED BY <1>3, <2>1, <3>1, StepsOfWords, Zenon
  <2>2. CASE v = 1
    <3>1. k + (n + v) = (k + n) + 1 /\ k + (n - v) = (k + n) - 1
      BY <1>1, <2>2
    <3> QED BY <1>3, <2>2, <3>1, StepsOfWords, Zenon
  <2> QED BY <2>1, <2>2
<1>6. Advanced(a, n) = d
  BY <1>2
<1> HIDE DEF d
<1>7. /\ Plus(d, v) = V6(unpackV6(AddV6(w, v)))
      /\ Minus(d, v) = V6(unpackV6(SubtractV6(w, v)))
  BY <1>4 DEF Plus, Minus
<1> HIDE DEF w
<1>8. /\ Advanced(a, n + v) = V6(unpackV6(Words(k + (n + v))))
      /\ Advanced(a, n - v) = V6(unpackV6(Words(k + (n - v))))
  BY <1>2, <1>3
<1> QED BY <1>4, <1>5, <1>6, <1>7, <1>8, Zenon

LEMMA AdvancedByNone ==
    ASSUME NEW a \in IPAddresses, a.type # "None"
    PROVE  a = Advanced(a, 0)
<1>1. CASE a.type = "V4"
  <2> DEFINE k == packV4(a.ipv4)
  <2>1. k \in 0 .. V4Size - 1 /\ V4(unpackV4(k)) = a
    BY <1>1, AddressesAre, PackingV4
  <2>2. (k + 0) % V4Size = k
    <3> HIDE DEF k
    <3>1. k + 0 = k
      BY <2>1
    <3> QED BY <2>1, <3>1, Sizes, Remainder
  <2> QED BY <1>1, <2>1, <2>2 DEF Advanced
<1>2. CASE a.type = "V6"
  <2> DEFINE h == Upper(a.ipv6)
             l == Lower(a.ipv6)
             m == h * WordSize + l
  <2>1. /\ h \in Word /\ l \in Word /\ packV6(a.ipv6) = <<h, l>>
        /\ V6(unpackV6(<<h, l>>)) = a
    BY <1>2, AddressesAre, PackingV6
  <2>2. Advanced(a, 0) = V6(unpackV6(Words(h * WordSize + l + 0)))
    BY <1>2, <2>1 DEF Advanced, Words
  <2> HIDE DEF h, l
  <2>3. h * WordSize + l + 0 = h * WordSize + l /\ h \in 0 .. WordSize - 1 /\ h \in Int
    BY <2>1, Sizes DEF Word, MaxWord
  <2>4. h % WordSize = h
    BY <2>3, Sizes, Remainder
  <2>5. Words(h * WordSize + l) = <<h, l>>
    BY <2>1, <2>3, <2>4, WordsOf
  <2> QED BY <2>1, <2>2, <2>3, <2>5, Zenon
<1>3. a.type = "V4" \/ a.type = "V6"
  BY AddressesAre
<1> QED BY <1>1, <1>2, <1>3

\* Only what operator++ and operator-- add and subtract (ipAddress.cpp:656, 673).
ByOne == Values \subseteq {0, 1}

TypeOK ==
    /\ ip \in IPAddresses
    /\ origin \in IPAddresses
    /\ ip.type = origin.type
    /\ offset \in Int

\* An IPV4 is exact by any value, an IPV6 by one; see WalkIsExact for more.
Exact == ip.type # "None" /\ (ip.type = "V4" \/ ByOne) => ip = Advanced(origin, offset)

LEMMA StartFits ==
    ASSUME NEW a \in IPAddresses, a.type # "None", StartAt(a)
    PROVE  TypeOK' /\ Exact'
<1>1. ip' = a /\ origin' = a /\ offset' = 0
  BY DEF StartAt
<1>2. TypeOK'
  BY <1>1 DEF TypeOK
<1>3. ip' = Advanced(origin', offset')
  BY <1>1, AdvancedByNone
<1> QED BY <1>2, <1>3 DEF Exact

LEMMA WordsStayWords ==
    ASSUME NEW h \in Word, NEW l \in Word, NEW v \in Word
    PROVE  /\ \E x, y \in Word : AddV6(<<h, l>>, v) = <<x, y>>
           /\ \E x, y \in Word : SubtractV6(<<h, l>>, v) = <<x, y>>
<1> DEFINE p == <<h, l>>
<1>1. /\ p[1] = h /\ p[2] = l /\ MaxWord \in Nat \ {0}
      /\ h \in 0 .. MaxWord /\ l \in 0 .. MaxWord /\ v \in 0 .. MaxWord
  BY WordIs DEF Word
<1> HIDE DEF p
<1>2. \E x, y \in Word : AddV6(p, v) = <<x, y>>
  <2> DEFINE carry == v - (MaxWord - l)
  <2>1. CASE MaxWord - l >= v
    <3>1. ~(MaxWord - l < v) /\ h \in Word /\ l + v \in Word
      BY <1>1, <2>1 DEF Word
    <3>2. AddV6(p, v) = <<h, l + v>>
      BY <1>1, <2>1, <3>1 DEF AddV6
    <3> QED BY <3>1, <3>2
  <2>2. CASE MaxWord - l < v /\ MaxWord - h >= carry
    <3>1. ~(MaxWord - l >= v) /\ ~(MaxWord - h < carry) /\ h + carry \in Word /\ 0 \in Word
      BY <1>1, <2>2 DEF Word
    <3>2. AddV6(p, v) = <<h + carry, 0>>
      BY <1>1, <2>2, <3>1 DEF AddV6
    <3> QED BY <3>1, <3>2
  <2>3. CASE MaxWord - l < v /\ MaxWord - h < carry
    <3>1. /\ ~(MaxWord - l >= v) /\ ~(MaxWord - h >= carry)
          /\ carry - (MaxWord - h) - 1 \in Word /\ 0 \in Word
      BY <1>1, <2>3 DEF Word
    <3>2. AddV6(p, v) = <<0, carry - (MaxWord - h) - 1>>
      BY <1>1, <2>3, <3>1 DEF AddV6
    <3> QED BY <3>1, <3>2
  <2>4. \/ MaxWord - l >= v
        \/ MaxWord - l < v /\ MaxWord - h >= carry
        \/ MaxWord - l < v /\ MaxWord - h < carry
    BY <1>1
  <2> QED BY <2>1, <2>2, <2>3, <2>4
<1>3. \E x, y \in Word : SubtractV6(p, v) = <<x, y>>
  <2> DEFINE borrow == v - l
  <2>1. CASE l >= v
    <3>1. ~(l < v) /\ h \in Word /\ l - v \in Word
      BY <1>1, <2>1 DEF Word
    <3>2. SubtractV6(p, v) = <<h, l - v>>
      BY <1>1, <2>1, <3>1 DEF SubtractV6
    <3> QED BY <3>1, <3>2
  <2>2. CASE l < v /\ h >= borrow
    <3>1. ~(l >= v) /\ ~(h < borrow) /\ h - borrow \in Word /\ MaxWord \in Word
      BY <1>1, <2>2 DEF Word
    <3>2. SubtractV6(p, v) = <<h - borrow, MaxWord>>
      BY <1>1, <2>2, <3>1 DEF SubtractV6
    <3> QED BY <3>1, <3>2
  <2>3. CASE l < v /\ h < borrow
    <3>1. /\ ~(l >= v) /\ ~(h >= borrow)
          /\ MaxWord - (borrow - h - 1) \in Word /\ MaxWord \in Word
      BY <1>1, <2>3 DEF Word
    <3>2. SubtractV6(p, v) = <<MaxWord, MaxWord - (borrow - h - 1)>>
      BY <1>1, <2>3, <3>1 DEF SubtractV6
    <3> QED BY <3>1, <3>2
  <2>4. l >= v \/ (l < v /\ h >= borrow) \/ (l < v /\ h < borrow)
    BY <1>1
  <2> QED BY <2>1, <2>2, <2>3, <2>4
<1> QED BY <1>2, <1>3 DEF p

LEMMA WalkKeepsType ==
    ASSUME NEW a \in IPAddresses, a.type # "None", NEW v \in 0 .. V4Size - 1
    PROVE  /\ Plus(a, v) \in IPAddresses /\ Plus(a, v).type = a.type
           /\ Minus(a, v) \in IPAddresses /\ Minus(a, v).type = a.type
<1>1. CASE a.type = "V4"
  <2>1. a = Advanced(a, 0) /\ v \in Int /\ 0 \in Int /\ 0 + v \in Int /\ 0 - v \in Int
    BY AdvancedByNone, Sizes
  <2>2. Plus(a, v) = Advanced(a, 0 + v) /\ Minus(a, v) = Advanced(a, 0 - v)
    BY <1>1, <2>1, AdvancedOnIPV4
  <2>3. /\ Advanced(a, 0 + v) \in IPAddresses /\ Advanced(a, 0 + v).type = "V4"
        /\ Advanced(a, 0 - v) \in IPAddresses /\ Advanced(a, 0 - v).type = "V4"
    BY <1>1, <2>1, AdvancedOnIPV4, Zenon
  <2> QED BY <1>1, <2>2, <2>3
<1>2. CASE a.type = "V6"
  <2> DEFINE h == Upper(a.ipv6)
             l == Lower(a.ipv6)
  <2>1. h \in Word /\ l \in Word /\ packV6(a.ipv6) = <<h, l>>
    BY <1>2, AddressesAre, PackingV6
  <2>2. v \in Word
    <3>1. WordSize >= V4Size /\ WordSize \in Nat /\ V4Size \in Nat
      BY Sizes, Product DEF WordSize
    <3> QED BY <3>1 DEF Word, MaxWord
  <2>3. \A x, y \in Word : /\ V6(unpackV6(<<x, y>>)) \in IPAddresses
                           /\ V6(unpackV6(<<x, y>>)).type = "V6"
    BY PackingV6, AddressesAre
  <2>4. /\ Plus(a, v) = V6(unpackV6(AddV6(<<h, l>>, v)))
        /\ Minus(a, v) = V6(unpackV6(SubtractV6(<<h, l>>, v)))
    BY <1>2, <2>1 DEF Plus, Minus
  <2> HIDE DEF h, l
  <2>5. /\ \E x, y \in Word : AddV6(<<h, l>>, v) = <<x, y>>
        /\ \E x, y \in Word : SubtractV6(<<h, l>>, v) = <<x, y>>
    BY <2>1, <2>2, WordsStayWords
  <2> QED BY <1>2, <2>3, <2>4, <2>5
<1>3. a.type = "V4" \/ a.type = "V6"
  BY AddressesAre
<1> QED BY <1>1, <1>2, <1>3

\* A step up or down, to an address of the same type that is as far as it adds up to.
LEMMA WalkFits ==
    ASSUME TypeOK, Exact, NEW v \in 0 .. V4Size - 1,
           ByOne => v \in {0, 1},
           Walk(Plus(ip, v), v) \/ Walk(Minus(ip, v), -v)
    PROVE  TypeOK' /\ Exact'
<1>1. /\ ip.type # "None" /\ origin' = origin /\ v \in Int
      /\ ip \in IPAddresses /\ origin \in IPAddresses /\ ip.type = origin.type
      /\ offset \in Int
  BY DEF Walk, TypeOK
<1>2. TypeOK'
  <2>1. ip' \in IPAddresses /\ ip'.type = ip.type
    BY <1>1, WalkKeepsType DEF Walk
  <2>2. offset' \in Int
    BY <1>1 DEF Walk
  <2> QED BY <1>1, <2>1, <2>2 DEF TypeOK
<1>3. ip'.type = ip.type
  BY <1>1, WalkKeepsType DEF Walk
<1>4. ASSUME ip.type = "V4" \/ ByOne
      PROVE  ip' = Advanced(origin', offset')
  <2>1. ip = Advanced(origin, offset)
    BY <1>1, <1>4 DEF Exact
  <2>2. /\ Plus(Advanced(origin, offset), v) = Advanced(origin, offset + v)
        /\ Minus(Advanced(origin, offset), v) = Advanced(origin, offset - v)
    <3>1. CASE ip.type = "V4"
      BY <1>1, <3>1, AdvancedOnIPV4
    <3>2. CASE ip.type = "V6"
      <4>1. v \in {0, 1}
        BY <1>4, <3>2
      <4> QED BY <1>1, <3>2, <4>1, AdvancedOnIPV6
    <3>3. ip.type = "V4" \/ ip.type = "V6"
      BY <1>1, AddressesAre
    <3> QED BY <3>1, <3>2, <3>3
  <2>3. CASE Walk(Plus(ip, v), v)
    BY <1>1, <2>1, <2>2, <2>3, Zenon DEF Walk
  <2>4. CASE Walk(Minus(ip, v), -v)
    <3>1. offset' = offset - v /\ ip' = Minus(ip, v)
      BY <1>1, <2>4 DEF Walk
    <3> QED BY <1>1, <2>1, <2>2, <3>1, Zenon
  <2> QED BY <2>3, <2>4
<1> QED BY <1>2, <1>3, <1>4 DEF Exact

LEMMA NextFits ==
    ASSUME TypeOK, Exact, Next
    PROVE  TypeOK' /\ Exact'
<1>1. ip \in IPAddresses
  BY DEF TypeOK
<1>2. CASE SetValue
  BY <1>2, OriginsAssumption, AddressesAre, StartFits DEF SetValue
<1>3. \A v \in Values : v \in 0 .. V4Size - 1 /\ (ByOne => v \in {0, 1})
  BY ValuesAssumption DEF ByOne
<1>4. 1 \in 0 .. V4Size - 1 /\ 1 \in {0, 1}
  <2>1. V4Size >= GroupSize
    BY Sizes, Product DEF V4Size
  <2> QED BY <2>1, Sizes
<1>5. CASE Add \/ Subtract
  BY <1>3, <1>5, WalkFits, Zenon DEF Add, Subtract
<1>6. CASE Increment \/ Decrement
  BY <1>4, <1>6, WalkFits, Zenon DEF Increment, Decrement
<1>7. CASE EmbedCompatible \/ EmbedMapped
  <2>1. PICK prefix \in Prefixes :
          ip.type = "V4" /\ StartAt(Embed(prefix, ip))
    BY <1>7 DEF EmbedCompatible, EmbedMapped, Prefixes
  <2>2. PICK v \in Groups : Embed(prefix, ip) = V6(v)
    BY <1>1, <2>1, EmbedIs
  <2>3. V6(v) \in IPAddresses /\ V6(v).type # "None"
    BY AddressesAre
  <2> QED BY <2>1, <2>2, <2>3, StartFits
<1>8. CASE ExtractEmbedded
  <2>1. ip.type = "V6" /\ StartAt(Extract(ip))
    BY <1>8 DEF ExtractEmbedded, isIPV4Compatible, isIPV4Mapped
  <2>2. ip.ipv6 \in Groups /\ ip = V6(ip.ipv6)
    BY <1>1, <2>1, AddressesAre
  <2>3. Extract(ip) \in IPAddresses /\ Extract(ip).type = "V4"
    BY <2>2, ExtractIs
  <2> QED BY <2>1, <2>3, StartFits
<1> QED BY <1>2, <1>5, <1>6, <1>7, <1>8 DEF Next

\* Every step keeps the types, and the distance from the origin.
LEMMA Inductive == Spec => [](TypeOK /\ Exact)
<1>1. Init => TypeOK /\ Exact
  <2> SUFFICES ASSUME Init PROVE TypeOK /\ Exact
      OBVIOUS
  <2>1. ip = None /\ origin = None /\ offset = 0
    BY DEF Init
  <2> QED BY <2>1 DEF TypeOK, Exact, IPAddresses, None
<1>2. TypeOK /\ Exact /\ [Next]_vars => (TypeOK /\ Exact)'
  <2> SUFFICES ASSUME TypeOK, Exact, [Next]_vars PROVE (TypeOK /\ Exact)'
      OBVIOUS
  <2>1. CASE Next
    BY <2>1, NextFits
  <2>2. CASE UNCHANGED vars
    BY <2>2 DEF vars, TypeOK, Exact
  <2> QED BY <2>1, <2>2
<1> QED BY <1>1, <1>2, PTL DEF Spec

\* The address is None, an IPV4 of four bytes or an IPV6 of eight groups, of
\* the type its walk began with, whatever is added to it: AddV6 and SubtractV6
\* (ipAddress.cpp) keep to 64 bits, carrying and borrowing.
THEOREM TypeCorrect == Spec => []TypeOK
BY Inductive, PTL

\* An IPV4 is as far from its origin as all that was added to it and subtracted
\* says, around the end of the addresses, by values of any size.
THEOREM WalkOfIPV4IsExact == Spec => [](ip.type = "V4" => WalkIsExact)
<1>1. Exact => (ip.type = "V4" => WalkIsExact)
  BY DEF Exact, WalkIsExact
<1> QED BY <1>1, Inductive, PTL

\* hpp:188, 191: by steps of one, as operator++ and operator-- take them, so is
\* an IPV6, over the carry into its upper word and around the end. By more than
\* one it is not: a carry adds all that overflows to the upper word and clears
\* the lower one (ipAddress.cpp:588-604).
THEOREM WalkIsExactByOne ==
    ASSUME ByOne
    PROVE  Spec => []WalkIsExact
<1>1. Exact => WalkIsExact
  BY DEF Exact, WalkIsExact
<1> QED BY <1>1, Inductive, PTL

-----------------------------------------------------------------------------
(* The order. *)

\* Whether the first four elements are equal, and how the last four compare.
FirstEqual(d, e) == d[1] = e[1] /\ d[2] = e[2] /\ d[3] = e[3] /\ d[4] = e[4]
LastLess(d, e) ==
    \/ d[5] < e[5]
    \/ d[5] = e[5] /\ d[6] < e[6]
    \/ d[5] = e[5] /\ d[6] = e[6] /\ d[7] < e[7]
    \/ d[5] = e[5] /\ d[6] = e[6] /\ d[7] = e[7] /\ d[8] < e[8]

LEMMA OrderOfEight ==
    ASSUME NEW v \in Groups, NEW w \in Groups
    PROVE  LexicographicallyLess(v, w) <=>
             FirstLess(v, w) \/ (FirstEqual(v, w) /\ LastLess(v, w))
<1>1. DOMAIN v = 1 .. 8
  BY DEF Groups
<1>2. \A i \in 1 .. 8 : i = 1 \/ i = 2 \/ i = 3 \/ i = 4 \/ i = 5 \/ i = 6 \/ i = 7 \/ i = 8
  OBVIOUS
<1>3. /\ 1 .. 1 - 1 = {} /\ 1 .. 2 - 1 = {1} /\ 1 .. 3 - 1 = {1, 2} /\ 1 .. 4 - 1 = {1, 2, 3}
      /\ 1 .. 5 - 1 = {1, 2, 3, 4} /\ 1 .. 6 - 1 = {1, 2, 3, 4, 5}
      /\ 1 .. 7 - 1 = {1, 2, 3, 4, 5, 6} /\ 1 .. 8 - 1 = {1, 2, 3, 4, 5, 6, 7}
  OBVIOUS
<1> DEFINE Decides(i) == v[i] < w[i] /\ \A j \in 1 .. i - 1 : v[j] = w[j]
<1>4. LexicographicallyLess(v, w) <=>
        \/ Decides(1) \/ Decides(2) \/ Decides(3) \/ Decides(4)
        \/ Decides(5) \/ Decides(6) \/ Decides(7) \/ Decides(8)
  <2>1. LexicographicallyLess(v, w) <=> \E i \in 1 .. 8 : Decides(i)
    BY <1>1 DEF LexicographicallyLess
  <2> HIDE DEF Decides
  <2> QED BY <1>2, <2>1
<1>5. Decides(1) \/ Decides(2) \/ Decides(3) \/ Decides(4) <=> FirstLess(v, w)
  BY <1>3 DEF FirstLess
<1>6. /\ Decides(5) <=> FirstEqual(v, w) /\ v[5] < w[5]
      /\ Decides(6) <=> FirstEqual(v, w) /\ v[5] = w[5] /\ v[6] < w[6]
  BY <1>3 DEF FirstEqual
<1>7. /\ Decides(7) <=> FirstEqual(v, w) /\ v[5] = w[5] /\ v[6] = w[6] /\ v[7] < w[7]
      /\ Decides(8) <=> FirstEqual(v, w) /\ v[5] = w[5] /\ v[6] = w[6] /\ v[7] = w[7]
                          /\ v[8] < w[8]
  BY <1>3 DEF FirstEqual
<1> HIDE DEF Decides
<1> QED BY <1>4, <1>5, <1>6, <1>7, Zenon DEF LastLess

\* Groups compare from the first on as the two words do.
LEMMA OrderOfWords ==
    ASSUME NEW v \in Groups, NEW w \in Groups
    PROVE  LexicographicallyLess(v, w) <=>
             Upper(v) < Upper(w) \/ (Upper(v) = Upper(w) /\ Lower(v) < Lower(w))
<1> DEFINE a == SubSeq(v, 1, 4)
           b == SubSeq(v, 5, 8)
           c == SubSeq(w, 1, 4)
           d == SubSeq(w, 5, 8)
<1>1. /\ a \in Numerals(GroupSize) /\ a = <<v[1], v[2], v[3], v[4]>>
      /\ b \in Numerals(GroupSize) /\ b = <<v[5], v[6], v[7], v[8]>>
      /\ c \in Numerals(GroupSize) /\ c = <<w[1], w[2], w[3], w[4]>>
      /\ d \in Numerals(GroupSize) /\ d = <<w[5], w[6], w[7], w[8]>>
  BY Halves, Zenon
<1>2. /\ Upper(v) = Number(a, GroupSize) /\ Lower(v) = Number(b, GroupSize)
      /\ Upper(w) = Number(c, GroupSize) /\ Lower(w) = Number(d, GroupSize)
  BY DEF Upper, Lower
<1> HIDE DEF a, b, c, d
<1>3. FirstLess(a, c) <=> Upper(v) < Upper(w)
  BY <1>1, <1>2, Sizes, OrderOfFour, OrderOfNumbers
<1>4. FirstLess(b, d) <=> Lower(v) < Lower(w)
  BY <1>1, <1>2, Sizes, OrderOfFour, OrderOfNumbers
<1>5. FirstEqual(v, w) <=> Upper(v) = Upper(w)
  <2>1. FirstEqual(v, w) <=> a = c
    BY <1>1 DEF FirstEqual
  <2>2. Upper(v) = Upper(w) => a = c
    BY <1>1, <1>2, Sizes, DigitsOfNumber
  <2> QED BY <1>2, <2>1, <2>2
<1>6. FirstLess(a, c) <=> FirstLess(v, w)
  BY <1>1 DEF FirstLess
<1>7. FirstLess(b, d) <=> LastLess(v, w)
  BY <1>1 DEF FirstLess, LastLess
<1> QED BY <1>3, <1>4, <1>5, <1>6, <1>7, OrderOfEight

\* The numbers with all digits 0, and with all digits the greatest.
LEMMA Extremes ==
    ASSUME NEW base \in Nat \ {0}, NEW d \in Numerals(base)
    PROVE  /\ Number(d, base) = 0 <=> FirstEqual(d, <<0, 0, 0, 0>>)
           /\ Number(d, base) = Size(base) - 1 <=>
                FirstEqual(d, <<base - 1, base - 1, base - 1, base - 1>>)
<1> DEFINE z == <<0, 0, 0, 0>>
           t == <<base - 1, base - 1, base - 1, base - 1>>
<1>1. z \in Numerals(base) /\ t \in Numerals(base)
  BY TuplesAreNumerals
<1>2. Number(z, base) = 0
  BY DEF Number
<1>3. Number(t, base) = Size(base) - 1
  <2> DEFINE x == base - 1
  <2>1. Number(t, base) = ((x * base + x) * base + x) * base + x
    BY DEF Number
  <2>2. x * base + x = base * base - 1
    OBVIOUS
  <2> DEFINE g == base * base
  <2>3. (g - 1) * base + x = g * base - 1
    <3>1. g \in Nat
      BY SizeIs
    <3> HIDE DEF g
    <3> QED BY <3>1
  <2> DEFINE k == g * base
  <2>4. (k - 1) * base + x = k * base - 1
    <3>1. k \in Nat
      BY SizeIs
    <3> HIDE DEF k
    <3> QED BY <3>1
  <2> QED BY <2>1, <2>2, <2>3, <2>4, SizeIs
<1>4. \A e \in Numerals(base) :
        Number(d, base) = Number(e, base) <=> FirstEqual(d, e)
  <2> SUFFICES ASSUME NEW e \in Numerals(base)
               PROVE  Number(d, base) = Number(e, base) <=> FirstEqual(d, e)
      OBVIOUS
  <2>1. Number(d, base) = Number(e, base) => d = e
    BY DigitsOfNumber
  <2>2. FirstEqual(d, e) => d = e
    BY NumeralsEqual DEF FirstEqual
  <2> QED BY <2>1, <2>2 DEF FirstEqual
<1> HIDE DEF z, t
<1>5. /\ Number(d, base) = 0 <=> FirstEqual(d, z)
      /\ Number(d, base) = Size(base) - 1 <=> FirstEqual(d, t)
  BY <1>1, <1>2, <1>3, <1>4, Zenon
<1> QED BY <1>5 DEF z, t

LEMMA ExtremesOfIPV4 ==
    ASSUME NEW a \in IPAddresses, a.type = "V4"
    PROVE  /\ IsFirst(a) <=> packV4(a.ipv4) = 0
           /\ IsLast(a) <=> packV4(a.ipv4) = V4Size - 1
<1> DEFINE d == a.ipv4
           t == ByteSize - 1
<1>1. d \in Numerals(ByteSize)
  BY AddressesAre
<1>2. \A i \in 1 .. 4 : i = 1 \/ i = 2 \/ i = 3 \/ i = 4
  OBVIOUS
<1>3. /\ packV4(d) = 0 <=> FirstEqual(d, <<0, 0, 0, 0>>)
      /\ packV4(d) = V4Size - 1 <=> FirstEqual(d, <<t, t, t, t>>)
  BY <1>1, Sizes, Extremes DEF packV4
<1>4. /\ IsFirst(a) <=> \A i \in 1 .. 4 : d[i] = 0
      /\ IsLast(a) <=> \A i \in 1 .. 4 : d[i] = t
  BY DEF IsFirst, IsLast
<1> HIDE DEF d, t
<1> QED BY <1>2, <1>3, <1>4 DEF FirstEqual, d

LEMMA ExtremesOfIPV6 ==
    ASSUME NEW a \in IPAddresses, a.type = "V6"
    PROVE  /\ IsFirst(a) <=> Upper(a.ipv6) = 0 /\ Lower(a.ipv6) = 0
           /\ IsLast(a) <=> Upper(a.ipv6) = MaxWord /\ Lower(a.ipv6) = MaxWord
<1> DEFINE v == a.ipv6
           b == SubSeq(v, 1, 4)
           c == SubSeq(v, 5, 8)
           t == GroupSize - 1
<1>1. v \in Groups
  BY AddressesAre
<1>2. /\ IsFirst(a) <=> \A i \in 1 .. 8 : v[i] = 0
      /\ IsLast(a) <=> \A i \in 1 .. 8 : v[i] = t
  BY DEF IsFirst, IsLast
<1> HIDE DEF v
<1>3. /\ b \in Numerals(GroupSize) /\ b = <<v[1], v[2], v[3], v[4]>>
      /\ c \in Numerals(GroupSize) /\ c = <<v[5], v[6], v[7], v[8]>>
  BY <1>1, Halves, Zenon
<1>4. Upper(v) = Number(b, GroupSize) /\ Lower(v) = Number(c, GroupSize)
  BY DEF Upper, Lower
<1>5. MaxWord = Size(GroupSize) - 1
  BY Sizes DEF MaxWord
<1> HIDE DEF b, c
<1>6. /\ Upper(v) = 0 <=> FirstEqual(b, <<0, 0, 0, 0>>)
      /\ Upper(v) = MaxWord <=> FirstEqual(b, <<t, t, t, t>>)
  BY <1>3, <1>4, <1>5, Sizes, Extremes
<1>7. /\ Lower(v) = 0 <=> FirstEqual(c, <<0, 0, 0, 0>>)
      /\ Lower(v) = MaxWord <=> FirstEqual(c, <<t, t, t, t>>)
  BY <1>3, <1>4, <1>5, Sizes, Extremes
<1> HIDE DEF t
<1>8. \A x : (\A i \in 1 .. 8 : v[i] = x) <=>
               FirstEqual(b, <<x, x, x, x>>) /\ FirstEqual(c, <<x, x, x, x>>)
  <2>1. \A i \in 1 .. 8 : i = 1 \/ i = 2 \/ i = 3 \/ i = 4 \/ i = 5 \/ i = 6 \/ i = 7 \/ i = 8
    OBVIOUS
  <2> QED BY <1>3, <2>1 DEF FirstEqual
<1> QED BY <1>2, <1>6, <1>7, <1>8 DEF v

LEMMA OrderOfIPV4 ==
    ASSUME NEW a \in IPAddresses, a.type = "V4"
    PROVE  /\ LessThan(a, Plus(a, 1)) <=> ~IsLast(a)
           /\ LessThan(Minus(a, 1), a) <=> ~IsFirst(a)
<1> DEFINE n == packV4(a.ipv4)
           up == (n + 1) % V4Size
           down == (n - 1) % V4Size
           d == unpackV4(up)
           e == unpackV4(down)
<1>1. n \in 0 .. V4Size - 1 /\ a.ipv4 \in Numerals(ByteSize)
  BY AddressesAre, PackingV4
<1>2. Plus(a, 1) = V4(d) /\ Minus(a, 1) = V4(e)
  BY DEF Plus, Minus
<1>3. \A x, y \in Numerals(ByteSize) :
        LexicographicallyLess(x, y) <=> packV4(x) < packV4(y)
  BY Sizes, OrderOfNumbers DEF packV4
<1>4. /\ IsFirst(a) <=> n = 0
      /\ IsLast(a) <=> n = V4Size - 1
  BY ExtremesOfIPV4
<1>5. up = IF n = V4Size - 1 THEN 0 ELSE n + 1
  <2> HIDE DEF n
  <2>1. CASE n = V4Size - 1
    <3>1. n + 1 = 1 * V4Size + 0 /\ 0 \in 0 .. V4Size - 1
      BY <2>1, Sizes
    <3> QED BY <2>1, <3>1, Sizes, Unique
  <2>2. CASE n # V4Size - 1
    <3>1. n + 1 \in 0 .. V4Size - 1
      BY <1>1, <2>2, Sizes
    <3> QED BY <2>2, <3>1, Sizes, Remainder
  <2> QED BY <2>1, <2>2
<1>6. down = IF n = 0 THEN V4Size - 1 ELSE n - 1
  <2> HIDE DEF n
  <2>1. CASE n = 0
    <3>1. PICK q \in Int : q + 1 = 0
      OBVIOUS
    <3>2. n - 1 = q * V4Size + (V4Size - 1) /\ V4Size - 1 \in 0 .. V4Size - 1
      BY <2>1, <3>1, Sizes
    <3> DEFINE k == V4Size - 1
    <3>3. n - 1 = q * V4Size + k /\ k \in 0 .. V4Size - 1 /\ V4Size \in Nat \ {0}
      BY <3>2, Sizes
    <3> HIDE DEF k
    <3>4. (q * V4Size + k) % V4Size = k
      BY <3>3, Unique
    <3>5. (n - 1) % V4Size = k
      BY <3>3, <3>4, Zenon
    <3> QED BY <2>1, <3>5 DEF k, down
  <2>2. CASE n # 0
    <3>1. n - 1 \in 0 .. V4Size - 1
      BY <1>1, <2>2, Sizes
    <3> QED BY <2>2, <3>1, Sizes, Remainder
  <2> QED BY <2>1, <2>2
<1> HIDE DEF n, up, down
<1>7. up \in 0 .. V4Size - 1 /\ down \in 0 .. V4Size - 1
  BY <1>1, <1>5, <1>6, Sizes
<1>8. /\ d \in Numerals(ByteSize) /\ packV4(d) = up
      /\ e \in Numerals(ByteSize) /\ packV4(e) = down
  BY <1>7, PackingV4
<1> HIDE DEF d, e
<1>9. /\ V4(d).type = "V4" /\ V4(d).ipv4 = d
      /\ V4(e).type = "V4" /\ V4(e).ipv4 = e
  BY <1>8, AddressesAre
<1>10. /\ LessThan(a, V4(d)) <=> n < up
       /\ LessThan(V4(e), a) <=> down < n
  BY <1>1, <1>3, <1>8, <1>9 DEF LessThan, n
<1>11. /\ n < up <=> n # V4Size - 1
       /\ down < n <=> n # 0
  BY <1>1, <1>5, <1>6, Sizes
<1> QED BY <1>2, <1>4, <1>10, <1>11

LEMMA OrderOfIPV6 ==
    ASSUME NEW a \in IPAddresses, a.type = "V6"
    PROVE  /\ LessThan(a, Plus(a, 1)) <=> ~IsLast(a)
           /\ LessThan(Minus(a, 1), a) <=> ~IsFirst(a)
<1> DEFINE h == Upper(a.ipv6)
           l == Lower(a.ipv6)
<1>1. h \in Word /\ l \in Word /\ a.ipv6 \in Groups
  BY AddressesAre, PackingV6
<1>2. /\ Plus(a, 1) = V6(unpackV6(AddV6(<<h, l>>, 1)))
      /\ Minus(a, 1) = V6(unpackV6(SubtractV6(<<h, l>>, 1)))
  BY PlusIs
<1>3. /\ IsFirst(a) <=> h = 0 /\ l = 0
      /\ IsLast(a) <=> h = MaxWord /\ l = MaxWord
  BY ExtremesOfIPV6
<1>4. \A x, y \in Word :
        /\ LessThan(a, V6(unpackV6(<<x, y>>))) <=> h < x \/ (h = x /\ l < y)
        /\ LessThan(V6(unpackV6(<<x, y>>)), a) <=> x < h \/ (x = h /\ y < l)
  <2> SUFFICES ASSUME NEW x \in Word, NEW y \in Word
               PROVE  /\ LessThan(a, V6(unpackV6(<<x, y>>))) <=> h < x \/ (h = x /\ l < y)
                      /\ LessThan(V6(unpackV6(<<x, y>>)), a) <=> x < h \/ (x = h /\ y < l)
      OBVIOUS
  <2> DEFINE w == unpackV6(<<x, y>>)
  <2>1. w \in Groups /\ Upper(w) = x /\ Lower(w) = y
    BY PackingV6
  <2> HIDE DEF w
  <2>2. V6(w).type = "V6" /\ V6(w).ipv6 = w
    BY <2>1, AddressesAre
  <2>3. /\ LessThan(a, V6(w)) <=> LexicographicallyLess(a.ipv6, w)
        /\ LessThan(V6(w), a) <=> LexicographicallyLess(w, a.ipv6)
    BY <2>2 DEF LessThan
  <2>4. /\ LexicographicallyLess(a.ipv6, w) <=> h < x \/ (h = x /\ l < y)
        /\ LexicographicallyLess(w, a.ipv6) <=> x < h \/ (x = h /\ y < l)
    BY <1>1, <2>1, OrderOfWords
  <2> QED BY <2>3, <2>4 DEF w
<1> HIDE DEF h, l
<1>5. /\ 0 \in Word /\ MaxWord \in Word
      /\ \A x \in Word : x # MaxWord => x + 1 \in Word
      /\ \A x \in Word : x # 0 => x - 1 \in Word
  BY WordIs DEF Word
<1>6. LessThan(a, Plus(a, 1)) <=> ~(h = MaxWord /\ l = MaxWord)
  <2>0. h \in 0 .. MaxWord /\ l \in 0 .. MaxWord /\ MaxWord \in Nat
    BY <1>1, WordIs DEF Word
  <2>1. CASE l # MaxWord
    <3>1. Plus(a, 1) = V6(unpackV6(<<h, l + 1>>)) /\ l + 1 \in Word
      BY <1>1, <1>2, <1>5, <2>1, OneUp
    <3>2. LessThan(a, Plus(a, 1)) <=> h < h \/ (h = h /\ l < l + 1)
      BY <1>1, <1>4, <3>1, Zenon
    <3> QED BY <2>0, <2>1, <3>2
  <2>2. CASE l = MaxWord /\ h # MaxWord
    <3>1. Plus(a, 1) = V6(unpackV6(<<h + 1, 0>>)) /\ h + 1 \in Word
      BY <1>1, <1>2, <1>5, <2>2, OneUp
    <3>2. LessThan(a, Plus(a, 1)) <=> h < h + 1 \/ (h = h + 1 /\ l < 0)
      BY <1>1, <1>4, <1>5, <3>1, Zenon
    <3> QED BY <2>0, <2>2, <3>2
  <2>3. CASE l = MaxWord /\ h = MaxWord
    <3>1. Plus(a, 1) = V6(unpackV6(<<0, 0>>))
      BY <1>1, <1>2, <2>3, OneUp
    <3>2. LessThan(a, Plus(a, 1)) <=> h < 0 \/ (h = 0 /\ l < 0)
      BY <1>1, <1>4, <1>5, <3>1, Zenon
    <3> QED BY <2>0, <2>3, <3>2
  <2> QED BY <2>1, <2>2, <2>3
<1>7. LessThan(Minus(a, 1), a) <=> ~(h = 0 /\ l = 0)
  <2>0. h \in 0 .. MaxWord /\ l \in 0 .. MaxWord /\ MaxWord \in Nat
    BY <1>1, WordIs DEF Word
  <2>1. CASE l # 0
    <3>1. Minus(a, 1) = V6(unpackV6(<<h, l - 1>>)) /\ l - 1 \in Word
      BY <1>1, <1>2, <1>5, <2>1, OneDown
    <3>2. LessThan(Minus(a, 1), a) <=> h < h \/ (h = h /\ l - 1 < l)
      BY <1>1, <1>4, <3>1, Zenon
    <3> QED BY <2>0, <2>1, <3>2
  <2>2. CASE l = 0 /\ h # 0
    <3>1. Minus(a, 1) = V6(unpackV6(<<h - 1, MaxWord>>)) /\ h - 1 \in Word
      BY <1>1, <1>2, <1>5, <2>2, OneDown
    <3>2. LessThan(Minus(a, 1), a) <=> h - 1 < h \/ (h - 1 = h /\ MaxWord < l)
      BY <1>1, <1>4, <1>5, <3>1, Zenon
    <3> QED BY <2>0, <2>2, <3>2
  <2>3. CASE l = 0 /\ h = 0
    <3>1. Minus(a, 1) = V6(unpackV6(<<MaxWord, MaxWord>>))
      BY <1>1, <1>2, <2>3, OneDown
    <3>2. LessThan(Minus(a, 1), a) <=> MaxWord < h \/ (MaxWord = h /\ MaxWord < l)
      BY <1>1, <1>4, <1>5, <3>1, Zenon
    <3>3. MaxWord # 0
      BY WordIs
    <3> QED BY <2>0, <2>3, <3>2
  <2> QED BY <2>1, <2>2, <2>3
<1> QED BY <1>3, <1>6, <1>7

\* hpp:183: the order of bytes and groups is that of the numbers they stand
\* for: a step up leads to a greater address and a step down to a smaller one,
\* from every address but the last and the first.
THEOREM WalkUpIsUp == Spec => WalkIsOrdered
<1> DEFINE Ordered == /\ Increment => (LessThan(ip, ip') <=> ~IsLast(ip))
                      /\ Decrement => (LessThan(ip', ip) <=> ~IsFirst(ip))
<1>1. TypeOK => Ordered
  <2> SUFFICES ASSUME TypeOK PROVE Ordered
      OBVIOUS
  <2>1. ip \in IPAddresses
    BY DEF TypeOK
  <2>2. ASSUME Increment PROVE LessThan(ip, ip') <=> ~IsLast(ip)
    <3>1. ip.type # "None" /\ ip' = Plus(ip, 1)
      BY <2>2 DEF Increment, Walk
    <3>2. ip.type = "V4" \/ ip.type = "V6"
      BY <2>1, <3>1, AddressesAre
    <3> QED BY <2>1, <3>1, <3>2, OrderOfIPV4, OrderOfIPV6
  <2>3. ASSUME Decrement PROVE LessThan(ip', ip) <=> ~IsFirst(ip)
    <3>1. ip.type # "None" /\ ip' = Minus(ip, 1)
      BY <2>3 DEF Decrement, Walk
    <3>2. ip.type = "V4" \/ ip.type = "V6"
      BY <2>1, <3>1, AddressesAre
    <3> QED BY <2>1, <3>1, <3>2, OrderOfIPV4, OrderOfIPV6
  <2> QED BY <2>2, <2>3
<1> QED BY <1>1, TypeCorrect, PTL DEF WalkIsOrdered

-----------------------------------------------------------------------------
(* Embeddings. *)

LEMMA LowerIs ==
    ASSUME NEW v \in Groups
    PROVE  /\ With(v[5], GroupSize, v[6]) \in Int
           /\ Lower(v) = With(With(v[5], GroupSize, v[6]), V4Size, Tail2(v))
           /\ Upper(v) = Number(<<v[1], v[2], v[3], v[4]>>, GroupSize)
<1> DEFINE a == v[5]
           b == v[6]
           c == v[7]
           d == v[8]
           g == GroupSize
<1>1. a \in Int /\ b \in Int /\ c \in Int /\ d \in Int /\ g \in Int
  BY Sizes DEF Groups
<1>2. Lower(v) = Number(<<a, b, c, d>>, g) /\ Upper(v) = Number(<<v[1], v[2], v[3], v[4]>>, g)
  BY Halves DEF Lower, Upper
<1>3. Number(<<a, b, c, d>>, g) = ((a * g + b) * g + c) * g + d
  BY DEF Number
<1>4. V4Size = g * g /\ Tail2(v) = c * g + d /\ With(a, g, b) = a * g + b
  BY DEF V4Size, Tail2, With
<1> HIDE DEF a, b, c, d, g
<1>5. With(a, g, b) \in Int
  BY <1>1, <1>4
<1>6. Lower(v) = With(With(a, g, b), V4Size, Tail2(v))
  <2>1. ((a * g + b) * g + c) * g + d = (a * g + b) * (g * g) + (c * g + d)
    BY <1>1
  <2> QED BY <1>2, <1>3, <1>4, <2>1 DEF With
<1> QED BY <1>2, <1>5, <1>6 DEF a, b, g

LEMMA SamePrefix ==
    ASSUME NEW v \in Groups, NEW w \in Groups, SubSeq(v, 1, 6) = SubSeq(w, 1, 6)
    PROVE  /\ v[1] = w[1] /\ v[2] = w[2] /\ v[3] = w[3]
           /\ v[4] = w[4] /\ v[5] = w[5] /\ v[6] = w[6]
<1> DEFINE S == 0 .. GroupSize - 1
           c == SubSeq(v, 1, 6)
           d == SubSeq(w, 1, 6)
<1>1. \A i \in 1 .. 6 : v[i] \in S /\ w[i] \in S
  BY DEF Groups
<1>2. c = d
  OBVIOUS
<1> HIDE DEF S, c, d
<1>3. \A i \in 1 .. 6 - 1 + 1 : c[i] = v[1 + i - 1]
  BY <1>1, SubSeqProperties DEF c
<1>4. \A i \in 1 .. 6 - 1 + 1 : d[i] = w[1 + i - 1]
  BY <1>1, SubSeqProperties DEF d
<1>5. \A i \in 1 .. 6 : c[i] = v[i] /\ d[i] = w[i]
  BY <1>3, <1>4
<1> QED BY <1>2, <1>5

\* A step that stays under the same prefix is a step of what is embedded.
LEMMA StepUnderPrefix ==
    ASSUME NEW v \in Groups, NEW w \in Groups, SubSeq(v, 1, 6) = SubSeq(w, 1, 6),
           V6(w) = Plus(V6(v), 1)
    PROVE  Tail2(w) = (Tail2(v) + 1) % V4Size
<1> DEFINE h == Upper(v)
           l == Lower(v)
           x == With(v[5], GroupSize, v[6])
           y == Tail2(v)
           z == Tail2(w)
<1>1. /\ h \in Word /\ l \in Word /\ Lower(w) \in Word
      /\ y \in 0 .. V4Size - 1 /\ z \in 0 .. V4Size - 1 /\ x \in Int
  BY PackingV6, TailIs, LowerIs
<1>2. l = With(x, V4Size, y) /\ Lower(w) = With(x, V4Size, z) /\ Upper(w) = h
  BY LowerIs, SamePrefix
<1>3. w = unpackV6(AddV6(<<h, l>>, 1))
  <2>1. V6(v) \in IPAddresses /\ V6(v).type = "V6" /\ V6(v).ipv6 = v /\ V6(w).ipv6 = w
    BY AddressesAre
  <2>2. V6(w) = V6(unpackV6(AddV6(<<h, l>>, 1)))
    BY <2>1, PlusIs
  <2> QED BY <2>2 DEF V6
<1> HIDE DEF h, l, x, y, z
<1>4. MaxWord \in Nat \ {0} /\ h \in 0 .. MaxWord /\ l \in 0 .. MaxWord /\ 0 \in Word
  BY <1>1, WordIs DEF Word
<1>5. l # MaxWord
  <2>1. CASE l = MaxWord /\ h # MaxWord
    <3>0. AddV6(<<h, l>>, 1) = <<h + 1, 0>>
      BY <1>1, <2>1, OneUp
    <3>1. h + 1 \in Word /\ w = unpackV6(<<h + 1, 0>>)
      BY <1>3, <1>4, <2>1, <3>0 DEF Word
    <3>2. Upper(w) = h + 1
      BY <1>4, <3>1, PackingV6
    <3> QED BY <1>2, <1>4, <3>2
  <2>2. CASE l = MaxWord /\ h = MaxWord
    <3>1. w = unpackV6(<<0, 0>>)
      BY <1>1, <1>3, <2>2, OneUp
    <3>2. Upper(w) = 0
      BY <1>4, <3>1, PackingV6
    <3> QED BY <1>2, <1>4, <2>2, <3>2
  <2> QED BY <2>1, <2>2
<1>6. Lower(w) = l + 1
  <2>0. AddV6(<<h, l>>, 1) = <<h, l + 1>>
    BY <1>1, <1>5, OneUp
  <2>1. l + 1 \in Word /\ w = unpackV6(<<h, l + 1>>)
    BY <1>3, <1>4, <1>5, <2>0 DEF Word
  <2> QED BY <1>1, <2>1, PackingV6
<1>7. z = y + 1
  <2> DEFINE k == x * V4Size
  <2>1. k \in Int
    BY <1>1, Sizes
  <2>2. l = k + y /\ Lower(w) = k + z
    BY <1>2 DEF With
  <2> HIDE DEF k
  <2> QED BY <1>1, <1>6, <2>1, <2>2, Sizes
<1>8. (y + 1) % V4Size = z
  BY <1>1, <1>7, Sizes, Remainder
<1> QED BY <1>8 DEF y, z

\* hpp:146-156: what the constructors with a tag embed is recognised as
\* embedded that way only, and extracted again (ipAddress.cpp:346-368). A step
\* through embedded addresses is a step through the IPV4s they embed.
THEOREM EmbeddingsCommute == Spec => EmbeddingCommutes
<1> DEFINE Commutes ==
             /\ EmbedCompatible =>
                  isIPV4Compatible(ip') /\ ~isIPV4Mapped(ip') /\ Extract(ip') = ip
             /\ EmbedMapped =>
                  isIPV4Mapped(ip') /\ ~isIPV4Compatible(ip') /\ Extract(ip') = ip
             /\ Increment /\ SameEmbedding(ip, ip') =>
                  Extract(ip') = Plus(Extract(ip), 1)
<1>1. TypeOK => Commutes
  <2> SUFFICES ASSUME TypeOK PROVE Commutes
      OBVIOUS
  <2>1. ip \in IPAddresses
    BY DEF TypeOK
  <2>2. CompatiblePrefix # MappedPrefix
    BY Sizes DEF CompatiblePrefix, MappedPrefix
  <2>3. ASSUME NEW prefix \in Prefixes,
               ip.type = "V4", StartAt(Embed(prefix, ip))
        PROVE  ip'.type = "V6" /\ SubSeq(ip'.ipv6, 1, 6) = prefix /\ Extract(ip') = ip
    <3>1. PICK v \in Groups : /\ Embed(prefix, ip) = V6(v)
                              /\ SubSeq(v, 1, 6) = prefix
                              /\ Tail2(v) = packV4(ip.ipv4)
      BY <2>1, <2>3, EmbedIs
    <3>2. ip' = V6(v) /\ V6(v).type = "V6" /\ V6(v).ipv6 = v
      BY <2>3, <3>1, AddressesAre DEF StartAt
    <3>3. Extract(V6(v)) = V4(unpackV4(packV4(ip.ipv4)))
      BY <3>1, ExtractIs
    <3>4. ip.ipv4 \in Numerals(ByteSize) /\ ip = V4(ip.ipv4)
      BY <2>1, <2>3, AddressesAre
    <3>5. V4(unpackV4(packV4(ip.ipv4))) = ip
      BY <3>4, PackingV4
    <3> QED BY <3>1, <3>2, <3>3, <3>5
  <2>4. ASSUME EmbedCompatible
        PROVE  isIPV4Compatible(ip') /\ ~isIPV4Mapped(ip') /\ Extract(ip') = ip
    BY <2>2, <2>3, <2>4 DEF Prefixes, EmbedCompatible, isIPV4Compatible, isIPV4Mapped
  <2>5. ASSUME EmbedMapped
        PROVE  isIPV4Mapped(ip') /\ ~isIPV4Compatible(ip') /\ Extract(ip') = ip
    BY <2>2, <2>3, <2>5 DEF Prefixes, EmbedMapped, isIPV4Compatible, isIPV4Mapped
  <2>6. ASSUME Increment, SameEmbedding(ip, ip')
        PROVE  Extract(ip') = Plus(Extract(ip), 1)
    <3>1. /\ ip.type = "V6" /\ ip'.type = "V6"
          /\ SubSeq(ip.ipv6, 1, 6) = SubSeq(ip'.ipv6, 1, 6)
      BY <2>6 DEF SameEmbedding, isIPV4Compatible, isIPV4Mapped
    <3>2. ip' = Plus(ip, 1) /\ ip' \in IPAddresses
      <4>1. 1 \in 0 .. V4Size - 1
        <5>1. V4Size >= GroupSize
          BY Sizes, Product DEF V4Size
        <5> QED BY <5>1, Sizes
      <4> QED BY <2>1, <2>6, <4>1, WalkKeepsType DEF Increment, Walk
    <3>3. PICK v : v = ip.ipv6
      OBVIOUS
    <3>4. PICK w : w = ip'.ipv6
      OBVIOUS
    <3>5. v \in Groups /\ w \in Groups /\ ip = V6(v) /\ ip' = V6(w)
      BY <2>1, <3>1, <3>2, <3>3, <3>4, AddressesAre
    <3>6. Tail2(w) = (Tail2(v) + 1) % V4Size
      BY <3>1, <3>2, <3>3, <3>4, <3>5, StepUnderPrefix
    <3>7. Extract(ip) = V4(unpackV4(Tail2(v))) /\ Extract(ip') = V4(unpackV4(Tail2(w)))
      BY <3>5, ExtractIs
    <3> DEFINE d == unpackV4(Tail2(v))
    <3>8. d \in Numerals(ByteSize) /\ packV4(d) = Tail2(v)
      BY <3>5, TailIs, PackingV4
    <3> HIDE DEF d
    <3>9. V4(d).type = "V4" /\ V4(d).ipv4 = d
      BY <3>8, AddressesAre
    <3>10. Plus(V4(d), 1) = V4(unpackV4((Tail2(v) + 1) % V4Size))
      BY <3>8, <3>9 DEF Plus
    <3> QED BY <3>6, <3>7, <3>10 DEF d
  <2> QED BY <2>4, <2>5, <2>6
<1> QED BY <1>1, TypeCorrect, PTL DEF EmbeddingCommutes

===============================================================================
