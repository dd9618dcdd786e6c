------------------------- MODULE IPAddressInfo_proofs -------------------------
(* Theorems about IPAddressInfo, for every width and every set of addresses. *)
EXTENDS IPAddressInfo, TLAPS, WellFoundedInduction

-----------------------------------------------------------------------------
(* Words. *)

\* A set of bits has a least one, and a set of bits below some width a
\* greatest one.
LEMMA LeastBit ==
    ASSUME NEW S \in SUBSET Nat, S # {}
    PROVE  \E x \in S : \A y \in S : x <= y
<1> DEFINE R == {ss \in Nat \X Nat : ss[1] < ss[2]}
<1>1. IsWellFoundedOn(R, Nat)
  BY NatLessThanWellFounded DEF OpToRel
<1>2. PICK x \in S : \A y \in S : ~(<<y, x>> \in R)
  <2> HIDE DEF R
  <2> QED
    BY <1>1, WFMin
<1>3. ASSUME NEW y \in S
      PROVE  x <= y
  <2>1. x \in Nat /\ y \in Nat
    OBVIOUS
  <2>2. ~(<<y, x>> \in R)
    BY <1>2
  <2>3. y < x => <<y, x>> \in R
    BY <2>1
  <2> QED
    BY <2>1, <2>2, <2>3
<1> QED
  BY <1>3

LEMMA GreatestBit ==
    ASSUME NEW w \in Nat, NEW S \in SUBSET (0 .. w - 1), S # {}
    PROVE  \E x \in S : \A y \in S : y <= x
<1> DEFINE T == {w - y : y \in S}
<1>1. T \in SUBSET Nat /\ T # {}
  OBVIOUS
<1>2. PICK t \in T : \A u \in T : t <= u
  BY <1>1, LeastBit
<1>3. PICK x \in S : t = w - x
  BY <1>2
<1>4. ASSUME NEW y \in S
      PROVE  y <= x
  <2>1. w - x <= w - y
    BY <1>2, <1>3
  <2> QED
    BY <2>1
<1> QED
  BY <1>4

\* The number of leading ones is well defined and characterised by what the
\* loop over the bits stops at.
LEMMA LeadingOnesUnique ==
    ASSUME NEW w \in SUBSET V6Bits, NEW n \in 0 .. V6Width,
           \A i \in V6Bits : i >= V6Width - n => i \in w,
           n < V6Width => V6Width - n - 1 \notin w
    PROVE  LeadingOnes(w) = n
<1>1. ASSUME NEW m \in 0 .. V6Width,
             \A i \in V6Bits : i >= V6Width - m => i \in w,
             m < V6Width => V6Width - m - 1 \notin w
      PROVE  m = n
  <2>1. CASE m < n
    <3>1. V6Width - m - 1 \in V6Bits /\ V6Width - m - 1 >= V6Width - n
      BY <2>1, WidthsAssumption DEF V6Bits
    <3> QED
      BY <2>1, <3>1, <1>1, WidthsAssumption
  <2>2. CASE n < m
    <3>1. V6Width - n - 1 \in V6Bits /\ V6Width - n - 1 >= V6Width - m
      BY <2>2, WidthsAssumption DEF V6Bits
    <3> QED
      BY <2>2, <3>1, <1>1, WidthsAssumption
  <2> QED
    BY <2>1, <2>2, WidthsAssumption
<1> QED
  BY <1>1 DEF LeadingOnes

\* A word that has its n most significant bits set and no other.
LEMMA PrefixWord ==
    ASSUME NEW n \in 0 .. V6Width
    PROVE  /\ Not(ShiftRight(V6Bits, n), V6Bits) \in SUBSET V6Bits
           /\ IsPrefix(Not(ShiftRight(V6Bits, n), V6Bits), n, V6Width)
<1>1. ASSUME NEW i \in V6Bits
      PROVE  i \in ShiftRight(V6Bits, n) <=> i < V6Width - n
  <2>1. ASSUME i < V6Width - n
        PROVE  i + n \in {c \in V6Bits : c >= n} /\ i = (i + n) - n
    BY <2>1, <1>1, WidthsAssumption DEF V6Bits
  <2>2. ASSUME i \in ShiftRight(V6Bits, n)
        PROVE  i < V6Width - n
    BY <2>2, <1>1, WidthsAssumption DEF V6Bits, ShiftRight
  <2> QED
    BY <2>1, <2>2 DEF ShiftRight
<1> QED
  BY <1>1, WidthsAssumption DEF V6Bits, Not, IsPrefix

LEMMA LeadingOnesOfPrefix ==
    ASSUME NEW w \in SUBSET V6Bits, NEW n \in 0 .. V6Width,
           IsPrefix(w, n, V6Width)
    PROVE  LeadingOnes(w) = n
<1>1. \A i \in V6Bits : i >= V6Width - n => i \in w
  BY DEF IsPrefix, V6Bits
<1>2. n < V6Width => V6Width - n - 1 \notin w
  BY WidthsAssumption DEF IsPrefix, V6Bits
<1> QED
  BY <1>1, <1>2, LeadingOnesUnique

-----------------------------------------------------------------------------
(* Prefix lengths of an IPV6. *)

\* The mask made for a prefix length is the prefix mask of that length over
\* both halves.
LEMMA PackedIsPrefix ==
    ASSUME NEW n \in 0 .. 2 * V6Width
    PROVE  LET m == packedV6FromPrefixLength(n)
           IN  /\ m = <<m[1], m[2]>>
               /\ m[1] \in SUBSET V6Bits /\ m[2] \in SUBSET V6Bits
               /\ IsPrefix(m[1], n, V6Width)
               /\ IsPrefix(m[2], n - V6Width, V6Width)
<1>1. CASE n = V6Width
  <2>1. packedV6FromPrefixLength(n) = <<V6Bits, {}>>
    BY <1>1, WidthsAssumption DEF packedV6FromPrefixLength
  <2>2. IsPrefix(V6Bits, n, V6Width) /\ IsPrefix({}, n - V6Width, V6Width)
    BY <1>1, WidthsAssumption DEF IsPrefix, V6Bits
  <2> QED
    BY <2>1, <2>2
<1>2. CASE n = 2 * V6Width
  <2>1. packedV6FromPrefixLength(n) = <<V6Bits, V6Bits>>
    BY <1>2, WidthsAssumption DEF packedV6FromPrefixLength
  <2>2. IsPrefix(V6Bits, n, V6Width) /\ IsPrefix(V6Bits, n - V6Width, V6Width)
    BY <1>2, WidthsAssumption DEF IsPrefix, V6Bits
  <2> QED
    BY <2>1, <2>2
<1>3. CASE n < V6Width
  <2>1. packedV6FromPrefixLength(n) = <<Not(ShiftRight(V6Bits, n), V6Bits), {}>>
    BY <1>3, WidthsAssumption DEF packedV6FromPrefixLength
  <2>2. IsPrefix({}, n - V6Width, V6Width)
    BY <1>3, WidthsAssumption DEF IsPrefix
  <2> QED
    BY <2>1, <2>2, <1>3, PrefixWord, WidthsAssumption
<1>4. CASE n > V6Width /\ n # 2 * V6Width
  <2>1. packedV6FromPrefixLength(n)
          = <<V6Bits, Not(ShiftRight(V6Bits, n - V6Width), V6Bits)>>
    BY <1>4, WidthsAssumption DEF packedV6FromPrefixLength
  <2>2. n - V6Width \in 0 .. V6Width
    BY <1>4, WidthsAssumption
  <2>3. IsPrefix(V6Bits, n, V6Width)
    BY <1>4, WidthsAssumption DEF IsPrefix, V6Bits
  <2> QED
    BY <2>1, <2>2, <2>3, PrefixWord
<1> QED
  BY <1>1, <1>2, <1>3, <1>4, WidthsAssumption

\* The two conversions are inverse: no prefix length is lost.
LEMMA PrefixLengthRoundTrip ==
    ASSUME NEW n \in 0 .. 2 * V6Width
    PROVE  prefixLengthFromPackedV6(packedV6FromPrefixLength(n)) = n
<1> DEFINE m == packedV6FromPrefixLength(n)
<1>0. /\ m[1] \in SUBSET V6Bits /\ m[2] \in SUBSET V6Bits
      /\ IsPrefix(m[1], n, V6Width)
      /\ IsPrefix(m[2], n - V6Width, V6Width)
  BY PackedIsPrefix
<1> HIDE DEF m
<1>1. CASE n < V6Width
  <2>1. LeadingOnes(m[1]) = n
    BY <1>0, <1>1, LeadingOnesOfPrefix, WidthsAssumption
  <2> QED
    BY <2>1, <1>1 DEF prefixLengthFromPackedV6, m
<1>2. CASE n >= V6Width
  <2>1. IsPrefix(m[1], V6Width, V6Width)
    BY <1>0, <1>2, WidthsAssumption DEF IsPrefix
  <2>2. LeadingOnes(m[1]) = V6Width
    BY <2>1, <1>0, LeadingOnesOfPrefix, WidthsAssumption
  <2>3. n - V6Width \in 0 .. V6Width
    BY <1>2, WidthsAssumption
  <2>4. LeadingOnes(m[2]) = n - V6Width
    BY <2>3, <1>0, LeadingOnesOfPrefix
  <2> QED
    BY <2>2, <2>4, WidthsAssumption DEF prefixLengthFromPackedV6, m
<1> QED
  BY <1>1, <1>2, WidthsAssumption

LEMMA LeadingOnesType ==
    ASSUME NEW w \in SUBSET V6Bits
    PROVE  LeadingOnes(w) \in 0 .. V6Width
<1>1. CASE V6Bits \subseteq w
  <2>1. LeadingOnes(w) = V6Width
    BY <1>1, LeadingOnesUnique, WidthsAssumption
  <2> QED
    BY <2>1, WidthsAssumption
<1>2. CASE ~(V6Bits \subseteq w)
  <2>1. PICK g \in V6Bits \ w : \A y \in V6Bits \ w : y <= g
    <3>1. V6Bits \ w \in SUBSET (0 .. V6Width - 1) /\ V6Bits \ w # {}
      BY <1>2 DEF V6Bits
    <3> QED
      BY <3>1, GreatestBit, WidthsAssumption
  <2>2. g \in 0 .. V6Width - 1
    BY DEF V6Bits
  <2>3. LeadingOnes(w) = V6Width - 1 - g
    <3>1. V6Width - 1 - g \in 0 .. V6Width
      BY <2>2, WidthsAssumption
    <3>2. \A i \in V6Bits : i >= V6Width - (V6Width - 1 - g) => i \in w
      BY <2>1, <2>2, WidthsAssumption DEF V6Bits
    <3>3. V6Width - (V6Width - 1 - g) - 1 \notin w
      BY <2>1, <2>2, WidthsAssumption
    <3> QED
      BY <3>1, <3>2, <3>3, LeadingOnesUnique
  <2> QED
    BY <2>3, <2>2, WidthsAssumption
<1> QED
  BY <1>1, <1>2

-----------------------------------------------------------------------------
(* The order of words. *)

LEMMA LessAsymmetric ==
    ASSUME NEW a \in SUBSET V4Bits, NEW b \in SUBSET V4Bits, Less(a, b)
    PROVE  ~AtMost(b, a)
<1>1. PICK i \in b \ a : \A j \in (a \ b) \cup (b \ a) : j <= i
  BY DEF Less
<1>2. ASSUME Less(b, a)
      PROVE  FALSE
  <2>1. PICK k \in a \ b : \A j \in (b \ a) \cup (a \ b) : j <= k
    BY <1>2 DEF Less
  <2>2. i <= k /\ k <= i
    BY <1>1, <2>1
  <2>3. i \in Int /\ k \in Int
    BY DEF V4Bits
  <2> QED
    BY <2>2, <2>3
<1>3. b # a
  BY <1>1
<1> QED
  BY <1>2, <1>3 DEF AtMost

LEMMA SubsetAtMost ==
    ASSUME NEW a \in SUBSET V4Bits, NEW b \in SUBSET V4Bits, a \subseteq b
    PROVE  AtMost(a, b)
<1>1. CASE a = b
  BY <1>1 DEF AtMost
<1>2. CASE a # b
  <2>1. b \ a \in SUBSET (0 .. V4Width - 1) /\ b \ a # {}
    BY <1>2 DEF V4Bits
  <2>2. PICK i \in b \ a : \A j \in b \ a : j <= i
    BY <2>1, GreatestBit, WidthsAssumption
  <2>3. a \ b = {}
    OBVIOUS
  <2> QED
    BY <2>2, <2>3 DEF AtMost, Less
<1> QED
  BY <1>1, <1>2

-----------------------------------------------------------------------------
(* Networks of IPV4 addresses. *)

\* All bits above a set one are set.
Contiguous(m) == \A i \in m : \A j \in V4Bits : i < j => j \in m

LEMMA ValidIsContiguous ==
    ASSUME NEW m \in SUBSET V4Bits, validateNetmaskV4(m)
    PROVE  Contiguous(m) /\ m # {}
<1>1. ASSUME NEW i \in m, NEW j \in V4Bits, i < j, j \notin m
      PROVE  FALSE
  <2>1. i \in 0 .. j - 1
    BY <1>1 DEF V4Bits
  <2> QED
    BY <2>1, <1>1 DEF validateNetmaskV4
<1> QED
  BY <1>1 DEF Contiguous, validateNetmaskV4

\* The addresses with the network part of `adrs` under the mask `m` are those
\* from its base address to its broadcast address.
LEMMA NetworkIsInterval ==
    ASSUME NEW m \in SUBSET V4Bits, Contiguous(m),
           NEW adrs \in SUBSET V4Bits, NEW a \in SUBSET V4Bits
    PROVE  a \cap m = adrs \cap m
           <=> /\ AtMost(adrs \cap m, a)
               /\ AtMost(a, adrs \cup Not(m, V4Bits))
<1> DEFINE base == adrs \cap m
           last == adrs \cup Not(m, V4Bits)
<1>0. base \in SUBSET V4Bits /\ last \in SUBSET V4Bits
  BY DEF Not
<1>1. ASSUME a \cap m = base
      PROVE  AtMost(base, a) /\ AtMost(a, last)
  <2>1. base \subseteq a /\ a \subseteq last
    BY <1>1 DEF Not
  <2> QED
    BY <2>1, <1>0, SubsetAtMost
<1>2. ASSUME a \cap m # base
      PROVE  ~(AtMost(base, a) /\ AtMost(a, last))
  <2> DEFINE D == {i \in m : ~(i \in a <=> i \in adrs)}
  <2>1. D \in SUBSET (0 .. V4Width - 1) /\ D # {}
    BY <1>2 DEF V4Bits
  <2>2. PICK i \in D : \A j \in D : j <= i
    BY <2>1, GreatestBit, WidthsAssumption
  <2>3. ASSUME NEW j \in V4Bits, ~(j <= i)
        PROVE  /\ j \in a <=> j \in base
               /\ j \in a <=> j \in last
    <3>1. i < j
      BY <2>3 DEF V4Bits
    <3>2. j \in m
      BY <3>1 DEF Contiguous
    <3>3. j \notin D
      BY <2>2, <2>3
    <3> QED
      BY <3>2, <3>3 DEF Not
  <2>4. CASE i \in a
    <3>1. i \in a \ last
      BY <2>4 DEF Not
    <3>2. \A j \in (last \ a) \cup (a \ last) : j <= i
      BY <2>3, <1>0
    <3>3. Less(last, a)
      BY <3>1, <3>2 DEF Less
    <3> QED
      BY <3>3, <1>0, LessAsymmetric
  <2>5. CASE i \notin a
    <3>1. i \in base \ a
      BY <2>5
    <3>2. \A j \in (a \ base) \cup (base \ a) : j <= i
      BY <2>3, <1>0
    <3>3. Less(a, base)
      BY <3>1, <3>2 DEF Less
    <3> QED
      BY <3>3, <1>0, LessAsymmetric
  <2> QED
    BY <2>4, <2>5
<1> QED
  BY <1>1, <1>2

\* Among contiguous masks a greater number is a longer mask.
LEMMA GreaterMaskIsLonger ==
    ASSUME NEW m \in SUBSET V4Bits, NEW n \in SUBSET V4Bits,
           Contiguous(m), AtMost(m, n)
    PROVE  m \subseteq n
<1>1. CASE m = n
  BY <1>1
<1>2. CASE Less(m, n)
  <2>1. PICK i \in n \ m : \A j \in (m \ n) \cup (n \ m) : j <= i
    BY <1>2 DEF Less
  <2>2. ASSUME NEW k \in m \ n
        PROVE  FALSE
    <3>1. k <= i /\ k # i /\ k \in Int /\ i \in Int
      BY <2>1 DEF V4Bits
    <3>2. k < i
      BY <3>1
    <3> QED
      BY <3>2 DEF Contiguous
  <2> QED
    BY <2>2
<1> QED
  BY <1>1, <1>2 DEF AtMost

-----------------------------------------------------------------------------
(* The specification. *)

\* What the helper named in `made` returned is still the netmask.
Made ==
    /\ made.by = "packedV6FromPrefixLength" =>
        /\ made.length \in 0 .. 2 * V6Width
        /\ netmask = V6(packedV6FromPrefixLength(made.length)[1],
                        packedV6FromPrefixLength(made.length)[2])
    /\ made.by = "makePackedMaskV4" => netmask = V4(makePackedMaskV4(made.length))

LEMMA MasksTypeOK ==
    /\ \A n \in 0 .. 2 * V6Width :
          V6(packedV6FromPrefixLength(n)[1], packedV6FromPrefixLength(n)[2]) \in IPAddresses
    /\ \A n \in Bytes : V4(makePackedMaskV4(n)) \in IPAddresses
    /\ \A n \in Bytes : \A lost \in BOOLEAN :
          V6(makePackedMaskV6(n, lost)[1], makePackedMaskV6(n, lost)[2]) \in IPAddresses
<1>1. \A n \in 0 .. 2 * V6Width :
          V6(packedV6FromPrefixLength(n)[1], packedV6FromPrefixLength(n)[2]) \in IPAddresses
  BY PackedIsPrefix DEF V6, IPAddresses
<1>2. ASSUME NEW n \in Bytes
      PROVE  V4(makePackedMaskV4(n)) \in IPAddresses
  <2>1. makePackedMaskV4(n) \in SUBSET V4Bits
    BY WidthsAssumption DEF makePackedMaskV4, ShiftLeft, Bytes
  <2> QED
    BY <2>1 DEF V4, IPAddresses
<1>3. ASSUME NEW n \in Bytes, NEW lost \in BOOLEAN
      PROVE  V6(makePackedMaskV6(n, lost)[1], makePackedMaskV6(n, lost)[2]) \in IPAddresses
  <2> DEFINE m == makePackedMaskV6(n, lost)
  <2>1. m[1] \in SUBSET V6Bits /\ m[2] \in SUBSET V6Bits
    <3>1. CASE n >= 2 * V6Width
      <4>1. n # 0 /\ n \notin 1 .. V6Width - 1
        BY <3>1, WidthsAssumption
      <4>2. m = <<V6Bits, V6Bits>>
        BY <3>1, <4>1 DEF makePackedMaskV6
      <4> QED
        BY <4>2
    <3>2. CASE n = 0
      BY <3>2, WidthsAssumption DEF makePackedMaskV6
    <3>3. CASE n \in 1 .. V6Width - 1
      <4>1. m = <<V6Bits, ShiftLeft(V6Bits, n, V6Bits)>>
        BY <3>3, WidthsAssumption DEF makePackedMaskV6
      <4> QED
        BY <4>1 DEF ShiftLeft
    <3>4. CASE n \in V6Width .. 2 * V6Width - 1
      <4>1. m = <<ShiftLeft(V6Bits, n - V6Width, V6Bits),
                  IF lost THEN {} ELSE V6Bits>>
        <5>1. n # 0 /\ ~(n >= 2 * V6Width) /\ n \notin 1 .. V6Width - 1
          BY <3>4, WidthsAssumption
        <5> QED
          BY <5>1 DEF makePackedMaskV6
      <4> QED
        BY <4>1 DEF ShiftLeft
    <3> QED
      BY <3>1, <3>2, <3>3, <3>4, WidthsAssumption DEF Bytes
  <2> HIDE DEF m
  <2>2. V6(m[1], m[2]) \in IPAddresses
    BY <2>1 DEF V6, IPAddresses
  <2> QED
    BY <2>2 DEF m
<1> QED
  BY <1>1, <1>2, <1>3

IInv == TypeOK /\ Made

LEMMA InitIInv == Init => IInv
BY DEF Init, IInv, TypeOK, Made, None, IPAddresses, By, Makers, Bytes

LEMMA NextIInv == IInv /\ [Next]_vars => IInv'
<1> SUFFICES ASSUME IInv, [Next]_vars
             PROVE  IInv'
  OBVIOUS
<1>1. CASE SetAddress
  <2>1. address' \in IPAddresses
    BY <1>1, AddressesAssumption DEF SetAddress, IPAddresses, V4, V6, Halves
  <2> QED
    BY <2>1, <1>1 DEF SetAddress, IInv, TypeOK, Made
<1>2. CASE SetNetmask
  <2>1. netmask' \in IPAddresses
    BY <1>2, AddressesAssumption DEF SetNetmask, IPAddresses, V4, V6, Halves
  <2> QED
    BY <2>1, <1>2 DEF SetNetmask, IInv, TypeOK, Made, By, Makers, Bytes
<1>3. CASE MakeNetmaskV4
  BY <1>3, MasksTypeOK DEF MakeNetmaskV4, IInv, TypeOK, Made, By, Makers
<1>4. CASE MakeNetmaskV6
  BY <1>4, MasksTypeOK DEF MakeNetmaskV6, IInv, TypeOK, Made, By, Makers
<1>5. CASE NetmaskFromPrefixLength
  BY <1>5, MasksTypeOK DEF NetmaskFromPrefixLength, IInv, TypeOK, Made, By, Makers
<1>6. CASE UNCHANGED vars
  BY <1>6 DEF vars, IInv, TypeOK, Made
<1> QED
  BY <1>1, <1>2, <1>3, <1>4, <1>5, <1>6 DEF Next

LEMMA SpecIInv == Spec => []IInv
BY InitIInv, NextIInv, PTL DEF Spec

\* Addresses and netmasks are of a type that has their bits, whichever of the
\* makers of netmasks was called and with whatever prefix length.
THEOREM TypeCorrect == Spec => []TypeOK
<1>1. IInv => TypeOK
  BY DEF IInv
<1> QED
  BY <1>1, SpecIInv, PTL

LEMMA ValidV4 ==
    ASSUME TypeOK, Valid, address.type = "V4"
    PROVE  /\ address.packed \in SUBSET V4Bits
           /\ netmask.type = "V4"
           /\ netmask.packed \in SUBSET V4Bits
           /\ Contiguous(netmask.packed)
           /\ getNetworkBaseAddress(address, netmask)
                 = V4(address.packed \cap netmask.packed)
           /\ getBroadcastAddress(address, netmask)
                 = V4(address.packed \cup Not(netmask.packed, V4Bits))
<1>1. netmask.type = "V4" /\ validateNetmaskV4(netmask.packed)
  BY DEF Valid, checkValidIPAddressInfo
<1>2. address.packed \in SUBSET V4Bits /\ netmask.packed \in SUBSET V4Bits
  BY <1>1 DEF TypeOK, IPAddresses, None
<1>3. getNetworkBaseAddress(address, netmask)
        = V4(address.packed \cap netmask.packed)
  BY DEF Valid, getNetworkBaseAddress, And
<1>4. getBroadcastAddress(address, netmask)
        = V4(address.packed \cup Not(netmask.packed, V4Bits))
  BY DEF Valid, getBroadcastAddress
<1> QED
  BY <1>1, <1>2, <1>3, <1>4, ValidIsContiguous

\* For every width of an address: the addresses of the network of an
\* IPAddressInfo are those from the base address to the broadcast address that
\* ipAddressInfo.cpp computes.
THEOREM NetworksAreIntervals == Spec => []NetworkDelimited
<1>1. ASSUME IInv
      PROVE  NetworkDelimited
  <2> SUFFICES ASSUME Valid, address.type = "V4", NEW a \in V4Addresses
               PROVE  And(V4(a), netmask) = getNetworkBaseAddress(address, netmask)
                      <=> /\ AtMost(getNetworkBaseAddress(address, netmask).packed, a)
                          /\ AtMost(a, getBroadcastAddress(address, netmask).packed)
    BY DEF NetworkDelimited
  <2> DEFINE m == netmask.packed
             base == address.packed \cap m
             last == address.packed \cup Not(m, V4Bits)
  <2>1. /\ address.packed \in SUBSET V4Bits
        /\ m \in SUBSET V4Bits
        /\ Contiguous(m)
        /\ getNetworkBaseAddress(address, netmask) = V4(base)
        /\ getBroadcastAddress(address, netmask) = V4(last)
    BY <1>1, ValidV4 DEF IInv
  <2>2. a \in SUBSET V4Bits
    BY AddressesAssumption
  <2>3. a \cap m = base <=> AtMost(base, a) /\ AtMost(a, last)
    BY <2>1, <2>2, NetworkIsInterval
  <2>4. And(V4(a), netmask) = V4(base) <=> a \cap m = base
    BY DEF And, V4
  <2>5. V4(base).packed = base /\ V4(last).packed = last
    BY DEF V4
  <2> HIDE DEF base, last
  <2> QED
    BY <2>1, <2>3, <2>4, <2>5
<1> QED
  BY <1>1, SpecIInv, PTL

\* For every width and all ranges that are networks: an IPAddressInfo that
\* isPrivateNetworkAddress reports has all of its network in a private range.
THEOREM PrivateNetworks == Spec => []PrivateAsAWhole
<1>1. ASSUME IInv
      PROVE  PrivateAsAWhole
  <2> SUFFICES ASSUME isPrivateNetworkAddress(address, netmask)
               PROVE  \E r \in PrivateRanges :
                        /\ AtMost(r.start, getNetworkBaseAddress(address, netmask).packed)
                        /\ AtMost(getBroadcastAddress(address, netmask).packed, r.end)
    BY DEF PrivateAsAWhole
  <2> DEFINE m == netmask.packed
             base == address.packed \cap m
             last == address.packed \cup Not(m, V4Bits)
  <2>1. /\ address.packed \in SUBSET V4Bits
        /\ m \in SUBSET V4Bits
        /\ Contiguous(m)
        /\ getNetworkBaseAddress(address, netmask) = V4(base)
        /\ getBroadcastAddress(address, netmask) = V4(last)
    BY <1>1, ValidV4 DEF IInv, isPrivateNetworkAddress, Valid
  <2>2. PICK r \in PrivateRanges :
            /\ AtMost(r.start, address.packed)
            /\ AtMost(address.packed, r.end)
            /\ AtMost(r.mask, m)
    BY DEF isPrivateNetworkAddress, InRange
  <2>3. /\ r.mask \in SUBSET V4Bits /\ Contiguous(r.mask)
        /\ r.start \in SUBSET V4Bits
        /\ r.start \cap r.mask = r.start
        /\ r.end = r.start \cup Not(r.mask, V4Bits)
    BY RangesAssumption DEF Contiguous
  <2>4. r.mask \subseteq m
    BY <2>1, <2>2, <2>3, GreaterMaskIsLonger
  <2>5. address.packed \cap r.mask = r.start \cap r.mask
    BY <2>1, <2>2, <2>3, NetworkIsInterval
  <2>6. base \in SUBSET V4Bits /\ last \in SUBSET V4Bits
    BY <2>1 DEF Not
  <2>7. /\ base \cap r.mask = r.start \cap r.mask
        /\ last \cap r.mask = r.start \cap r.mask
    BY <2>4, <2>5 DEF Not
  <2> HIDE DEF base, last
  <2>8. AtMost(r.start, base) /\ AtMost(last, r.end)
    <3>1. AtMost(r.start \cap r.mask, base)
      BY <2>3, <2>6, <2>7, NetworkIsInterval
    <3>2. AtMost(last, r.start \cup Not(r.mask, V4Bits))
      BY <2>3, <2>6, <2>7, NetworkIsInterval
    <3> QED
      BY <3>1, <3>2, <2>3
  <2>9. V4(base).packed = base /\ V4(last).packed = last
    BY DEF V4
  <2> QED
    BY <2>1, <2>8, <2>9
<1> QED
  BY <1>1, SpecIInv, PTL

\* A contiguous mask that is not empty is a prefix mask.
LEMMA ContiguousIsPrefix ==
    ASSUME NEW m \in SUBSET V4Bits, Contiguous(m), m # {}
    PROVE  \E n \in 1 .. V4Width : IsPrefix(m, n, V4Width)
<1>1. m \in SUBSET Nat
  BY DEF V4Bits
<1>2. PICK least \in m : \A i \in m : least <= i
  BY <1>1, LeastBit
<1>3. least \in 0 .. V4Width - 1
  BY DEF V4Bits
<1>4. ASSUME NEW i \in 0 .. V4Width - 1
      PROVE  i \in m <=> i >= V4Width - (V4Width - least)
  <2>1. i \in m => i >= least
    BY <1>2
  <2>2. i > least => i \in m
    BY <1>3 DEF Contiguous, V4Bits
  <2> QED
    BY <2>1, <2>2, <1>3, WidthsAssumption
<1>5. V4Width - least \in 1 .. V4Width
  BY <1>3, WidthsAssumption
<1> QED
  BY <1>4, <1>5 DEF IsPrefix

LEMMA PrefixLengthType ==
    ASSUME NEW h \in Halves
    PROVE  prefixLengthFromPackedV6(h) \in 0 .. 2 * V6Width
<1>1. LeadingOnes(h[1]) \in 0 .. V6Width /\ LeadingOnes(h[2]) \in 0 .. V6Width
  BY LeadingOnesType DEF Halves
<1> QED
  BY <1>1, WidthsAssumption DEF prefixLengthFromPackedV6

\* For every width: checkValidIPAddressInfo accepts prefix masks only, in IPV6
\* over both halves of the address.
THEOREM MasksAreContiguous == Spec => []OnlyContiguous
<1>1. ASSUME IInv
      PROVE  OnlyContiguous
  <2> SUFFICES ASSUME Valid
               PROVE  IF netmask.type = "V4"
                      THEN \E n \in 1 .. V4Width : IsPrefix(netmask.packed, n, V4Width)
                      ELSE \E n \in 0 .. 2 * V6Width :
                              /\ IsPrefix(netmask.second, n - V6Width, V6Width)
                              /\ IsPrefix(netmask.first, n, V6Width)
    BY DEF OnlyContiguous
  <2>1. CASE netmask.type = "V4"
    <3>1. netmask.packed \in SUBSET V4Bits /\ validateNetmaskV4(netmask.packed)
      BY <1>1, <2>1 DEF IInv, TypeOK, IPAddresses, None, Valid, checkValidIPAddressInfo
    <3> QED
      BY <2>1, <3>1, ValidIsContiguous, ContiguousIsPrefix
  <2>2. CASE netmask.type # "V4"
    <3> DEFINE h == <<netmask.first, netmask.second>>
    <3>1. h \in Halves /\ validateNetmaskV6(h)
      BY <1>1, <2>2 DEF IInv, TypeOK, IPAddresses, None, Halves, Valid,
                        checkValidIPAddressInfo
    <3>2. PICK n \in 0 .. 2 * V6Width : h = packedV6FromPrefixLength(n)
      BY <3>1, PrefixLengthType DEF validateNetmaskV6
    <3>3. IsPrefix(h[1], n, V6Width) /\ IsPrefix(h[2], n - V6Width, V6Width)
      BY <3>2, PackedIsPrefix
    <3> QED
      BY <2>2, <3>3
  <2> QED
    BY <2>1, <2>2
<1> QED
  BY <1>1, SpecIInv, PTL

\* For every width: the mask made for a prefix length is valid and has that
\* prefix length.
THEOREM PrefixLengthsAreKept == Spec => []PrefixLengthKept
<1>1. ASSUME IInv
      PROVE  PrefixLengthKept
  <2>1. ASSUME made.by = "packedV6FromPrefixLength"
        PROVE  /\ validateNetmaskV6(<<netmask.first, netmask.second>>)
               /\ prefixLengthFromPackedV6(<<netmask.first, netmask.second>>)
                    = made.length
    <3> DEFINE p == packedV6FromPrefixLength(made.length)
    <3>1. made.length \in 0 .. 2 * V6Width /\ netmask = V6(p[1], p[2])
      BY <1>1, <2>1 DEF IInv, Made
    <3>2. <<p[1], p[2]>> = p
      BY <3>1, PackedIsPrefix
    <3>3. <<netmask.first, netmask.second>> = p
      <4> HIDE DEF p
      <4> QED
        BY <3>1, <3>2 DEF V6
    <3>4. prefixLengthFromPackedV6(p) = made.length
      BY <3>1, PrefixLengthRoundTrip
    <3> QED
      BY <3>3, <3>4 DEF validateNetmaskV6
  <2>2. ASSUME made.by = "makePackedMaskV4", made.length \in 1 .. V4Width
        PROVE  /\ validateNetmaskV4(netmask.packed)
               /\ IsPrefix(netmask.packed, made.length, V4Width)
    <3> DEFINE n == made.length
               m == makePackedMaskV4(n)
    <3>1. netmask.packed = m
      BY <1>1, <2>2 DEF IInv, Made, V4
    <3>2. ASSUME NEW i \in V4Bits
          PROVE  i \in m <=> i >= V4Width - n
      <4>1. CASE n = V4Width
        BY <4>1, <3>2, WidthsAssumption DEF makePackedMaskV4, V4Bits
      <4>2. CASE n < V4Width
        <5>1. m = ShiftLeft(V4Bits, V4Width - n, V4Bits)
          BY <4>2, <2>2, WidthsAssumption DEF makePackedMaskV4
        <5> QED
          BY <5>1, <2>2, <3>2, WidthsAssumption DEF ShiftLeft, V4Bits
      <4> QED
        BY <4>1, <4>2, <2>2, WidthsAssumption
    <3> HIDE DEF m
    <3>3. IsPrefix(m, n, V4Width)
      BY <3>2 DEF IsPrefix, V4Bits
    <3>4. V4Width - 1 \in m
      BY <3>2, <2>2, WidthsAssumption DEF V4Bits
    <3>5. validateNetmaskV4(m)
      BY <3>2, <3>4, <2>2, WidthsAssumption DEF validateNetmaskV4, V4Bits
    <3> QED
      BY <3>1, <3>3, <3>5
  <2> QED
    BY <2>1, <2>2 DEF PrefixLengthKept
<1> QED
  BY <1>1, SpecIInv, PTL
=============================================================================
