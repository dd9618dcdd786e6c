------------------------------ MODULE IPAddress ------------------------------
(***************************************************************************)
(* The arithmetic, the order and the embeddings of IPAddress                *)
(* (ipAddress.cpp).  An IPV4 is four bytes, an IPV6 eight groups of two     *)
(* bytes; for arithmetic they are packed into one word and into two.  How   *)
(* many values a byte has is a constant: 256 in the code.                   *)
(*                                                                          *)
(* The state is one IPAddress that walks through a range, the way a program *)
(* enumerates the addresses of a network, and is converted on the way.      *)
(***************************************************************************)
EXTENDS Integers, Sequences

CONSTANTS
    ByteSize,   \* number of values of a byte
    Origins,    \* the addresses a walk may start from
    Values,     \* the values that are added and subtracted
    MaxOffset   \* bound: how far a walk goes from its origin

ASSUME ByteAssumption == ByteSize \in Nat \ {0, 1}

GroupSize == ByteSize * ByteSize
V4Size == GroupSize * GroupSize
WordSize == V4Size * V4Size
MaxWord == WordSize - 1

ASSUME ValuesAssumption == Values \subseteq 0 .. V4Size - 1

None == [type |-> "None"]
V4(v4) == [type |-> "V4", ipv4 |-> v4]
V6(v6) == [type |-> "V6", ipv6 |-> v6]

IPAddresses ==
    {None} \cup [type : {"V4"}, ipv4 : [1 .. 4 -> 0 .. ByteSize - 1]]
           \cup [type : {"V6"}, ipv6 : [1 .. 8 -> 0 .. GroupSize - 1]]

ASSUME OriginsAssumption == Origins \subseteq IPAddresses \ {None}

-----------------------------------------------------------------------------
(* Packing. *)

\* The number with these four digits, the most significant first, and back.
Number(digits, base) ==
    ((digits[1] * base + digits[2]) * base + digits[3]) * base + digits[4]
Digits(n, base) ==
    LET shifted == n \div base
        twice == shifted \div base
    IN  <<(twice \div base) % base, twice % base, shifted % base, n % base>>

packV4(v4) == Number(v4, ByteSize)
unpackV4(p) == Digits(p, ByteSize)
packV6(v6) == <<Number(SubSeq(v6, 1, 4), GroupSize), Number(SubSeq(v6, 5, 8), GroupSize)>>
unpackV6(p) == Digits(p[1], GroupSize) \o Digits(p[2], GroupSize)

-----------------------------------------------------------------------------
(* Arithmetic.  An invalid address throws, and is not walked here.          *)

AddV6(p, value) ==
    LET carry == value - (MaxWord - p[2]) IN
    CASE MaxWord - p[2] >= value -> <<p[1], p[2] + value>>
      [] MaxWord - p[2] < value /\ MaxWord - p[1] >= carry -> <<p[1] + carry, 0>>
      [] MaxWord - p[2] < value /\ MaxWord - p[1] < carry ->
            <<0, carry - (MaxWord - p[1]) - 1>>

\* Mutant: the lower word becomes what it does on a carry.
SubtractV6_ToZero(p, value) ==
    LET borrow == value - p[2] IN
    CASE p[2] >= value -> <<p[1], p[2] - value>>
      [] p[2] < value /\ p[1] >= borrow -> <<p[1] - borrow, 0>>
      [] p[2] < value /\ p[1] < borrow -> <<MaxWord, MaxWord - (borrow - p[1] - 1)>>

SubtractV6(p, value) ==
    LET borrow == value - p[2] IN
    CASE p[2] >= value -> <<p[1], p[2] - value>>
      [] p[2] < value /\ p[1] >= borrow -> <<p[1] - borrow, MaxWord>>
      [] p[2] < value /\ p[1] < borrow -> <<MaxWord, MaxWord - (borrow - p[1] - 1)>>

Plus(ip, value) ==
    IF ip.type = "V4" THEN V4(unpackV4((packV4(ip.ipv4) + value) % V4Size))
                      ELSE V6(unpackV6(AddV6(packV6(ip.ipv6), value)))

Minus(ip, value) ==
    IF ip.type = "V4" THEN V4(unpackV4((packV4(ip.ipv4) - value) % V4Size))
                      ELSE V6(unpackV6(SubtractV6(packV6(ip.ipv6), value)))

-----------------------------------------------------------------------------
(* Order: std::array compares its elements from the first on.               *)

\* Mutant: the last element that differs decides.
LexicographicallyLess_FromTheLast(a, b) ==
    \E i \in DOMAIN a : a[i] < b[i] /\ \A j \in i + 1 .. Len(a) : a[j] = b[j]

LexicographicallyLess(a, b) ==
    \E i \in DOMAIN a : a[i] < b[i] /\ \A j \in 1 .. i - 1 : a[j] = b[j]

TypeOrder == [None |-> 0, V4 |-> 1, V6 |-> 2]

LessThan(lhs, rhs) ==
    IF lhs.type # rhs.type THEN TypeOrder[lhs.type] < TypeOrder[rhs.type]
    ELSE IF lhs.type = "V4" THEN LexicographicallyLess(lhs.ipv4, rhs.ipv4)
                            ELSE LexicographicallyLess(lhs.ipv6, rhs.ipv6)

-----------------------------------------------------------------------------
(* Embeddings of an IPV4 in an IPV6. *)

\* EmbeddedIPv4CompatibleValue and EmbeddedIPv4MappedValue, under EmbeddedIPv4Mask.
CompatiblePrefix == <<0, 0, 0, 0, 0, 0>>
MappedPrefix == <<0, 0, 0, 0, 0, GroupSize - 1>>

isIPV4Compatible(ip) == ip.type = "V6" /\ SubSeq(ip.ipv6, 1, 6) = CompatiblePrefix
isIPV4Mapped(ip) == ip.type = "V6" /\ SubSeq(ip.ipv6, 1, 6) = MappedPrefix

\* The constructors with a tag.
Embed(prefix, ip) ==
    LET packed == packV4(ip.ipv4)
    IN  V6(prefix \o <<packed \div GroupSize, packed % GroupSize>>)

\* Mutant: the first of the two groups is not shifted.
Extract_NotShifted(ip) == V4(unpackV4(ip.ipv6[7] + ip.ipv6[8]))

\* getIPV4Compatible and getIPV4Mapped, where they do not throw.
Extract(ip) == V4(unpackV4(ip.ipv6[7] * GroupSize + ip.ipv6[8]))

-----------------------------------------------------------------------------
VARIABLES
    ip,      \* the address
    origin,  \* where its walk began (history variable)
    offset   \* by how much it has been advanced since (history variable)

vars == <<ip, origin, offset>>

Init ==
    /\ ip = None
    /\ origin = None
    /\ offset = 0

StartAt(address) ==
    /\ ip' = address
    /\ origin' = address
    /\ offset' = 0

SetValue == \E o \in Origins : StartAt(o)

Walk(address, distance) ==
    /\ ip.type # "None"
    /\ offset + distance \in -MaxOffset .. MaxOffset
    /\ ip' = address
    /\ offset' = offset + distance
    /\ UNCHANGED origin

Add == \E v \in Values : Walk(Plus(ip, v), v)
Subtract == \E v \in Values : Walk(Minus(ip, v), -v)
Increment == Walk(Plus(ip, 1), 1)
Decrement == Walk(Minus(ip, 1), -1)

EmbedCompatible == ip.type = "V4" /\ StartAt(Embed(CompatiblePrefix, ip))
EmbedMapped == ip.type = "V4" /\ StartAt(Embed(MappedPrefix, ip))
ExtractEmbedded == (isIPV4Compatible(ip) \/ isIPV4Mapped(ip)) /\ StartAt(Extract(ip))

Next ==
    \/ SetValue
    \/ Add \/ Subtract \/ Increment \/ Decrement
    \/ EmbedCompatible \/ EmbedMapped \/ ExtractEmbedded

Spec == Init /\ [][Next]_vars

-----------------------------------------------------------------------------
(* Properties. *)

\* The address `n` after `a`, all addresses of the type being a ring.
Advanced(a, n) ==
    IF a.type = "V4" THEN V4(unpackV4((packV4(a.ipv4) + n) % V4Size))
    ELSE LET p == packV6(a.ipv6)
             m == p[1] * WordSize + p[2] + n
         IN  V6(unpackV6(<<(m \div WordSize) % WordSize, m % WordSize>>))

\* hpp:188, 191: "Increment operator", "Decrement operator": wherever the walk
\* has led, the address is as far from its origin as the values added and
\* subtracted say, over the carry into the upper word and around the end.
WalkIsExact == ip.type # "None" => ip = Advanced(origin, offset)

IsFirst(a) == IF a.type = "V4" THEN \A i \in 1 .. 4 : a.ipv4[i] = 0
                               ELSE \A i \in 1 .. 8 : a.ipv6[i] = 0
IsLast(a) == IF a.type = "V4" THEN \A i \in 1 .. 4 : a.ipv4[i] = ByteSize - 1
                              ELSE \A i \in 1 .. 8 : a.ipv6[i] = GroupSize - 1

\* hpp:183: operator<, which compares bytes and groups, orders addresses the
\* way operator++ and operator-- walk through them: a step up is to a greater
\* address, a step down to a smaller one, but for the step around the end.
WalkIsOrdered ==
    [][/\ Increment => (LessThan(ip, ip') <=> ~IsLast(ip))
       /\ Decrement => (LessThan(ip', ip) <=> ~IsFirst(ip))]_vars

SameEmbedding(a, b) == \/ isIPV4Mapped(a) /\ isIPV4Mapped(b)
                       \/ isIPV4Compatible(a) /\ isIPV4Compatible(b)

\* hpp:146-156: what is embedded one way is recognised as embedded that way
\* and no other, and extracted again (ipAddress.cpp:346-368).  A step through
\* embedded addresses is a step through the IPV4s they embed: the byte orders
\* of the two agree, and no other bits are touched.
EmbeddingCommutes ==
    [][/\ EmbedCompatible =>
            isIPV4Compatible(ip') /\ ~isIPV4Mapped(ip') /\ Extract(ip') = ip
       /\ EmbedMapped =>
            isIPV4Mapped(ip') /\ ~isIPV4Compatible(ip') /\ Extract(ip') = ip
       /\ Increment /\ SameEmbedding(ip, ip') =>
            Extract(ip') = Plus(Extract(ip), 1)]_vars

=============================================================================
