---------------------------- MODULE IPAddressInfo ----------------------------
(***************************************************************************)
(* Netmasks and the networks they delimit: IPAddressInfo (ipAddressInfo.cpp), *)
(* the helpers that make and validate masks (networkInterfaceHelper_common.hpp) *)
(* and the conversions between a packed IPV6 mask and its prefix length      *)
(* (ipAddress.cpp).                                                         *)
(*                                                                          *)
(* An unsigned integer is the set of the positions of its bits that are set: *)
(* & and | are intersection and union.  The widths are constants.           *)
(*                                                                          *)
(* The state is one IPAddressInfo, whose two members are public: whoever    *)
(* fills it in, a delegate or the user of the library, may assign them in   *)
(* any order and from any source.                                           *)
(***************************************************************************)
EXTENDS Integers

CONSTANTS
    V4Width,        \* bits of value_type_packed_v4
    V6Width,        \* bits of each half of value_type_packed_v6
    V4Addresses,    \* packed IPV4 addresses an info may be given
    V6Addresses,    \* packed IPV6 addresses, as <<first, second>>
    V4Masks,        \* packed IPV4 netmasks read from the system as they are
    V6Masks,        \* packed IPV6 netmasks, as <<first, second>>
    PrivateRanges   \* the three ranges of isPrivateNetworkAddress

V4Bits == 0 .. V4Width - 1
V6Bits == 0 .. V6Width - 1
Halves == (SUBSET V6Bits) \X (SUBSET V6Bits)

\* The values of a std::uint8_t.
Bytes == 0 .. 255

-----------------------------------------------------------------------------
(* Integers as sets of bits. *)

ShiftLeft(w, n, bits) == {b \in bits : b - n \in w}
ShiftRight(w, n) == {b - n : b \in {c \in w : c >= n}}
Not(w, bits) == bits \ w

\* The most significant bit in which they differ is set in `b`.
Less(a, b) == \E i \in b \ a : \A j \in (a \ b) \cup (b \ a) : j <= i
AtMost(a, b) == a = b \/ Less(a, b)

\* Bits of a number below 256.
BitsOf(n) == {i \in 0 .. 7 : (n \div 2^i) % 2 = 1}

ASSUME WidthsAssumption == V4Width \in Nat \ {0} /\ V6Width \in Nat \ {0}
ASSUME AddressesAssumption ==
    /\ V4Addresses \subseteq SUBSET V4Bits /\ V4Masks \subseteq SUBSET V4Bits
    /\ V6Addresses \subseteq Halves /\ V6Masks \subseteq Halves
ASSUME RangesAssumption ==
    \A r \in PrivateRanges :
        /\ r.mask \subseteq V4Bits
        /\ \A i \in r.mask : \A j \in V4Bits : i < j => j \in r.mask
        /\ r.start \subseteq r.mask
        /\ r.end = r.start \cup Not(r.mask, V4Bits)

-----------------------------------------------------------------------------
(* IPAddress, as far as netmasks are concerned. *)

None == [type |-> "None"]
V4(w) == [type |-> "V4", packed |-> w]
V6(f, s) == [type |-> "V6", first |-> f, second |-> s]

\* std::invalid_argument is thrown.
Throws == [type |-> "invalid_argument"]

IPAddresses ==
    {None} \cup [type : {"V4"}, packed : SUBSET V4Bits]
           \cup [type : {"V6"}, first : SUBSET V6Bits, second : SUBSET V6Bits]

\* IPAddress::pack, of the four bytes of an IPV4.
pack(v4) == UNION {ShiftLeft(BitsOf(v4[i]), 8 * (4 - i), V4Bits) : i \in 1 .. 4}

\* operator&, for two addresses of the same type.
And(l, r) ==
    IF l.type = "V4" THEN V4(l.packed \cap r.packed)
                     ELSE V6(l.first \cap r.first, l.second \cap r.second)

\* Mutant: a length in the lower half is not reduced by the upper one.
packedV6FromPrefixLength_NotReduced(length) ==
    CASE length = V6Width     -> <<V6Bits, {}>>
      [] length = 2 * V6Width -> <<V6Bits, V6Bits>>
      [] length < V6Width     -> <<Not(ShiftRight(V6Bits, length), V6Bits), {}>>
      [] OTHER -> <<V6Bits, Not(ShiftRight(V6Bits, length), V6Bits)>>

packedV6FromPrefixLength(length) ==
    CASE length = V6Width     -> <<V6Bits, {}>>
      [] length = 2 * V6Width -> <<V6Bits, V6Bits>>
      [] length < V6Width     -> <<Not(ShiftRight(V6Bits, length), V6Bits), {}>>
      [] OTHER -> <<V6Bits, Not(ShiftRight(V6Bits, length - V6Width), V6Bits)>>

\* std::countl_one: the set bits before the first unset one, from the top.
LeadingOnes(w) ==
    CHOOSE n \in 0 .. V6Width :
        /\ \A i \in V6Bits : i >= V6Width - n => i \in w
        /\ n < V6Width => V6Width - n - 1 \notin w

prefixLengthFromPackedV6(packed) ==
    IF LeadingOnes(packed[1]) = V6Width
    THEN V6Width + LeadingOnes(packed[2])
    ELSE LeadingOnes(packed[1])

-----------------------------------------------------------------------------
(* networkInterfaceHelper_common.hpp *)

makePackedMaskV4(countBits) ==
    CASE countBits >= V4Width -> V4Bits
      [] countBits = 0        -> {}
      [] OTHER -> ShiftLeft(V4Bits, V4Width - countBits, V4Bits)

\* The lower half is shifted by up to its full width, which is undefined: `lost`
\* tells whether the build then shifts everything out or nothing.
makePackedMaskV6(countBits, lost) ==
    CASE countBits >= 2 * V6Width -> <<V6Bits, V6Bits>>
      [] countBits = 0            -> <<{}, {}>>
      [] countBits \in 1 .. V6Width - 1 ->
            <<V6Bits, ShiftLeft(V6Bits, countBits, V6Bits)>>
      [] OTHER -> <<ShiftLeft(V6Bits, countBits - V6Width, V6Bits),
                    IF lost THEN {} ELSE V6Bits>>

\* Mutant: the check ends where the mask starts.
validateNetmaskV4_Starts(mask) == mask # {}

\* From the least significant bit on: no unset bit once the mask has started,
\* and the mask does start.
validateNetmaskV4(mask) ==
    /\ \A i \in V4Bits \ mask : \A j \in 0 .. i - 1 : j \notin mask
    /\ mask # {}

validateNetmaskV6(mask) ==
    mask = packedV6FromPrefixLength(prefixLengthFromPackedV6(mask))

-----------------------------------------------------------------------------
(* ipAddressInfo.cpp *)

checkValidIPAddressInfo(address, netmask) ==
    /\ address.type = netmask.type
    /\ \/ address.type = "V4" /\ validateNetmaskV4(netmask.packed)
       \/ address.type = "V6" /\ validateNetmaskV6(<<netmask.first, netmask.second>>)

getNetworkBaseAddress(address, netmask) ==
    IF checkValidIPAddressInfo(address, netmask) THEN And(address, netmask) ELSE Throws

\* Mutant: the mask is not inverted.
getBroadcastAddress_NotInverted(address, netmask) ==
    IF checkValidIPAddressInfo(address, netmask) /\ address.type = "V4"
    THEN V4(address.packed \cup netmask.packed)
    ELSE Throws

getBroadcastAddress(address, netmask) ==
    IF checkValidIPAddressInfo(address, netmask) /\ address.type = "V4"
    THEN V4(address.packed \cup Not(netmask.packed, V4Bits))
    ELSE Throws

\* Mutant: the mask is not compared.
InRange_AnyMask(r, adrs, mask) == AtMost(r.start, adrs) /\ AtMost(adrs, r.end)

InRange(r, adrs, mask) ==
    AtMost(r.start, adrs) /\ AtMost(adrs, r.end) /\ AtMost(r.mask, mask)

\* FALSE too when it throws.
isPrivateNetworkAddress(address, netmask) ==
    /\ checkValidIPAddressInfo(address, netmask)
    /\ address.type = "V4"
    /\ \E r \in PrivateRanges : InRange(r, address.packed, netmask.packed)

-----------------------------------------------------------------------------
VARIABLES
    address,  \* the members of the IPAddressInfo
    netmask,
    made      \* the helper the netmask was made by and the number of bits it
              \* was asked for (history variable)

vars == <<address, netmask, made>>

Makers == {"nobody", "makePackedMaskV4", "makePackedMaskV6",
           "packedV6FromPrefixLength"}

TypeOK ==
    /\ address \in IPAddresses
    /\ netmask \in IPAddresses
    /\ made \in [by : Makers, length : Bytes \cup 0 .. 2 * V6Width]

By(maker, n) == [by |-> maker, length |-> n]

Init ==
    /\ address = None
    /\ netmask = None
    /\ made = By("nobody", 0)

SetAddress ==
    /\ address' \in {V4(a) : a \in V4Addresses} \cup {V6(a[1], a[2]) : a \in V6Addresses}
    /\ UNCHANGED <<netmask, made>>

\* The mask as getifaddrs or a user gives it.
SetNetmask ==
    /\ netmask' \in {V4(m) : m \in V4Masks} \cup {V6(m[1], m[2]) : m \in V6Masks}
    /\ made' = By("nobody", 0)
    /\ UNCHANGED address

\* Windows, with an OnLinkPrefixLength.
MakeNetmaskV4 ==
    \E n \in Bytes :
        /\ netmask' = V4(makePackedMaskV4(n))
        /\ made' = By("makePackedMaskV4", n)
        /\ UNCHANGED address

MakeNetmaskV6 ==
    \E n \in Bytes : \E lost \in BOOLEAN :
        LET m == makePackedMaskV6(n, lost) IN
        /\ netmask' = V6(m[1], m[2])
        /\ made' = By("makePackedMaskV6", n)
        /\ UNCHANGED address

\* macOS, with the prefix length of the configuration.
NetmaskFromPrefixLength ==
    \E n \in 0 .. 2 * V6Width :
        LET m == packedV6FromPrefixLength(n) IN
        /\ netmask' = V6(m[1], m[2])
        /\ made' = By("packedV6FromPrefixLength", n)
        /\ UNCHANGED address

Next ==
    \/ SetAddress \/ SetNetmask
    \/ MakeNetmaskV4 \/ MakeNetmaskV6 \/ NetmaskFromPrefixLength

Spec == Init /\ [][Next]_vars

-----------------------------------------------------------------------------
(* Properties. *)

Valid == checkValidIPAddressInfo(address, netmask)

\* The `n` most significant bits of all the bits of an address: the network
\* part of prefix length `n`, bits being numbered from the top.
IsPrefix(w, n, width) == \A i \in 0 .. width - 1 : i \in w <=> i >= width - n

\* ipAddressInfo.cpp:56: "Check if netmask is contiguous": whatever passes is a
\* prefix mask over the whole width of the address, in IPV6 over both halves
\* together, whoever made it.
OnlyContiguous ==
    Valid =>
        IF netmask.type = "V4"
        THEN \E n \in 1 .. V4Width : IsPrefix(netmask.packed, n, V4Width)
        ELSE \E n \in 0 .. 2 * V6Width :
                /\ IsPrefix(netmask.second, n - V6Width, V6Width)
                /\ IsPrefix(netmask.first, n, V6Width)

\* A mask made for a prefix length has that prefix length: for the helper
\* macOS uses, at every boundary of the two halves, and for the one for IPV4.
PrefixLengthKept ==
    /\ made.by = "packedV6FromPrefixLength" =>
        /\ validateNetmaskV6(<<netmask.first, netmask.second>>)
        /\ prefixLengthFromPackedV6(<<netmask.first, netmask.second>>) = made.length
    /\ made.by = "makePackedMaskV4" /\ made.length \in 1 .. V4Width =>
        /\ validateNetmaskV4(netmask.packed)
        /\ IsPrefix(netmask.packed, made.length, V4Width)

\* hpp:257-260: the network base and the broadcast address delimit the
\* network: an address is between the two if and only if it has the network
\* part of this one.
NetworkDelimited ==
    Valid /\ address.type = "V4" =>
        \A a \in V4Addresses :
            And(V4(a), netmask) = getNetworkBaseAddress(address, netmask)
            <=> /\ AtMost(getNetworkBaseAddress(address, netmask).packed, a)
                /\ AtMost(a, getBroadcastAddress(address, netmask).packed)

\* hpp:262: "Returns true if the IPAddressInfo is in the private network
\* range": all of its network is, from the base to the broadcast address,
\* though the code compares masks as numbers.
PrivateAsAWhole ==
    isPrivateNetworkAddress(address, netmask) =>
        \E r \in PrivateRanges :
            /\ AtMost(r.start, getNetworkBaseAddress(address, netmask).packed)
            /\ AtMost(getBroadcastAddress(address, netmask).packed, r.end)

\* hpp:218: "Helper method to generate IPAddress::value_type_packed_v6 from
\* prefix length".  The netmask Windows reports for the prefix length of an
\* address is the one the helper generates.
WindowsPrefixLengthKept ==
    made.by = "makePackedMaskV6" /\ made.length <= 2 * V6Width =>
        <<netmask.first, netmask.second>> = packedV6FromPrefixLength(made.length)

=============================================================================
