---------------------------- MODULE IPAddressText ----------------------------
(***************************************************************************)
(* IPAddress and strings (ipAddress.cpp): the constructor that parses one   *)
(* and buildIPString, which every setValue ends with.                       *)
(*                                                                          *)
(* A string is what tokenizeString makes of it: the sequence of the tokens  *)
(* between the colons, empty ones included.  "::1" has the tokens "", "" and *)
(* "1".  A byte is the set of its bits that are set; the groups of an IPV6  *)
(* are pairs of bytes.  How the number in a token is spelled is left out.   *)
(***************************************************************************)
EXTENDS Integers, Sequences, FiniteSets, SequencesExt

CONSTANTS
    ByteBits,   \* the bits of a byte
    Groups,     \* the groups tried in addresses
    Inputs,     \* the tokens tried in strings
    MaxTokens   \* bound: the tokens of a string

Byte == SUBSET ByteBits
Zero == <<{}, {}>>
Ones == <<ByteBits, ByteBits>>

Empty == [kind |-> "empty"]
Hex(g) == [kind |-> "hex", group |-> g]
Dotted(bytes) == [kind |-> "dotted", bytes |-> bytes]

Tokens == {Empty} \cup [kind : {"hex"}, group : Byte \X Byte]
                  \cup [kind : {"dotted"}, bytes : Seq(Byte)]

ASSUME GroupsAssumption == Groups \subseteq Byte \X Byte
ASSUME InputsAssumption == Inputs \subseteq Tokens

None == [type |-> "None"]
V4(v4) == [type |-> "V4", ipv4 |-> v4]
V6(v6) == [type |-> "V6", ipv6 |-> v6]
Throws == [type |-> "invalid_argument"]

-----------------------------------------------------------------------------
(* buildIPString *)

\* Compatible or mapped: the last two groups are an IPV4.
Embedded(v6) ==
    /\ \A i \in 1 .. 5 : v6[i] = Zero
    /\ v6[6] \in {Zero, Ones}

Run(first, last) == [first |-> first, last |-> last]
Size(r) == r.last - r.first + 1

\* The sequences of at least two groups that are zero.
ZeroRuns(v6) ==
    {r \in [first : 1 .. 8, last : 1 .. 8] :
        Size(r) >= 2 /\ \A i \in r.first .. r.last : v6[i] = Zero}

\* Mutant: a sequence that is as long replaces the one before it.
Longest_Last(runs) ==
    CHOOSE r \in runs : \A s \in runs :
        Size(r) > Size(s) \/ (Size(r) = Size(s) /\ r.first >= s.first)

\* The longest, and of several the first.
Longest(runs) ==
    CHOOSE r \in runs : \A s \in runs :
        Size(r) > Size(s) \/ (Size(r) = Size(s) /\ r.first <= s.first)

Elements(v6, from, to) == [i \in 1 .. to - from + 1 |-> Hex(v6[from + i - 1])]

\* From group `from` to the end.  An embedded IPV4 is displayed only if both
\* its groups are.
Ending(v6, from) ==
    IF Embedded(v6) /\ from <= 7
    THEN Append(Elements(v6, from, 6), Dotted(v6[7] \o v6[8]))
    ELSE Elements(v6, from, 8)

\* The tokens of a "::" with these tokens before and after it.
Elide(before, after) ==
    LET OrEmpty(s) == IF s = <<>> THEN <<Empty>> ELSE s
    IN  OrEmpty(before) \o <<Empty>> \o OrEmpty(after)

\* "::" and "::1", special cases in the code, come out the same.
buildIPV6String(v6) ==
    IF ZeroRuns(v6) = {} THEN Ending(v6, 1)
    ELSE LET r == Longest(ZeroRuns(v6))
         IN  Elide(Elements(v6, 1, r.first - 1), Ending(v6, r.last + 1))

buildIPString(ip) ==
    CASE ip.type = "V4" -> <<Dotted(ip.ipv4)>>
      [] ip.type = "V6" -> buildIPV6String(ip.ipv6)

-----------------------------------------------------------------------------
(* The constructor from a string. *)

parseIPV4(token) ==
    IF token.kind = "dotted" /\ Len(token.bytes) = 4 THEN V4(token.bytes) ELSE Throws

\* Mutant: only a leading "::" is taken care of.
Trims_Leading(t) == {IF t[1] = Empty /\ t[2] = Empty THEN Tail(t) ELSE t}

\* Of the two tokens of a leading or trailing "::" one is removed.  If it was
\* all there was (":"), the second check reads before the first token, and may
\* or may not find a string that looks empty there.
Trims(t) ==
    LET u == IF t[1] = Empty /\ t[2] = Empty THEN Tail(t) ELSE t
        n == Len(u)
    IN  CASE u[n] = Empty /\ n = 1 -> {u, <<>>}
          [] u[n] = Empty /\ n > 1 /\ u[n - 1] = Empty -> {Front(u)}
          [] OTHER -> {u}

Empties(t) == {i \in DOMAIN t : t[i] = Empty}
HasDotted(t) == t # <<>> /\ Last(t).kind = "dotted"

\* Mutant: the token that is empty is itself counted among the groups.
EmptyTokens_OneLess(t) == 8 - Len(t) - (IF HasDotted(t) THEN 1 ELSE 0)

\* How many groups the token that is empty stands for: below zero, the unsigned
\* subtraction wraps, and adding it to a position wraps back.
EmptyTokens(t) == 8 - Len(t) + 1 - (IF HasDotted(t) THEN 1 ELSE 0)

\* packPosition when token `i` is read, from 0 on.
PackPosition(t, i) ==
    i - 1 + (IF \E e \in Empties(t) : e < i THEN EmptyTokens(t) - 1 ELSE 0)

SanityChecks(t) ==
    /\ \A i \in DOMAIN t : t[i].kind = "dotted" => i = Len(t)
    /\ Cardinality(Empties(t)) <= 1
    /\ Empties(t) = {} => Len(t) = IF HasDotted(t) THEN 7 ELSE 8

\* The groups a token is packed into, as <<position, group>>.  The assertion that
\* an IPV4 is packed into the last two is theorem PackPositionAsserted.
Packed(t, i) ==
    CASE t[i].kind = "empty"  -> {}
      [] t[i].kind = "hex"    -> {<<PackPosition(t, i), t[i].group>>}
      [] t[i].kind = "dotted" ->
            {<<PackPosition(t, i), SubSeq(t[i].bytes, 1, 2)>>,
             <<PackPosition(t, i) + 1, SubSeq(t[i].bytes, 3, 4)>>}

\* packValue throws beyond the last group, and ORs into the ones before.
parseIPV6(t) ==
    LET packs == UNION {Packed(t, i) : i \in DOMAIN t}
        At(k, b) == UNION {p[2][b] : p \in {q \in packs : q[1] = k}}
    IN  IF /\ SanityChecks(t)
           /\ HasDotted(t) => Len(Last(t).bytes) = 4
           /\ \A p \in packs : p[1] \in 0 .. 7
        THEN V6([k \in 1 .. 8 |-> <<At(k - 1, 1), At(k - 1, 2)>>])
        ELSE Throws

\* What the constructor may make of the string.
Parsed(text) ==
    IF Len(text) >= 2 THEN {parseIPV6(t) : t \in Trims(text)} ELSE {parseIPV4(text[1])}

-----------------------------------------------------------------------------
VARIABLES
    text,      \* the string a user is typing
    ip,        \* the address
    ipString   \* _ipString

vars == <<text, ip, ipString>>

Init ==
    /\ text = <<>>
    /\ ip = None
    /\ ipString = <<>>

Type ==
    /\ ip = None
    /\ Len(text) < MaxTokens
    /\ \E token \in Inputs : text' = Append(text, token)
    /\ UNCHANGED <<ip, ipString>>

\* setValue, which the constructors end with.
Set(address) ==
    /\ ip' = address
    /\ ipString' = buildIPString(address)

\* On an address that has none: what it had is not read.
SetValue ==
    /\ ip = None
    /\ text = <<>>
    /\ \E v6 \in [1 .. 8 -> Groups] : Set(V6(v6))
    /\ UNCHANGED text

\* IPAddress::IPAddress(std::string), which leaves nothing behind if it throws.
Construct ==
    /\ ip = None
    /\ text # <<>>
    /\ \E address \in Parsed(text) : address # Throws /\ Set(address)
    /\ text' = <<>>

Next == Type \/ SetValue \/ Construct

Spec == Init /\ [][Next]_vars

-----------------------------------------------------------------------------
(* Properties. *)

\* What an address is displayed as is read back as that address, wherever its
\* zeros are elided and whichever IPV4 it embeds.
RoundTrip == ip # None => Parsed(ipString) = {ip}

\* How many groups a string spells out.
Spelled(s) == Cardinality({i \in DOMAIN s : s[i].kind = "hex"})
                + 2 * Cardinality({i \in DOMAIN s : s[i].kind = "dotted"})

\* tests/src/ipAddress_tests.cpp:511-552, rfc5952 4.2.1 to 4.2.3: "Shorten as
\* much as possible", but spell out "One 16-Bit 0 Field", and if there is a
\* choice "in Placement of '::'" take the first.
Canonical ==
    ip.type = "V6" =>
        IF ZeroRuns(ip.ipv6) = {} THEN Empties(ipString) = {}
        ELSE \A r \in ZeroRuns(ip.ipv6) :
            LET other == Elide(Elements(ip.ipv6, 1, r.first - 1),
                               Ending(ip.ipv6, r.last + 1))
            IN  \/ Spelled(ipString) < Spelled(other)
                \/ /\ Spelled(ipString) = Spelled(other)
                   /\ \A i \in Empties(other) : \E j \in Empties(ipString) : j <= i

\* The groups that tokens spell, an IPV4 being the last of them, and what a
\* string with at most one "::" means.
GroupsOf(t) ==
    IF HasDotted(t)
    THEN LET four == Last(t).bytes
         IN  [i \in 1 .. Len(t) - 1 |-> t[i].group]
                \o <<SubSeq(four, 1, 2), SubSeq(four, 3, 4)>>
    ELSE [i \in DOMAIN t |-> t[i].group]

Meaning(t) ==
    IF Empties(t) = {} THEN GroupsOf(t)
    ELSE LET e == CHOOSE i \in Empties(t) : TRUE
             zeros == [i \in 1 .. 8 - Spelled(t) |-> Zero]
         IN  GroupsOf(SubSeq(t, 1, e - 1)) \o zeros \o GroupsOf(SubSeq(t, e + 1, Len(t)))

\* hpp:63: "aa::bb::cc::dd::ee::ff::gg::hh" -> [0] = aa, ..., [7] = hh: an
\* accepted string means what it spells, the groups before the "::" first, the
\* ones after it last, an IPV4 in the place of two of them.  Excepted are
\* strings that spell out more groups than an IPV6 has: those with nine groups
\* and a "::" are accepted too, and mean no address.
MeansWhatItSpells ==
    Len(text) >= 2 /\ Spelled(text) <= 8 =>
        \A t \in Trims(text) : parseIPV6(t) # Throws => parseIPV6(t).ipv6 = Meaning(t)

=============================================================================
