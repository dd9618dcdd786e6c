------------------------------ MODULE CBindings ------------------------------
(***************************************************************************)
(* The C bindings (bindings/c/networkInterfaceHelper_c.cpp) over the table  *)
(* that Enumeration publishes: an interface that a C program is given is a  *)
(* copy made of many blocks of memory, which the program gives back with    *)
(* LA_NIH_freeNetworkInterface.  The MAC address helpers of                 *)
(* networkInterfaceHelper_common.cpp are here because the bindings use them.*)
(***************************************************************************)
EXTENDS Enumeration

CONSTANTS
    Mac,         \* the MAC address of each adapter: six bytes
    Gateways,    \* the gateways of each adapter
    Handles,     \* where the allocator puts structures
    Null,        \* nullptr
    MaxExhausted \* bound: calls of strdup that find no memory

ASSUME MacAssumption == Mac \in [Adapters -> [1 .. 6 -> 0 .. 255]]
ASSUME GatewaysAssumption == \A a \in Adapters : Gateways[a] \in Seq(Range(Gateways[a]))
ASSUME ExhaustedAssumption == MaxExhausted \in Nat

VARIABLES
    heap,       \* what is in each block that is allocated
    copy,       \* the structures the program has, by their handles
    text,       \* a string that LA_NIH_macAddressToString returned
    exhausted,  \* how often memory was short
    listing,    \* interfaces LA_NIH_enumerateInterfaces has still to hand out
    original    \* what each copy was made of (history variable)

bindingVars == <<heap, copy, text, exhausted, listing, original>>
vars == <<enumVars, bindingVars>>

\* The fields that are strings and those that are arrays of strings.
Names == {"id", "description", "alias"}
Fields == {"ip_addresses", "gateways"}

\* A block is named by its structure, the field that points to it, and its
\* place in the array of that field.
Structure(h) == <<h, "intfc", 0>>
Blocks == Handles \X (Names \cup Fields \cup {"intfc"}) \X Nat

ASSUME NullAssumption == Null \notin Blocks /\ Null \notin Seq(Blocks \cup {Null})

BindingTypeOK ==
    /\ DOMAIN heap \subseteq Blocks
    /\ DOMAIN copy \subseteq Handles
    /\ DOMAIN original = DOMAIN copy
    /\ exhausted \in 0 .. MaxExhausted
    /\ listing \subseteq DOMAIN table

TypeOK == EnumTypeOK /\ BindingTypeOK

Nothing == [x \in {} |-> TRUE]

Init ==
    /\ EnumInit
    /\ heap = Nothing
    /\ copy = Nothing
    /\ text = Null
    /\ exhausted = 0
    /\ listing = {}
    /\ original = Nothing

-----------------------------------------------------------------------------
(* MAC addresses.  Characters are numbers; digits have their values.        *)

Hex == 0 .. 15
Colon == 16
Separators == {<<>>, <<Colon>>}

\* NetworkInterfaceHelper::macAddressToString.  The separator '\0' is none.
macAddressToString(mac, separator) ==
    FlattenSeq([i \in 1 .. 6 |-> (IF i = 1 THEN <<>> ELSE separator)
                                     \o <<mac[i] \div 16, mac[i] % 16>>])

\* The digits at the beginning, which is all that a stream reads of a number.
Leading(string) ==
    LET other == {i \in DOMAIN string : string[i] \notin Hex}
    IN  SubSeq(string, 1, IF other = {} THEN Len(string) ELSE Min(other) - 1)

\* Mutant: separators stay in the string.
stringToMacAddress_NotErased(string, separator) ==
    LET padded == [i \in 1 .. 12 |-> 0] \o Leading(string)
        digit(i) == padded[Len(padded) - 12 + i]
    IN  [i \in 1 .. 6 |-> 16 * digit(2 * i - 1) + digit(2 * i)]

\* NetworkInterfaceHelper::stringToMacAddress, of a string with one digit at
\* the beginning and no more than the 16 of a std::uint64_t: the last six
\* bytes of the number that is left without the separators.
stringToMacAddress(string, separator) ==
    LET erased == FlattenSeq([i \in DOMAIN string |-> IF Contains(separator, string[i]) THEN <<>>
                                                      ELSE <<string[i]>>])
        number == Leading(erased)
        padded == [i \in 1 .. 12 |-> 0] \o number
        digit(i) == padded[Len(padded) - 12 + i]
    IN  [i \in 1 .. 6 |-> 16 * digit(2 * i - 1) + digit(2 * i)]

-----------------------------------------------------------------------------
(* Copies *)

\* What there is to copy into a field.  Only Windows lists gateways.
Content(a, field) ==
    CASE field = "ip_addresses" -> table[a].addresses
      [] field = "gateways" -> IF platform = "Windows" THEN Gateways[a] ELSE <<>>

\* Mutant: there is no room for the NULL at the end.
Array_Unterminated(h, a, field, short) ==
    LET string(i) == <<h, field, i>>
    IN  IF Content(a, field) = <<>> THEN Null
        ELSE [i \in DOMAIN Content(a, field) |-> IF string(i) \in short THEN Null ELSE string(i)]

\* The field is NULL if there is nothing to list, and otherwise an array of
\* strings with NULL at the end.  strdup returns NULL when memory is `short`.
Array(h, a, field, short) ==
    LET string(i) == <<h, field, i>>
    IN  IF Content(a, field) = <<>> THEN Null
        ELSE [i \in DOMAIN Content(a, field) |-> IF string(i) \in short THEN Null ELSE string(i)]
                 \o <<Null>>

\* The strings strdup is to make, and what is in them.
Duplicates(h, a) ==
    {<<h, f, 0>> : f \in Names}
        \cup UNION {{<<h, f, i>> : i \in DOMAIN Content(a, f)} : f \in Fields}

In(a, block) == IF block[2] \in Names THEN a ELSE Content(a, block[2])[block[3]]

\* The blocks that new makes.
News(h, a) == {Structure(h)} \cup {<<h, f, 0>> : f \in {g \in Fields : Content(a, g) # <<>>}}

\* make_nih_network_interface
Make(h, a) ==
    /\ h \notin DOMAIN copy
    /\ \A b \in DOMAIN heap : b[1] # h
    /\ \E n \in 0 .. MaxExhausted - exhausted : \E short \in kSubset(n, Duplicates(h, a)) :
           LET made == Duplicates(h, a) \ short
           IN  /\ exhausted' = exhausted + n
               /\ heap' = [b \in DOMAIN heap \cup made \cup News(h, a) |->
                              IF b \in DOMAIN heap THEN heap[b]
                              ELSE IF b \in made THEN In(a, b) ELSE Null]
               /\ copy' = Extend(copy, h, [f \in Names \cup Fields \cup {"mac_address"} |->
                              CASE f \in Names -> IF <<h, f, 0>> \in made THEN <<h, f, 0>> ELSE Null
                                [] f \in Fields -> Array(h, a, f, short)
                                [] f = "mac_address" -> Mac[a]])
    /\ original' = Extend(original, h, [f \in Fields \cup {"name"} |->
                                           IF f = "name" THEN a ELSE Content(a, f)])

\* What a program, or the library, reads of an array: it stops at the NULL.
Read(array) ==
    IF array = Null THEN <<>>
    ELSE SubSeq(array, 1, Min({i \in DOMAIN array : array[i] = Null}) - 1)

\* Mutant: gateways are forgotten.
Released_NotGateways(h) ==
    {Structure(h)}
        \cup ({copy[h][f] : f \in Names} \ {Null})
        \cup (IF copy[h].ip_addresses = Null THEN {}
              ELSE {<<h, "ip_addresses", 0>>} \cup Range(Read(copy[h].ip_addresses)))

\* What delete_nih_network_interface frees.
Released(h) ==
    {Structure(h)}
        \cup ({copy[h][f] : f \in Names} \ {Null})
        \cup UNION {{<<h, f, 0>>} \cup Range(Read(copy[h][f]))
                       : f \in {g \in Fields : copy[h][g] # Null}}

-----------------------------------------------------------------------------
(* The library's functions, called by a single thread. *)

\* NULL if there is no such interface; nothing happens then.
LA_NIH_getInterfaceByName(a) ==
    /\ a \in DOMAIN table
    /\ \E h \in Handles : Make(h, a)
    /\ UNCHANGED <<enumVars, text, listing>>

\* The lock is held until all interfaces are handed out.
LA_NIH_enumerateInterfaces ==
    /\ listing = {}
    /\ listing' = DOMAIN table
    /\ UNCHANGED <<enumVars, heap, copy, text, exhausted, original>>

HandOut ==
    /\ \E a \in listing, h \in Handles : Make(h, a) /\ listing' = listing \ {a}
    /\ UNCHANGED <<enumVars, text>>

LA_NIH_freeNetworkInterface(h) ==
    /\ h \in DOMAIN copy
    /\ heap' = [b \in DOMAIN heap \ Released(h) |-> heap[b]]
    /\ copy' = [i \in DOMAIN copy \ {h} |-> copy[i]]
    /\ original' = [i \in DOMAIN copy \ {h} |-> original[i]]
    /\ UNCHANGED <<enumVars, text, exhausted, listing>>

LA_NIH_macAddressToString(h) ==
    /\ h \in DOMAIN copy
    /\ text = Null
    /\ text' = macAddressToString(copy[h].mac_address, <<Colon>>)
    /\ UNCHANGED <<enumVars, heap, copy, exhausted, listing, original>>

\* The program frees the string itself.  The function LA_NIH_freeString that
\* networkInterfaceHelper.h:88 tells it to call is not there.
ProgramFreesString ==
    /\ text # Null
    /\ text' = Null
    /\ UNCHANGED <<enumVars, heap, copy, exhausted, listing, original>>

Program ==
    \/ \E a \in Adapters : LA_NIH_getInterfaceByName(a)
    \/ LA_NIH_enumerateInterfaces \/ HandOut
    \/ \E h \in Handles : LA_NIH_freeNetworkInterface(h) \/ LA_NIH_macAddressToString(h)
    \/ ProgramFreesString

\* Mutant: the delegate publishes without the lock.
Apart_NoLock == UNCHANGED bindingVars

\* The delegate leaves copies alone, and needs the lock to publish.
Apart ==
    /\ table' # table => listing = {}
    /\ UNCHANGED bindingVars

Next == (EnumNext /\ Apart) \/ Program

Spec == Init /\ [][Next]_vars

-----------------------------------------------------------------------------
(* Properties. *)

Contents(array) == LET strings == Read(array) IN [i \in DOMAIN strings |-> heap[strings[i]]]

\* What a program reads of its copy stays what was copied, however the table
\* changes: every array ends with NULL, no string in it is gone before the
\* program gives the copy back, and all are there unless memory was short.
CopiesAreWhole ==
    \A h \in DOMAIN copy, f \in Fields :
        /\ copy[h][f] # Null => Null \in Range(copy[h][f])
        /\ Range(Read(copy[h][f])) \subseteq DOMAIN heap
        /\ IsPrefix(Contents(copy[h][f]), original[h][f])
        /\ exhausted = 0 => Contents(copy[h][f]) = original[h][f]

\* A block that outlives its copy is a string behind one that could not be
\* made: the NULL in its place ends the walk that frees.  Everything else is
\* given back, and nothing is that was not allocated.
FreedAsAWhole ==
    [][\A h \in DOMAIN copy \ DOMAIN copy' :
           /\ Released(h) \subseteq DOMAIN heap
           /\ \A b \in DOMAIN heap' :
                  b[1] = h => /\ b[2] \in Fields
                              /\ \E i \in 1 .. b[3] - 1 : copy[h][b[2]][i] = Null]_vars

\* hpp:377: a MAC address is read back from the string that displays it, with
\* the separator it was displayed with.
MacAddressesReadBack ==
    /\ text # Null => \E a \in Adapters : stringToMacAddress(text, <<Colon>>) = Mac[a]
    /\ \A h \in DOMAIN copy, s \in Separators :
           stringToMacAddress(macAddressToString(copy[h].mac_address, s), s)
               = Mac[original[h].name]

=============================================================================
