----------------------------- MODULE Enumeration -----------------------------
(***************************************************************************)
(* How the delegates read the list of interfaces from the operating system: *)
(* refreshInterfaces of networkInterfaceHelper_unix.cpp, _ios.mm and        *)
(* _win32.cpp, and the publication of the list.  getifaddrs (Unix and iOS)  *)
(* returns the whole configuration at once.  Windows is asked several       *)
(* times, and the configuration may change from one time to the next.       *)
(*                                                                          *)
(* Of an interface the model keeps its addresses and the pass that listed   *)
(* it, which decides over all other fields.                                 *)
(***************************************************************************)
EXTENDS Naturals, Sequences, FiniteSets, SequencesExt

CONSTANTS
    Platforms,   \* those of {"Unix", "iOS", "Windows"} to consider
    Adapters,    \* names of adapters
    Type,        \* what each is: "Ethernet", "WiFi", "Loopback", "unsupported"
    Hidden,      \* those WMI marks as hidden and Unix has no link-layer data of
    Systems,     \* the configurations the system starts with
    Addresses,   \* sequences of addresses that an adapter may have
    Unreadable,  \* addresses that Unix displays in a way IPAddress does not accept
    MaxChanges,  \* bound: changes of the configuration
    MaxFailures  \* bound: failing calls of the system

ASSUME PlatformsAssumption == Platforms \subseteq {"Unix", "iOS", "Windows"}
ASSUME TypeAssumption ==
    Type \in [Adapters -> {"Ethernet", "WiFi", "Loopback", "unsupported"}]
ASSUME AdaptersAssumption == IsFiniteSet(Adapters)
ASSUME HiddenAssumption == Hidden \subseteq Adapters
ASSUME AddressesAssumption == \A s \in Addresses : s \in Seq(Range(s))
ASSUME BoundsAssumption == MaxChanges \in Nat /\ MaxFailures \in Nat

\* An adapter the system knows of.  Windows gives addresses of active ones.
Configurations == [active : BOOLEAN, addresses : Addresses]
ASSUME SystemsAssumption ==
    \A s \in Systems : DOMAIN s \subseteq Adapters /\ s \in [DOMAIN s -> Configurations]

VARIABLES
    platform,    \* the one the library was built for
    system,      \* the adapters there are
    changes,     \* how often that has changed
    failures,    \* how often a call has failed
    comGuard,    \* _comGuard has a value (Windows)
    at,          \* where the enumeration is
    waiting,     \* adapters WMI has still to return
    ulSize,      \* the size GetAdaptersAddresses has asked for
    interfaces,  \* the list being read
    table,       \* _networkInterfaces
    steady,      \* adapters that are as they were when the enumeration began
                 \* (history variable)
    cut          \* a call failed and left something out (history variable)

environment == <<platform, system, changes, failures>>
history == <<steady, cut>>
enumVars == <<environment, comGuard, at, waiting, ulSize, interfaces, table, history>>

NoInterfaces == [a \in {} |-> TRUE]
Passes == {"link", "WMI", "addresses", "WinAPI"}

Interfaces == [pass : Passes, addresses : Seq(UNION {Range(s) : s \in Addresses})]

IsList(list) == DOMAIN list \subseteq Adapters /\ list \in [DOMAIN list -> Interfaces]

EnumTypeOK ==
    /\ platform \in Platforms
    /\ DOMAIN system \subseteq Adapters
    /\ system \in [DOMAIN system -> Configurations]
    /\ changes \in 0 .. MaxChanges
    /\ failures \in 0 .. MaxFailures
    /\ comGuard \in BOOLEAN
    /\ at \in {"idle", "query", "next", "size", "read", "giveUp", "sizeAPI", "readAPI",
               "publish"}
    /\ waiting \subseteq Adapters
    /\ ulSize \in Nat
    /\ IsList(interfaces) /\ IsList(table)
    /\ steady \subseteq Adapters
    /\ cut \in BOOLEAN

EnumInit ==
    /\ platform \in Platforms
    /\ system \in Systems
    /\ changes = 0
    /\ failures = 0
    /\ comGuard = FALSE
    /\ at = "idle"
    /\ waiting = {}
    /\ ulSize = 0
    /\ interfaces = NoInterfaces
    /\ table = NoInterfaces
    /\ steady = {}
    /\ cut = FALSE

-----------------------------------------------------------------------------
\* An adapter comes, goes or is configured anew.
SystemChanges ==
    /\ changes < MaxChanges
    /\ \E a \in Adapters :
           /\ \/ a \in DOMAIN system
                 /\ system' = [b \in DOMAIN system \ {a} |-> system[b]]
              \/ \E c \in Configurations :
                     /\ a \in DOMAIN system => system[a] # c
                     /\ system' = [b \in DOMAIN system \cup {a} |->
                                      IF b = a THEN c ELSE system[b]]
           /\ steady' = steady \ {a}
    /\ changes' = changes + 1
    /\ UNCHANGED <<platform, failures, comGuard, at, waiting, ulSize, interfaces, table, cut>>

Go(from, to) ==
    /\ at = from
    /\ at' = to

\* A call of the system fails.
Fails ==
    /\ failures < MaxFailures
    /\ failures' = failures + 1
    /\ UNCHANGED <<platform, system, changes>>

-----------------------------------------------------------------------------
(* Unix and iOS: getifaddrs *)

\* Links come before addresses.
Ifaddrs ==
    LET names == SetToSeq(DOMAIN system)
        link(a) == [name |-> a, family |-> "link", data |-> a \notin Hidden]
        inets(a) == [i \in 1 .. Len(system[a].addresses) |->
                        [name |-> a, family |-> "inet", address |-> system[a].addresses[i]]]
    IN  [i \in DOMAIN names |-> link(names[i])]
            \o FlattenSeq([i \in DOMAIN names |-> inets(names[i])])

IsLink(ifa) == ifa.family = "link" /\ (platform = "iOS" \/ ifa.data)

\* The constructor of IPAddress throws: of fe80::1%eth0.100 the dot in the name
\* of the adapter makes the last group look like an IPV4.
Throws(ifa) == platform = "Unix" /\ ifa.address \in Unreadable

Extend(list, a, interface) ==
    [b \in DOMAIN list \cup {a} |-> IF b = a THEN interface ELSE list[b]]

\* The body of the loop.  What the constructor throws is caught.
Record(list, ifa) ==
    IF IsLink(ifa) THEN Extend(list, ifa.name, [pass |-> "link", addresses |-> <<>>])
    ELSE IF ifa.family = "inet" /\ ifa.name \in DOMAIN list /\ ~Throws(ifa)
         THEN [list EXCEPT ![ifa.name].addresses = @ \o <<ifa.address>>]
    ELSE list

RefreshIfaddrs ==
    /\ platform # "Windows"
    /\ Go("idle", "publish")
    /\ interfaces' = FoldLeft(Record, NoInterfaces, Ifaddrs)
    /\ steady' = Adapters
    /\ cut' = FALSE
    /\ UNCHANGED <<environment, comGuard, waiting, ulSize, table>>

\* getifaddrs or the socket: the list stays empty.
IfaddrsFail ==
    /\ platform # "Windows"
    /\ Go("idle", "publish")
    /\ Fails
    /\ interfaces' = NoInterfaces
    /\ steady' = Adapters
    /\ cut' = TRUE
    /\ UNCHANGED <<comGuard, waiting, ulSize, table>>

-----------------------------------------------------------------------------
(* Windows: refreshInterfaces_WMI *)

\* The observer thread is made anew, and COM is initialised in it or not.
InitialiseCom ==
    /\ platform = "Windows"
    /\ Go("idle", "idle")
    /\ comGuard' \in BOOLEAN
    /\ UNCHANGED <<environment, waiting, ulSize, interfaces, table, history>>

Refresh ==
    /\ platform = "Windows"
    /\ Go("idle", IF comGuard THEN "query" ELSE "sizeAPI")
    /\ interfaces' = NoInterfaces
    /\ steady' = Adapters
    /\ cut' = FALSE
    /\ UNCHANGED <<environment, comGuard, waiting, ulSize, table>>

\* WMI does not know of loopback interfaces.
Query ==
    /\ Go("query", "next")
    /\ waiting' = {a \in DOMAIN system : Type[a] # "Loopback"}
    /\ UNCHANGED <<environment, comGuard, ulSize, interfaces, table, history>>

QueryFails ==
    /\ Go("query", "giveUp")
    /\ Fails
    /\ UNCHANGED <<comGuard, waiting, ulSize, interfaces, table, history>>

Supported(a) == Type[a] # "unsupported"

\* Next returns one adapter, which is visible, of a supported type ...
NextAdapter ==
    \E a \in waiting :
        /\ Go("next", "next")
        /\ waiting' = waiting \ {a}
        /\ interfaces' = IF a \notin Hidden /\ Supported(a)
                         THEN Extend(interfaces, a, [pass |-> "WMI", addresses |-> <<>>])
                         ELSE interfaces
        /\ UNCHANGED <<environment, comGuard, ulSize, table, history>>

\* ... and is skipped if its type, identifier or MAC address is not available.
AdapterFails ==
    \E a \in waiting :
        /\ Go("next", "next")
        /\ Fails
        /\ waiting' = waiting \ {a}
        /\ cut' = TRUE
        /\ UNCHANGED <<comGuard, ulSize, interfaces, table, steady>>

NoMoreAdapters ==
    /\ Go("next", "size")
    /\ waiting = {}
    /\ UNCHANGED <<environment, comGuard, waiting, ulSize, interfaces, table, history>>

\* Next itself fails: that is the end of the adapters, and not of WMI.
NextFails ==
    /\ Go("next", "size")
    /\ Fails
    /\ waiting' = {}
    /\ cut' = TRUE
    /\ UNCHANGED <<comGuard, ulSize, interfaces, table, steady>>

-----------------------------------------------------------------------------
(* Windows: GetAdaptersAddresses *)

Reported == {a \in DOMAIN system : system[a].active}

\* One unit for an adapter, one for an address.
Size == Cardinality(UNION {{a} \X (0 .. Len(system[a].addresses)) : a \in Reported})

AskSize ==
    /\ \/ Go("size", "read") \/ Go("sizeAPI", "readAPI")
    /\ ulSize' = Size
    /\ UNCHANGED <<environment, comGuard, waiting, interfaces, table, history>>

\* Mutant: adapters WMI has not found are listed whatever their type.
ReadAddresses_All ==
    /\ Go("read", "publish")
    /\ Size <= ulSize
    /\ interfaces' = [a \in DOMAIN interfaces \cup Reported |->
           [pass |-> IF a \in DOMAIN interfaces THEN "WMI" ELSE "addresses",
            addresses |-> IF a \in Reported THEN system[a].addresses ELSE <<>>]]
    /\ UNCHANGED <<environment, comGuard, waiting, ulSize, table, history>>

\* The second pass: addresses of the adapters that WMI has found, and loopback
\* interfaces.
ReadAddresses ==
    /\ Go("read", "publish")
    /\ Size <= ulSize
    /\ interfaces' = [a \in DOMAIN interfaces
                                \cup {l \in Reported : Type[l] = "Loopback"} |->
           [pass |-> IF a \in DOMAIN interfaces THEN "WMI" ELSE "addresses",
            addresses |-> IF a \in Reported THEN system[a].addresses ELSE <<>>]]
    /\ UNCHANGED <<environment, comGuard, waiting, ulSize, table, history>>

\* There is more than there was when the size was asked for, or the call fails
\* for another reason.
DoesNotFit ==
    \/ Size > ulSize /\ UNCHANGED environment
    \/ Fails

\* WMI is given up.
ReadAddressesFails ==
    /\ Go("read", "giveUp")
    /\ DoesNotFit
    /\ UNCHANGED <<comGuard, waiting, ulSize, interfaces, table, history>>

\* Mutant: what WMI has found is kept.
GiveUpWMI_KeepsList ==
    /\ Go("giveUp", "sizeAPI")
    /\ comGuard' = FALSE
    /\ UNCHANGED <<environment, waiting, ulSize, interfaces, table, history>>

\* refreshInterfaces: "never try this again", "clear the list".
GiveUpWMI ==
    /\ Go("giveUp", "sizeAPI")
    /\ comGuard' = FALSE
    /\ interfaces' = NoInterfaces
    /\ UNCHANGED <<environment, waiting, ulSize, table, history>>

\* refreshInterfaces_WinAPI.  emplace leaves what is in the list.
ReadWinAPI ==
    /\ Go("readAPI", "publish")
    /\ Size <= ulSize
    /\ interfaces' = [a \in DOMAIN interfaces \cup {r \in Reported : Supported(r)} |->
           IF a \in DOMAIN interfaces THEN interfaces[a]
           ELSE [pass |-> "WinAPI", addresses |-> system[a].addresses]]
    /\ UNCHANGED <<environment, comGuard, waiting, ulSize, table, history>>

ReadWinAPIFails ==
    /\ Go("readAPI", "publish")
    /\ DoesNotFit
    /\ cut' = TRUE
    /\ UNCHANGED <<comGuard, waiting, ulSize, interfaces, table, steady>>

-----------------------------------------------------------------------------
\* onNewInterfacesList
Publish ==
    /\ Go("publish", "idle")
    /\ table' = interfaces
    /\ interfaces' = NoInterfaces
    /\ UNCHANGED <<environment, comGuard, waiting, ulSize, history>>

Enumerate ==
    \/ RefreshIfaddrs \/ IfaddrsFail
    \/ Refresh \/ Query \/ QueryFails \/ NextAdapter \/ AdapterFails
    \/ NoMoreAdapters \/ NextFails \/ AskSize
    \/ ReadAddresses \/ ReadAddressesFails \/ GiveUpWMI
    \/ ReadWinAPI \/ ReadWinAPIFails
    \/ Publish

EnumNext == SystemChanges \/ InitialiseCom \/ Enumerate

-----------------------------------------------------------------------------
(* Properties. *)

\* Which adapters the platform lists, and with which addresses.
Listed(a) ==
    /\ a \in DOMAIN system
    /\ CASE platform = "iOS" -> TRUE
         [] platform = "Unix" -> a \notin Hidden
         [] platform = "Windows" /\ comGuard ->
                IF Type[a] = "Loopback" THEN system[a].active
                ELSE Supported(a) /\ a \notin Hidden
         [] OTHER -> Supported(a) /\ system[a].active

Readable(address) == platform = "Unix" => address \notin Unreadable

ListedAddresses(a) ==
    IF platform = "Windows" /\ ~system[a].active THEN <<>>
    ELSE FlattenSeq([i \in DOMAIN system[a].addresses |->
                        IF Readable(system[a].addresses[i]) THEN <<system[a].addresses[i]>>
                                                            ELSE <<>>])

\* Whatever else comes and goes while the list is read in several passes: an
\* adapter that does not change meanwhile is in it exactly if the platform
\* lists it, and with all its addresses that IPAddress accepts.  Excepted are
\* lists that a failing call has cut short: the code publishes those as well.
SteadyAdaptersListed ==
    at = "publish" /\ ~cut =>
        \A a \in steady :
            /\ a \in DOMAIN interfaces <=> Listed(a)
            /\ Listed(a) => interfaces[a].addresses = ListedAddresses(a)

\* win32.cpp:548: "Clear the list, just in case we managed to get some
\* information": no list is read partly by WMI and partly without.
NeverMixed ==
    at = "publish" => \A a \in DOMAIN interfaces :
                          comGuard <=> interfaces[a].pass \in {"WMI", "addresses"}

=============================================================================
