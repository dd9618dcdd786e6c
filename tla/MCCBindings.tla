----------------------------- MODULE MCCBindings -----------------------------
(* Instances of CBindings. *)
EXTENDS CBindings

MCPlatforms == {"Unix", "iOS", "Windows"}
\* One that is like no other, one that is hidden, one of no supported type.
MCAdapters == {"eth", "lo", "vm", "tun"}
MCType == [a \in MCAdapters |-> CASE a = "lo" -> "Loopback"
                                  [] a = "tun" -> "unsupported"
                                  [] OTHER -> "Ethernet"]
MCHidden == {"vm"}
MCAddresses == {<<>>, <<"scoped", "ipv4">>}
MCUnreadable == {"scoped"}
MCSystems ==
    {[a \in {"eth", "vm", "tun"} |-> [active |-> a # "vm", addresses |-> <<"scoped", "ipv4">>]]}

\* Bytes with a digit of zero in front, behind, and in both places.
MCMac == [a \in MCAdapters |-> IF a = "lo" THEN [i \in 1 .. 6 |-> 0]
                               ELSE <<0, 255, 16, 1, 171, 0>>]
MCGateways == [a \in MCAdapters |-> IF a = "eth" THEN <<"gw", "gw">> ELSE <<>>]

=============================================================================
