----------------------- MODULE MCNetworkInterfaceHelper -----------------------
(* Instances of NetworkInterfaceHelper for TLC.                             *)
EXTENDS NetworkInterfaceHelper

MCNames == {"eth0", "wlan0"}

Off == [f \in Fields |-> 0]

\* The first and the last of the fields that are compared.
On == [Off EXCEPT !.isEnabled = 1, !.gateways = 1]

Eth0(i) == [n \in {"eth0"} |-> i]
Wlan0(i) == [n \in {"wlan0"} |-> i]
Both(i, j) == [n \in {"eth0", "wlan0"} |-> IF n = "eth0" THEN i ELSE j]

\* From one of these lists to another, interfaces come and go, one or both at
\* once, one while the other changes two fields, one while the other comes.
MCReports == {NoTable, Eth0(Off), Wlan0(Off), Both(On, Off)}

=============================================================================
