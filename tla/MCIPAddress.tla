----------------------------- MODULE MCIPAddress -----------------------------
(* IPAddress with bytes of two values: 16 IPV4 and 65536 IPV6, walked from   *)
(* both sides of each boundary a carry crosses.                              *)
EXTENDS IPAddress

G == GroupSize - 1

MCOrigins ==
    {V4(<<0, 0, 0, 0>>), V4(<<0, 1, 1, 1>>), V4(<<1, 1, 1, 1>>),
     V6(<<0, 0, 0, 0, 0, 0, 0, 0>>),
     V6(<<0, 0, 0, 0, G, G, G, G>>),
     V6(<<1, 0, G, G, G, G, G, G>>),
     V6(<<G, G, G, G - 1, G, G, G, G - 1>>),
     V6(<<G, G, G, G, G, G, G, G>>)}
=============================================================================
