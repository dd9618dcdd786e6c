--------------------------- MODULE MCIPAddressInfo ---------------------------
(* IPAddressInfo at its real widths, with addresses around the boundaries of *)
(* the private ranges and of the halves of an IPV6.                          *)
EXTENDS IPAddressInfo

MCV4Addresses ==
    {pack(a) : a \in {<<9, 255, 255, 255>>, <<10, 0, 0, 0>>, <<10, 255, 255, 255>>,
                      <<172, 16, 0, 1>>, <<172, 31, 255, 255>>, <<172, 32, 0, 0>>,
                      <<192, 168, 0, 1>>, <<192, 168, 1, 255>>, <<255, 255, 255, 255>>}}

MCV6Addresses == {<<{63, 0}, {63, 0}>>, <<V6Bits, V6Bits>>}

\* 0.0.0.0 and masks that are not contiguous, inside of a byte and across.
MCV4Masks ==
    {pack(a) : a \in {<<0, 0, 0, 0>>, <<64, 0, 0, 0>>, <<0, 0, 0, 15>>,
                      <<244, 0, 0, 0>>, <<255, 0, 255, 0>>, <<255, 255, 255, 254>>}}

\* Not contiguous in the first half, in the second, or between the two.
MCV6Masks ==
    {<<{62}, {}>>, <<V6Bits, {0}>>, <<V6Bits \ {0}, {63}>>, <<{63}, {63}>>,
     <<V6Bits, {63}>>}

MCPrivateRanges ==
    {[start |-> pack(<<10, 0, 0, 0>>), end |-> pack(<<10, 255, 255, 255>>),
      mask |-> pack(<<255, 0, 0, 0>>)],
     [start |-> pack(<<172, 16, 0, 0>>), end |-> pack(<<172, 31, 255, 255>>),
      mask |-> pack(<<255, 240, 0, 0>>)],
     [start |-> pack(<<192, 168, 0, 0>>), end |-> pack(<<192, 168, 255, 255>>),
      mask |-> pack(<<255, 255, 0, 0>>)]}
=============================================================================
