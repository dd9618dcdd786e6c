--------------------------- MODULE MCIPAddressText ---------------------------
(* IPAddressText with bytes of two bits. *)
EXTENDS IPAddressText

MCByteBits == {0, 1}

\* 0, 0xFFFF, and 1: the last is what "::1" ends with.
MCGroups == {Zero, Ones, <<{}, {0}>>}

Some == Hex(<<{0}, {1}>>)
Quad == Dotted(<<{0}, {1}, {}, {0, 1}>>)
Triple == Dotted(<<{0}, {1}, {}>>)

MCInputs == {Empty, Some, Quad, Triple}
=============================================================================
