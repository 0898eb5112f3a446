---------------------------- MODULE MCBitStream -----------------------------
(* Small instances of BitStream for TLC. *)
EXTENDS BitStream

\* Values wider than most of the widths they are written with.
SomeValues == {5, 13}

\* No byte, one byte and three bytes of two bits.
SomeRuns == {<<>>, <<1, 0>>, <<1, 1, 0, 1, 0, 0>>}
=============================================================================
