-------------------------------- MODULE Bits --------------------------------
(***************************************************************************)
(* What the two halves of src/include/khcomp/bit_stream.hpp share: the     *)
(* widths of the accumulator and of a byte, bits, and what a call returns. *)
(***************************************************************************)
EXTENDS Integers, Sequences, SequencesExt

CONSTANTS
    AccBits,    \* the bits of an accumulator, 64 in the code
    ByteBits    \* the bits of a byte, 8 in the code

ASSUME BitsAssumption ==
    /\ ByteBits \in Nat \ {0}
    /\ AccBits \in Nat \ {0} /\ AccBits % ByteBits = 0

Bit == {0, 1}

Results == {"ok", "InvalidInput", "Overflow", "AlignmentError"}
=============================================================================
