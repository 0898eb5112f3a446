----------------------------- MODULE BitReader ------------------------------
(***************************************************************************)
(* BitStreamReader (src/src/comp_core/bit_stream.cpp): whole bytes are     *)
(* loaded ahead into an accumulator of AccBits bits, and bits are handed   *)
(* out from it.  bit_offset counts the bits handed out; the next byte to   *)
(* load is the one that bit_offset plus the bits in the accumulator lies   *)
(* in.  One call is one action, and a caller makes any call with any       *)
(* number of bits.                                                         *)
(***************************************************************************)
EXTENDS Bits

VARIABLES
    data,        \* m_buffer
    bit_offset,
    acc,         \* the valid low bits of m_bit_accumulator
    last,        \* the last call: where it was, how wide, what it returned,
                 \* and narrow before it
    narrow       \* history: since the reader was placed, no read was too wide
                 \* and no advance went past the accumulator

readerVars == <<data, bit_offset, acc, last, narrow>>

\* The accumulator surely holds so many bits, if the stream has them: 57.
Ample == AccBits - ByteBits + 1

Placed == [at |-> 0, width |-> 0, value |-> <<>>, result |-> "ok", narrow |-> TRUE]

\* A reader without a buffer; so is one whose constructor was given a buffer
\* that is not aligned, since it discards set_buffer's AlignmentError.
ReaderInit ==
    /\ data = <<>>
    /\ bit_offset = 0
    /\ acc = <<>>
    /\ last = Placed
    /\ narrow = TRUE

remaining_bits == Len(data) - bit_offset

ByteIndex(position) == position \div ByteBits

\* The bits from byte k on, n of them.
BitsFromByte(k, n) == SubSeq(data, k * ByteBits + 1, k * ByteBits + n)
-----------------------------------------------------------------------------
\* fill_accumulator: byte after byte while one more fits and there is one.
Filled ==
    LET most == AccBits - ByteBits
        next == ByteIndex(bit_offset + Len(acc))
        fit  == IF Len(acc) > most THEN 0
                ELSE (most - Len(acc)) \div ByteBits + 1
        left == Len(data) \div ByteBits - next
        n    == IF left <= 0 THEN 0 ELSE IF fit <= left THEN fit ELSE left
    IN  acc \o BitsFromByte(next, n * ByteBits)

\* peek_bits after the fill: from the accumulator, and what it lacks from the
\* bytes that follow.
Peeked(n) ==
    IF Len(Filled) >= n THEN SubSeq(Filled, 1, n)
    ELSE Filled \o BitsFromByte(ByteIndex(bit_offset + Len(Filled)),
                                n - Len(Filled))

Refusal(n) == IF n > AccBits THEN "InvalidInput"
              ELSE IF n > remaining_bits THEN "Overflow" ELSE "ok"

Returned(n, value, result) ==
    [at |-> bit_offset, width |-> n, value |-> value, result |-> result,
     narrow |-> narrow]

\* peek_bits; a width of zero returns at once, without filling.
Peek(n) ==
    /\ IF n = 0 \/ Refusal(n) # "ok"
       THEN last' = Returned(n, <<>>, Refusal(n)) /\ UNCHANGED acc
       ELSE acc' = Filled /\ last' = Returned(n, Peeked(n), "ok")
    /\ UNCHANGED <<data, bit_offset, narrow>>

\* advance over an accumulator a: from it, or past it and empty it.
AdvanceFrom(a, n) ==
    /\ acc' = IF n <= Len(a) THEN SubSeq(a, n + 1, Len(a)) ELSE <<>>
    /\ bit_offset' = bit_offset + n
    /\ UNCHANGED data

AdvanceUnread(a, n) ==  \* fault: the bits left in the accumulator are skipped
    /\ acc' = <<>>
    /\ bit_offset' = bit_offset + n
    /\ UNCHANGED data

AdvanceOver(a, n) == AdvanceFrom(a, n)

Advance(n) ==
    IF n > remaining_bits
    THEN /\ last' = Returned(0, <<>>, "Overflow")
         /\ UNCHANGED <<data, acc, bit_offset, narrow>>
    ELSE /\ last' = Returned(0, <<>>, "ok")
         /\ AdvanceOver(acc, n)
         /\ narrow' = (narrow /\ n <= Len(acc))

\* read_bits is peek_bits and advance.
ReadBits(n) ==
    IF n = 0 \/ Refusal(n) # "ok"
    THEN /\ last' = Returned(n, <<>>, Refusal(n))
         /\ UNCHANGED <<data, acc, bit_offset, narrow>>
    ELSE /\ last' = Returned(n, Peeked(n), "ok")
         /\ AdvanceOver(Filled, n)
         /\ narrow' = (narrow /\ n <= Ample)

ReaderReset ==
    /\ bit_offset' = 0 /\ acc' = <<>>
    /\ last' = Placed /\ narrow' = TRUE
    /\ UNCHANGED data

\* A buffer that is not aligned is refused and the one in use stays.
ReaderSetBuffer(buffer, aligned) ==
    IF aligned
    THEN /\ data' = buffer /\ bit_offset' = 0 /\ acc' = <<>>
         /\ last' = Placed /\ narrow' = TRUE
    ELSE /\ last' = Returned(0, <<>>, "AlignmentError")
         /\ UNCHANGED <<data, bit_offset, acc, narrow>>

ReaderCall ==
    \/ \E n \in 0..(AccBits + 1) : Peek(n) \/ ReadBits(n) \/ Advance(n)
    \/ ReaderReset
-----------------------------------------------------------------------------
(***************************************************************************)
(* Properties.                                                             *)
(***************************************************************************)
\* As long as the caller reads at most 57 bits at once and advances over what is in
\* the accumulator, that holds the bits that follow bit_offset, up to a byte boundary:
\* the next byte to load is the next byte of the stream.  After a wider read, or an
\* advance from an empty accumulator, it may begin inside a byte.
AccIsAhead ==
    narrow =>
    /\ acc = SubSeq(data, bit_offset + 1, bit_offset + Len(acc))
    /\ (bit_offset + Len(acc)) % ByteBits = 0
=============================================================================
