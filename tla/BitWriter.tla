----------------------------- MODULE BitWriter ------------------------------
(***************************************************************************)
(* BitStreamWriter (src/src/comp_core/bit_stream.cpp): bits are shifted    *)
(* into an accumulator of AccBits bits, which is stored into the buffer,   *)
(* high byte first, when it is full or flushed.  The buffer is modelled    *)
(* bit by bit; a byte is ByteBits consecutive bits.  Calls on one writer   *)
(* are sequential, so that one call is one action.                         *)
(***************************************************************************)
EXTENDS Bits

CONSTANTS
    Bytes,      \* the size of the buffer
    Values,     \* the values passed to write_bits
    ByteRuns,   \* the runs of bytes passed to write_bytes
    Unset       \* a bit of the buffer nobody has written

\* A run of bytes is whole bytes.
ASSUME WriterAssumption ==
    /\ Bytes \in Nat /\ Values \subseteq Nat
    /\ ByteRuns \subseteq Seq(Bit)
    /\ \A bits \in ByteRuns : Len(bits) % ByteBits = 0

VARIABLES
    attached,  \* the buffer given was aligned and is in use
    writer,    \* [buffer, acc, offset]: m_buffer, m_bit_accumulator's valid
               \* bits, m_bit_offset
    result,    \* what the last call returned
    written    \* history: the bits the calls since the last reset accepted

writerVars == <<attached, writer, result, written>>

Capacity == IF attached THEN Bytes * ByteBits ELSE 0

Fresh(buffer) == [buffer |-> buffer, acc |-> <<>>, offset |-> 0]

\* The constructor discards set_buffer's AlignmentError: the writer is then
\* one without a buffer.
WriterInit ==
    /\ attached \in BOOLEAN
    /\ writer = Fresh([i \in 1..(Bytes * ByteBits) |-> Unset])
    /\ result = "ok"
    /\ written = <<>>
-----------------------------------------------------------------------------
(***************************************************************************)
(* What the calls do to a writer w.                                        *)
(***************************************************************************)
\* The low num_bits bits of a value, high bit first.
BitsOf(value, num_bits) ==
    [i \in 1..num_bits |-> (value \div 2^(num_bits - i)) % 2]

\* Store whole bytes, starting at the byte that bit position at lies in.
Store(buffer, at, bits) ==
    LET base == (at \div ByteBits) * ByteBits
    IN  [i \in DOMAIN buffer |->
            IF i \in (base + 1)..(base + Len(bits)) THEN bits[i - base]
            ELSE buffer[i]]

\* The loop of write_bits, for up to AccBits bits: at most one full word is
\* stored, and what is left of the value starts the next one.
ShiftLeaving(w, bits, left) ==
    LET all  == w.acc \o bits
        full == w.offset + AccBits - Len(w.acc)  \* the offset at a full word
    IN  [buffer |-> IF Len(all) < AccBits THEN w.buffer
                    ELSE Store(w.buffer, full - AccBits, SubSeq(all, 1, AccBits)),
         acc    |-> IF Len(all) < AccBits THEN all ELSE left,
         offset |-> w.offset + Len(bits)]

ShiftDropping(w, bits) == ShiftLeaving(w, bits, <<>>)  \* fault

Shift(w, bits) ==
    ShiftLeaving(w, bits, SubSeq(w.acc \o bits, AccBits + 1, Len(w.acc \o bits)))

Padding(w) ==
    [i \in 1..((ByteBits - (Len(w.acc) % ByteBits)) % ByteBits) |-> 0]

\* flush: pad to a byte, then store the bytes of the accumulator.
Flushed(w) ==
    LET p == Shift(w, Padding(w))
    IN  [p EXCEPT !.buffer = Store(@, p.offset - Len(p.acc), p.acc),
                  !.acc = <<>>]

\* memcpy of whole bytes at a byte-aligned offset.
Copied(w, bits) ==
    [w EXCEPT !.buffer = Store(@, w.offset, bits), !.offset = @ + Len(bits)]
-----------------------------------------------------------------------------
(***************************************************************************)
(* The calls.                                                              *)
(***************************************************************************)
WriterSetBuffer(aligned) ==
    /\ IF aligned
       THEN /\ attached' = TRUE
            /\ writer' = Fresh([i \in 1..(Bytes * ByteBits) |-> Unset])
            /\ result' = "ok"
            /\ written' = <<>>
       ELSE /\ result' = "AlignmentError"
            /\ UNCHANGED <<attached, writer, written>>

\* reset forgets the position and leaves the buffer as it is.
WriterReset ==
    /\ writer' = Fresh(writer.buffer)
    /\ result' = "ok"
    /\ written' = <<>>
    /\ UNCHANGED attached

WriteBits(value, num_bits) ==
    /\ IF num_bits > AccBits
       THEN result' = "InvalidInput" /\ UNCHANGED <<writer, written>>
       ELSE IF num_bits > 0 /\ writer.offset + num_bits > Capacity
       THEN result' = "Overflow" /\ UNCHANGED <<writer, written>>
       ELSE /\ result' = "ok"
            /\ writer' = Shift(writer, BitsOf(value, num_bits))
            /\ written' = written \o BitsOf(value, num_bits)
    /\ UNCHANGED attached

\* Byte-aligned: flush, then copy all or nothing (the flush stays done).
WriteBytesAligned(bits) ==
    /\ Len(writer.acc) % ByteBits = 0
    /\ IF writer.offset \div ByteBits + Len(bits) \div ByteBits
             > Capacity \div ByteBits
       THEN /\ result' = "Overflow"
            /\ writer' = Flushed(writer)
            /\ UNCHANGED written
       ELSE /\ result' = "ok"
            /\ writer' = Copied(Flushed(writer), bits)
            /\ written' = written \o bits
    /\ UNCHANGED attached

\* Not aligned: byte by byte through write_bits, which stops at the first
\* byte that does not fit and keeps those before it.
WriteBytesShifted(bits) ==
    /\ Len(writer.acc) % ByteBits # 0
    /\ LET room == (Capacity - writer.offset) \div ByteBits
           size == Len(bits) \div ByteBits
           kept == IF size <= room THEN size ELSE room
           byte(k) == SubSeq(bits, (k - 1) * ByteBits + 1, k * ByteBits)
           after[k \in 0..kept] ==
               IF k = 0 THEN writer ELSE Shift(after[k - 1], byte(k))
       IN  /\ writer' = after[kept]
           /\ written' = written \o SubSeq(bits, 1, kept * ByteBits)
           /\ result' = IF kept = size THEN "ok" ELSE "Overflow"
    /\ UNCHANGED attached

WriteBytes(bits) ==
    IF bits = <<>> THEN result' = "ok" /\ UNCHANGED <<attached, writer, written>>
    ELSE WriteBytesAligned(bits) \/ WriteBytesShifted(bits)

Flush ==
    /\ writer' = Flushed(writer)
    /\ written' = written \o Padding(writer)
    /\ result' = "ok"
    /\ UNCHANGED attached

WriterNext ==
    \/ \E value \in Values, num_bits \in 0..(AccBits + 1) :
          WriteBits(value, num_bits)
    \/ \E bits \in ByteRuns : WriteBytes(bits)
    \/ Flush \/ WriterReset
    \/ \E aligned \in BOOLEAN : WriterSetBuffer(aligned)
-----------------------------------------------------------------------------
(***************************************************************************)
(* Properties.                                                             *)
(***************************************************************************)
\* Every accepted bit is at its place: the bits before the accumulator's are
\* in the buffer, in order, and the accumulator holds the others.  Word
\* stores, flushes, padding and byte copies leave no gap and no overlap; the
\* accumulator begins on a byte boundary, so that the byte index of a store is
\* exact, is never a full word, and leaves room for the padding of a flush.
BitsInPlace ==
    LET stored == writer.offset - Len(writer.acc)
    IN  /\ writer.offset = Len(written)
        /\ \A i \in 1..stored : writer.buffer[i] = written[i]
        /\ SubSeq(written, stored + 1, Len(written)) = writer.acc
        /\ stored % ByteBits = 0 /\ Len(writer.acc) < AccBits
        /\ writer.offset + Len(Padding(writer)) <= Capacity
=============================================================================
