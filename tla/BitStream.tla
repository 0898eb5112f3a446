----------------------------- MODULE BitStream ------------------------------
(***************************************************************************)
(* A stream's life: bits are written and flushed, and what bytes_written   *)
(* covers of the buffer is then given to a reader, as the codecs' streams  *)
(* are.  The interesting state is between the two halves: a bit that the   *)
(* writer puts in the wrong place, or a padding it leaves out, is read     *)
(* back wrong later, in whatever widths the reader takes.                  *)
(***************************************************************************)
EXTENDS BitWriter, BitReader

VARIABLE reading  \* the writer is done and its bytes are with the reader

vars == <<writerVars, readerVars, reading>>

Init ==
    /\ WriterInit
    /\ ReaderInit
    /\ reading = FALSE

Write == ~reading /\ WriterNext /\ UNCHANGED <<readerVars, reading>>

\* Nothing waits in the accumulator: every byte counted is in the buffer.  A
\* copy of the bytes that is not aligned is refused.
HandOver(aligned) ==
    /\ ~reading /\ attached
    /\ writer.acc = <<>>
    /\ ReaderSetBuffer(SubSeq(writer.buffer, 1, writer.offset), aligned)
    /\ reading' = aligned
    /\ UNCHANGED writerVars

Read == reading /\ ReaderCall /\ UNCHANGED <<writerVars, reading>>

\* The same bytes again, or a buffer that is not aligned, in the middle of it.
Reattach(aligned) ==
    /\ reading
    /\ ReaderSetBuffer(data, aligned)
    /\ UNCHANGED <<writerVars, reading>>

Next ==
    \/ Write \/ Read
    \/ \E aligned \in BOOLEAN : HandOver(aligned) \/ Reattach(aligned)

Spec == Init /\ [][Next]_vars
-----------------------------------------------------------------------------
Right == last.value = SubSeq(written, last.at + 1, last.at + last.width)

\* What a read or peek of any width returns are the bits that were written, in
\* their order and from the position the reads before it left, if none of those
\* before it was wider than 57 bits and no advance went past the accumulator:
\* across word stores, padding, byte copies and refused calls on one side, and
\* bytes loaded ahead, widths of any split, resets and refused buffers on the other.
WrittenIsRead == reading /\ last.result = "ok" /\ last.narrow => Right
-----------------------------------------------------------------------------
\* A statement the code does not keep.  "Arbitrary-width values": whatever widths
\* the calls before it had, what a read or peek returns is what was written.
AnyWidthIsRead == reading /\ last.result = "ok" => Right
=============================================================================
