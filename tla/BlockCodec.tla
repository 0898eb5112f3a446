----------------------------- MODULE BlockCodec -----------------------------
(***************************************************************************)
(* How ImageFramePipeline (src/src/comp_core/image_frame.cpp) turns the    *)
(* quantised coefficients of a frame's blocks into symbols and back.  A    *)
(* block is its coefficients in zig-zag order, 0..kBlockElements - 1; the  *)
(* transform and the quantiser before it are arithmetic on one block and   *)
(* left out.  The symbols go through the arithmetic coder, which           *)
(* ArithmeticCoding shows to return them unchanged; behind the end of its  *)
(* stream it returns symbols that nobody wrote.                            *)
(***************************************************************************)
EXTENDS Integers, SequencesExt, FiniteSetsExt

CONSTANTS
    kBlockElements,  \* 64 in the code
    Base,            \* the number of symbols: 256 in the code
    Pictures,        \* the frames encoded: sequences of blocks
    Streams,         \* for a decoder alone: sequences of symbols
    StreamBlocks,    \* for a decoder alone: the blocks of a frame
    Behind           \* the symbols the decoder may get behind the end

Symbol == 0..(Base - 1)
EOB == Base - 1      \* 0xFF
MaxRun == Base - 2   \* 254

\* A signed number of two symbols (int16_t), and its mapping to an unsigned.
Half == (Base * Base) \div 2
Int16 == -Half..(Half - 1)
Block == [0..(kBlockElements - 1) -> Int16]

\* A run that fills a block is shorter than the longest run a symbol can say.
ASSUME BlockAssumption ==
    /\ kBlockElements \in Nat \ {0, 1}
    /\ Base \in Nat /\ Base % 2 = 0 /\ kBlockElements < Base
    /\ Behind \subseteq Symbol
    /\ Pictures \subseteq Seq(Block)
    /\ Streams \subseteq Seq(Symbol)
    /\ StreamBlocks \in Nat

Wrap(n) == ((n + Half) % (2 * Half)) - Half
map_int16_to_uint16(v) == IF v >= 0 THEN 2 * v ELSE -2 * v - 1
unmap_uint16_to_int16(u) == IF u % 2 = 0 THEN u \div 2 ELSE -((u + 1) \div 2)

VARIABLES
    picture,  \* the blocks to encode
    coded,    \* the symbols written
    encoded,  \* [blocks, prev_dc, ends]: blocks done, the predictor, and where
              \* each block's symbols end
    decoder,  \* [pos, at, prev_dc, block]: symbols read, "dc", the index of the
              \* next coefficient, "done"; the predictor; the block at hand
    decoded   \* the blocks decoded

blockVars == <<picture, coded, encoded, decoder, decoded>>

Blank == [i \in 0..(kBlockElements - 1) |-> 0]

\* A frame to encode; or a stream that no encoder wrote.
BlockInit ==
    /\ \/ picture \in Pictures /\ coded = <<>>
       \/ picture = <<>> /\ coded \in Streams
    /\ encoded = [blocks |-> 0, prev_dc |-> 0, ends |-> <<>>]
    /\ decoder = [pos |-> 0, at |-> 0, prev_dc |-> 0, block |-> Blank]
    /\ decoded = <<>>
-----------------------------------------------------------------------------
HighLow(u) == <<u \div Base, u % Base>>

SymbolsOf(v) == HighLow(map_int16_to_uint16(v))

\* One coefficient after a run of zeros.
Coefficient(r, v) ==
    CASE v # 0 -> [run |-> 0, out |-> r.out \o <<r.run>> \o SymbolsOf(v)]
      [] v = 0 /\ r.run = MaxRun -> [run |-> 0, out |-> r.out \o <<MaxRun, 0, 0>>]
      [] OTHER -> [r EXCEPT !.run = @ + 1]

\* The last coefficient that is not zero, or else the DC.
LastNonzero(block) == Max({0} \cup {i \in 1..(kBlockElements - 1) : block[i] # 0})

\* The loop over the coefficients up to that one.
Turns(block) ==
    LET turn[i \in 0..LastNonzero(block)] ==
            IF i = 0 THEN [run |-> 0, out |-> <<>>] ELSE Coefficient(turn[i - 1], block[i])
    IN  turn

AcSymbols(block) == Turns(block)[LastNonzero(block)].out

\* Every block ends with the marker.
End(block) == <<EOB>>

BlockSymbols(block, prev_dc) ==
    SymbolsOf(Wrap(block[0] - prev_dc)) \o AcSymbols(block) \o End(block)

EncodeBlock ==
    /\ encoded.blocks < Len(picture)
    /\ LET block == picture[encoded.blocks + 1]
           out   == BlockSymbols(block, encoded.prev_dc)
       IN  /\ coded' = coded \o out
           /\ encoded' = [blocks  |-> encoded.blocks + 1,
                          prev_dc |-> block[0],
                          ends    |-> Append(encoded.ends, Len(coded) + Len(out))]
    /\ UNCHANGED <<picture, decoder, decoded>>
-----------------------------------------------------------------------------
\* The symbols the decoder may get next, n of them.
Received(n) ==
    {s \in [1..n -> Symbol] : \A i \in 1..n :
        IF decoder.pos + i <= Len(coded) THEN s[i] = coded[decoder.pos + i]
        ELSE s[i] \in Behind}

\* The symbols read; all there are behind the end count as one.
Onward(pos, n) == Min({pos + n, Len(coded) + 1})

Blocks == IF picture = <<>> THEN StreamBlocks ELSE Len(picture)

Decoding == encoded.blocks = Len(picture) /\ Len(decoded) < Blocks

Value(high, low) == unmap_uint16_to_int16(high * Base + low)

DcAsIs(d, delta) == [d EXCEPT !.block[0] = delta]  \* fault: no prediction

Predicted(d, delta) ==
    LET dc == Wrap(d.prev_dc + delta)
    IN  [d EXCEPT !.block[0] = dc, !.prev_dc = dc]

DecodeDc ==
    /\ Decoding /\ decoder.at = 0
    /\ \E s \in Received(2) :
          decoder' = [Predicted(decoder, Value(s[1], s[2])) EXCEPT !.pos = Onward(@, 2), !.at = 1]
    /\ UNCHANGED <<picture, coded, encoded, decoded>>

\* The block is complete: at the marker, past the end, or full.
Stored(d) ==
    /\ decoded' = Append(decoded, d.block)
    /\ decoder' = [d EXCEPT !.at = 0, !.block = Blank]

PastUnchecked(at) == FALSE  \* fault: the run is trusted

Past(at) == at >= kBlockElements

\* One turn of the loop over the coefficients: a run, and unless it is the
\* marker or leads out of the block, a value; a value of zero is skipped.
DecodeAc ==
    /\ Decoding /\ decoder.at > 0
    /\ \E r \in Received(1) :
          LET d == [decoder EXCEPT !.pos = Onward(@, 1)]
              at == d.at + r[1]
          IN  IF r[1] = EOB \/ Past(at) THEN Stored(d)
              ELSE \E s \in Received(3) :
                      LET v == Value(s[2], s[3])
                          e == [d EXCEPT !.pos = Onward(@, 2),
                                         !.at = IF v = 0 THEN at ELSE at + 1,
                                         !.block[at] = IF v = 0 THEN @ ELSE v]
                      IN  /\ s[1] = r[1]
                          /\ IF Past(e.at) THEN Stored(e)
                             ELSE decoder' = e /\ UNCHANGED decoded
    /\ UNCHANGED <<picture, coded, encoded>>

BlockNext == EncodeBlock \/ DecodeDc \/ DecodeAc

BlockSpec == BlockInit /\ [][BlockNext]_blockVars
-----------------------------------------------------------------------------
(***************************************************************************)
(* Properties.                                                             *)
(***************************************************************************)
\* Each variable stays in its set; the decoder's index stays in the block and
\* its coefficients are signed numbers of two symbols, on any stream.
TypeOK ==
    /\ coded \in Seq(Symbol)
    /\ decoder.at \in 0..(kBlockElements - 1)
    /\ decoder.prev_dc \in Int16 /\ decoder.block \in Block
    /\ decoded \in Seq(Block) /\ Len(decoded) <= Blocks

\* The last coefficient of a block, at which the decoder stops by itself.
Full(block) == block[kBlockElements - 1] # 0

\* The blocks come back as they were, with predictors that wrap around, runs of
\* any length and blocks of zeros, up to the first full one.  Between two blocks
\* the decoder has read the symbols of the blocks before and not one more; after a
\* full block it is one short, the marker.
BlocksReturn ==
    picture # <<>> =>
        \A n \in DOMAIN decoded : (\A k \in 1..(n - 1) : ~Full(picture[k])) =>
            /\ decoded[n] = picture[n]
            /\ n = Len(decoded) /\ decoder.at = 0 =>
                  decoder.pos = encoded.ends[n] - (IF Full(picture[n]) THEN 1 ELSE 0)
-----------------------------------------------------------------------------
\* "Decodes an arithmetic-coded bitstream back into a grayscale byte frame
\* buffer": every block comes back, also behind one that is full.
FullBlocksReturn == picture # <<>> => IsPrefix(decoded, picture)
=============================================================================
