----------------------------- MODULE VideoCodec -----------------------------
(***************************************************************************)
(* VideoCodecEngine and VideoRingBuffer (src/src/comp_core/                *)
(* video_ring_buffer.cpp): an encoder and a decoder, each with a reference *)
(* frame of its own, and the coded frames between them.  A frame is one    *)
(* row of pixels; the second dimension of blocks and motion is the first   *)
(* one again.  The transform and the quantiser are an error of at most     *)
(* Loss in a block that comes back; their symbols are BlockCodec's subject *)
(* and the bits ArithmeticCoding's.  Of a full block, one whose last       *)
(* coefficient is not zero, the decoder leaves the end marker unread and   *)
(* takes it for the next block's first symbol: what it makes of the rest   *)
(* of the frame is anything.  So is what either side reads outside a       *)
(* frame.  Each coded frame is decoded from a stream of its own, long      *)
(* enough to be opened; both buffers have the size of the frames and keep  *)
(* their storage.                                                          *)
(***************************************************************************)
EXTENDS Integers, SequencesExt, FiniteSetsExt

CONSTANTS
    Width,          \* of a frame, a number of blocks
    kBlockSize,
    MaxPixel,       \* 255 in the code
    MvValues,       \* the values of a motion vector's component: 256 (int8_t)
    Windows,        \* the search windows of the headers: any int32_t
    Loss,           \* the error of the quantiser in one pixel
    Frames,         \* the frames a caller encodes; also what a misread gives
    MaxFrames,      \* how many it encodes
    MaxUnderWay,    \* how many of them wait for the decoder at a time
    MaxAllocations  \* and how often it allocates again

ASSUME VideoAssumption ==
    /\ kBlockSize \in Nat \ {0} /\ Width \in Nat \ {0} /\ Width % kBlockSize = 0
    /\ MaxPixel \in Nat /\ Loss \in Nat
    /\ MvValues \in Nat \ {0} /\ MvValues % 2 = 0
    /\ Windows \subseteq Int
    /\ Frames \subseteq [0..(Width - 1) -> 0..MaxPixel]

Position == 0..(Width - 1)
NumBlocks == Width \div kBlockSize
BlockAt(x) == (x \div kBlockSize) + 1
BlockX(k) == (k - 1) * kBlockSize
Distance(a, b) == IF a < b THEN b - a ELSE a - b

VARIABLES
    enc, dec,     \* [ref, has]: a VideoRingBuffer each
    stream,       \* frames coded and not yet decoded
    shown,        \* the frame last decoded, as it was before coding
    since,        \* predicted frames since the last intra one
    good,         \* history: blocks of the decoder's reference that came back;
                  \* behind them anything
    together,     \* history: neither side has been allocated by itself
    frames, allocations  \* how many; bounded

vars == <<enc, dec, stream, shown, since, good, together, frames, allocations>>

Black == [x \in Position |-> 0]
Allocated(buffer) == [buffer EXCEPT !.has = FALSE]

Init ==
    /\ enc = Allocated([ref |-> Black, has |-> TRUE])
    /\ dec = enc
    /\ stream = <<>> /\ shown = Black /\ since = 0 /\ good = 0
    /\ together = TRUE
    /\ frames = 0 /\ allocations = 0
-----------------------------------------------------------------------------
(***************************************************************************)
(* Motion.                                                                 *)
(***************************************************************************)
Signed(n) == ((n + MvValues \div 2) % MvValues) - MvValues \div 2
map_int8_to_uint16(v) == IF v >= 0 THEN 2 * v ELSE -2 * v - 1
unmap_uint16_to_int8(u) == IF u % 2 = 0 THEN u \div 2 ELSE -((u + 1) \div 2)

compute_sad(curr, ref, x, ref_x) ==
    LET sad[i \in 0..kBlockSize] ==
            IF i = 0 THEN 0
            ELSE sad[i - 1] + Distance(curr[x + i - 1], ref[ref_x + i - 1])
    IN  sad[kBlockSize]

\* The moves that stay in the window and in the frame.
Moves(x, window) == Max({-window, -x})..Min({window, Width - x - kBlockSize})

\* The first of the moves with the least difference, narrowed to its vector's
\* component; none with a negative window.
find_best_motion_vector(curr, ref, x, window) ==
    LET Sad(dx) == compute_sad(curr, ref, x, x + dx)
        moves   == Moves(x, window)
    IN  IF moves = {} THEN 0
        ELSE Signed(Min({dx \in moves : \A other \in moves : Sad(dx) <= Sad(other)}))

Motion(curr, ref, window) ==
    [k \in 1..NumBlocks |-> find_best_motion_vector(curr, ref, BlockX(k), window)]

StaysInside(k, move) == BlockX(k) + move \in 0..(Width - kBlockSize)

Saturated(d) ==  \* fault
    Max({-(MvValues \div 2), Min({MvValues \div 2 - 1, d})})

MotionDelta(d) == Signed(d)

MotionSymbols(motion) ==
    [k \in DOMAIN motion |->
        map_int8_to_uint16(MotionDelta(motion[k] - (IF k = 1 THEN 0 ELSE motion[k - 1])))]

\* The end marker, as a symbol of the next block's motion.
EndMarker == MvValues - 1

\* The motion symbols the decoder gets: in step up to the first full block, then
\* that block's marker. What follows is not told.
MotionReceived(c) ==
    [k \in 1..Min({c.good + 1, Len(c.symbols)}) |->
        IF k = c.good + 1 THEN EndMarker ELSE c.symbols[k]]

\* The decoder's vectors, each from the one before.
DecodedMotion(symbols) ==
    LET motion[k \in DOMAIN symbols] ==
            Signed((IF k = 1 THEN 0 ELSE motion[k - 1]) + unmap_uint16_to_int8(symbols[k]))
    IN  motion

\* The prediction of a pixel from a reference; outside of it, whatever is there.
Compensated(ref, motion, other, x) ==
    LET from == x + motion[BlockAt(x)]
    IN  IF from \in Position THEN ref[from] ELSE other[x]
-----------------------------------------------------------------------------
Clamped(p) == Max({0, Min({MaxPixel, p})})

TypeAlone(type, buffer) == type = "I"  \* fault

\* The type is the caller's; without a reference a frame is coded as intra.
EncodesIntra(type, buffer) == type = "I" \/ ~buffer.has
DecodesIntra(type, buffer) == type = "I" \/ ~buffer.has

\* The blocks up to the first full one. A block of one colour has no coefficient
\* beside the DC; of any other the last may be left after quantising, or not.
InStep(pixels) ==
    {NumBlocks} \cup {BlockAt(x) : x \in {y \in Position : \E z \in Position :
                                  BlockAt(y) = BlockAt(z) /\ pixels[y] # pixels[z]}}

\* The header byte is the type; the reference is the frame as it came.
encode_frame(type, window, frame) ==
    LET motion   == Motion(frame, enc.ref, window)
        intra    == EncodesIntra(type, enc)
        Rest(other, error) ==
            [x \in Position |->
                frame[x] - (IF intra THEN 0 ELSE Compensated(enc.ref, motion, other, x)) + error]
    IN  /\ frames < MaxFrames /\ frames' = frames + 1 /\ Len(stream) < MaxUnderWay
        /\ \E pixels \in {Rest(other, error) : other \in Frames, error \in -Loss..Loss} :
           \E step \in InStep(pixels) :
              stream' = Append(stream,
                  [type |-> type, intra |-> intra, frame |-> frame,
                   window |-> IF intra THEN 0 ELSE window,
                   motion |-> IF intra THEN <<>> ELSE motion,
                   symbols |-> IF intra THEN <<>> ELSE MotionSymbols(motion),
                   pixels |-> pixels, good |-> step])
        /\ enc' = [ref |-> frame, has |-> TRUE]
        /\ UNCHANGED <<dec, shown, since, good, together, allocations>>

IntraOnly(c, out) ==  \* fault: a predicted frame does not become the reference
    IF c.intra THEN [ref |-> out, has |-> TRUE] ELSE dec

\* The reference is the output.
NextReference(c, out) == [ref |-> out, has |-> TRUE]

\* Of the blocks behind the first full one, anything.
Decoded(c, other) ==
    LET motion == DecodedMotion(MotionReceived(c))
    IN  [x \in Position |->
            IF BlockAt(x) > c.good THEN other[x]
            ELSE Clamped(c.pixels[x] + (IF c.intra THEN 0
                                        ELSE Compensated(dec.ref, motion, other, x)))]

\* What is predicted from the whole of a reference that came back, came back.
Predictable(c) ==
    good = NumBlocks /\ \A k \in DOMAIN c.motion : StaysInside(k, c.motion[k])

\* A frame taken for what it is not decodes to anything, or not at all.
decode_frame ==
    /\ stream # <<>>
    /\ LET c == Head(stream)
       IN  /\ IF DecodesIntra(c.type, dec) = c.intra
              THEN /\ \E other \in Frames : dec' = NextReference(c, Decoded(c, other))
                   /\ since' = IF c.intra THEN 0 ELSE since + 1
                   /\ good' = IF c.intra \/ Predictable(c) THEN c.good ELSE 0
              ELSE /\ dec' \in {dec} \cup {[ref |-> g, has |-> TRUE] : g \in Frames}
                   /\ good' = 0 /\ UNCHANGED since
           /\ shown' = c.frame
    /\ stream' = Tail(stream)
    /\ UNCHANGED <<enc, together, frames, allocations>>

\* The caller starts over on both sides, with nothing under way.
AllocateBoth ==
    /\ stream = <<>> /\ allocations < MaxAllocations
    /\ allocations' = allocations + 1
    /\ enc' = Allocated(enc) /\ dec' = Allocated(dec)
    /\ UNCHANGED <<stream, shown, since, good, together, frames>>

\* Or one side by itself, at any time.
AllocateOne ==
    /\ allocations < MaxAllocations
    /\ allocations' = allocations + 1
    /\ \/ enc' = Allocated(enc) /\ UNCHANGED dec
       \/ dec' = Allocated(dec) /\ UNCHANGED enc
    /\ together' = FALSE
    /\ UNCHANGED <<stream, shown, since, good, frames>>

Next ==
    \/ \E type \in {"I", "P"}, window \in Windows, frame \in Frames :
          encode_frame(type, window, frame)
    \/ decode_frame
    \/ AllocateBoth \/ AllocateOne

Spec == Init /\ [][Next]_vars
-----------------------------------------------------------------------------
(***************************************************************************)
(* Properties.                                                             *)
(***************************************************************************)
\* As long as both sides are allocated together the decoder takes every frame for
\* what the encoder made of it, though the header does not say it.
KindsAgree ==
    together /\ stream # <<>> =>
        LET c == Head(stream) IN DecodesIntra(c.type, dec) = c.intra

\* Up to the first full block since the last intra frame, the decoder's reference
\* is off from the encoder's by no more than the error of one frame for each of
\* the frames since then; whatever went wrong before, an intra frame ends it.
DriftBounded ==
    \A x \in Position :
        BlockAt(x) <= good => Distance(dec.ref[x], shown[x]) <= Loss * (since + 1)

\* Up to the first full block of a frame the decoder moves each block as the
\* encoder did, also where the difference of two vectors wraps around or where
\* the search has found more than a vector holds; and, unless it has, never out
\* of the frame.
SameMotion ==
    \A i \in DOMAIN stream :
        LET c == stream[i]
            motion == DecodedMotion(MotionReceived(c))
        IN  \A k \in DOMAIN motion :
               k <= c.good => /\ motion[k] = c.motion[k]
                              /\ c.window < MvValues \div 2 => StaysInside(k, motion[k])
=============================================================================
