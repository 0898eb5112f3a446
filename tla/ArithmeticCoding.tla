-------------------------- MODULE ArithmeticCoding --------------------------
(***************************************************************************)
(* ArithmeticEncoder and ArithmeticDecoder                                 *)
(* (src/src/comp_core/comp_engine.cpp) on the two ends of a stream of      *)
(* bits, each with a context model of its own that must stay in step.  A   *)
(* message is encoded symbol by symbol, flushed, and decoded; what the     *)
(* symbols mean is the codec's affair (AudioCodec).  Bits go through       *)
(* BitStreamWriter and BitStreamReader one at a time; what those do is     *)
(* the subject of BitStream.                                               *)
(***************************************************************************)
EXTENDS ContextModel, SequencesExt

CONSTANTS
    Width,       \* the bits of low, high and value: 32 in the code
    ByteBits,    \* 8 in the code
    Capacity     \* the size of the buffer, in bits

\* 2^n.
Power[n \in 0..Width] == IF n = 0 THEN 1 ELSE 2 * Power[n - 1]

ASSUME CoderAssumption ==
    /\ Width \in Nat /\ Width > 2
    /\ ByteBits \in Nat \ {0} /\ Capacity \in Nat /\ Capacity % ByteBits = 0
    /\ kMaxFrequency <= Power[Width - 2]

kTopValue == Power[Width] - 1
kFirstQtr == Power[Width - 2]
kHalf == 2 * kFirstQtr
kThirdQtr == 3 * kFirstQtr

\* What an unsigned number of Width bits holds of n.
Wrapped(n) == n % (kTopValue + 1)

VARIABLES
    phase,     \* "encode", "flushed", "decode", or what failed
    enc,       \* [low, high, follow, out, ok]: the encoder, the bits written,
               \* and whether the last write fitted
    enc_model,
    message,   \* the symbols encoded
    stream,    \* the bytes the decoder is given, as bits
    dec,       \* [low, high, value, pos]: the decoder, the bits it has read
    dec_model,
    decoded    \* the symbols decoded

coderVars == <<phase, enc, enc_model, message, stream, dec, dec_model, decoded>>

NewEncoder == [low |-> 0, high |-> kTopValue, follow |-> 0, out |-> <<>>, ok |-> TRUE]
NewDecoder == [low |-> 0, high |-> kTopValue, value |-> 0, pos |-> 0]
-----------------------------------------------------------------------------
\* The part of the interval that a symbol takes, in arithmetic of Width bits.
Narrowed(x, stats) ==
    LET range == x.high - x.low + 1
    IN  [x EXCEPT
           !.low  = Wrapped(x.low + (range * stats.low) \div stats.total),
           !.high = Wrapped(x.low + (range * stats.high) \div stats.total - 1)]

\* Doubled, after an offset common to both ends was taken off.
Doubled(x, offset) ==
    [x EXCEPT !.low  = Wrapped(2 * (x.low - offset)),
              !.high = Wrapped(2 * (x.high - offset) + 1)]

InMiddle(x) == x.low >= kFirstQtr /\ x.high < kThirdQtr

Settled(x) == x.high >= kHalf /\ x.low < kHalf /\ ~InMiddle(x)

\* bit_plus_follow: the bit, then the opposite bits that wait for it, as far
\* as they fit.
Emitted(e, bit) ==
    LET bits == <<bit>> \o [i \in 1..e.follow |-> 1 - bit]
        room == Capacity - Len(e.out)
    IN  IF Len(bits) <= room THEN [e EXCEPT !.out = @ \o bits, !.follow = 0]
        ELSE [e EXCEPT !.out = @ \o SubSeq(bits, 1, room), !.ok = FALSE,
                       !.follow = IF room = 0 THEN @ ELSE @ - (room - 1)]

\* A half that was not written leaves the encoder where it is.
Halfway(e, bit, offset) ==
    LET w == Emitted(e, bit) IN IF w.ok THEN Doubled(w, offset) ELSE w

EncoderShift(e) ==
    CASE e.high < kHalf -> Halfway(e, 0, 0)
      [] e.low >= kHalf -> Halfway(e, 1, kHalf)
      [] OTHER -> Doubled([e EXCEPT !.follow = @ + 1], kFirstQtr)

\* Each turn of the loop doubles the interval: Width turns are enough.
EncoderSettled(e) ==
    LET turn[n \in 0..Width] ==
            IF n = 0 THEN e
            ELSE IF Settled(turn[n - 1]) \/ ~turn[n - 1].ok THEN turn[n - 1]
            ELSE EncoderShift(turn[n - 1])
    IN  turn[Width]

CoderInit ==
    /\ phase = "encode"
    /\ enc = NewEncoder /\ enc_model = FreshModel /\ message = <<>>
    /\ stream = <<>>
    /\ dec = NewDecoder /\ dec_model = FreshModel /\ decoded = <<>>

\* encode_symbol.  When the buffer is full the interval and the bits written
\* stay changed, the model does not.
Encode(symbol) ==
    /\ phase = "encode"
    /\ enc' = EncoderSettled(Narrowed(enc, get_stats(enc_model, symbol)))
    /\ IF enc'.ok
       THEN /\ enc_model' = Updated(enc_model, symbol)
            /\ message' = Append(message, symbol)
            /\ UNCHANGED phase
       ELSE phase' = "overflow" /\ UNCHANGED <<enc_model, message>>
    /\ UNCHANGED <<stream, dec, dec_model, decoded>>

Padded(bits) ==
    bits \o [i \in 1..((ByteBits - (Len(bits) % ByteBits)) % ByteBits) |-> 0]

Final(e) ==
    Emitted([e EXCEPT !.follow = @ + 1], IF e.low < kFirstQtr THEN 0 ELSE 1)

\* flush: one more bit than wait, then the writer's bytes.
Flush ==
    /\ phase = "encode"
    /\ enc' = Final(enc)
    /\ IF enc'.ok THEN phase' = "flushed" /\ stream' = Padded(enc'.out)
       ELSE phase' = "overflow" /\ UNCHANGED stream
    /\ UNCHANGED <<enc_model, message, dec, dec_model, decoded>>
-----------------------------------------------------------------------------
BitAt(i) == IF i < Len(stream) THEN stream[i + 1] ELSE 0

Number(bits) ==
    LET number[n \in 0..Len(bits)] == IF n = 0 THEN 0 ELSE 2 * number[n - 1] + bits[n]
    IN  number[Len(bits)]

\* init: the first Width bits, which the stream must have.
Open ==
    /\ phase = "flushed"
    /\ IF Len(stream) < Width THEN phase' = "no stream" /\ UNCHANGED dec
       ELSE /\ phase' = "decode"
            /\ dec' = [NewDecoder EXCEPT !.value = Number(SubSeq(stream, 1, Width)),
                                         !.pos = Width]
    /\ UNCHANGED <<enc, enc_model, message, stream, dec_model, decoded>>

\* A doubling of the decoder takes in one more bit, 0 after the end.
DoubledIn(d, offset) ==
    [Doubled(d, offset) EXCEPT
        !.value = Wrapped(2 * (d.value - offset) + BitAt(d.pos)),
        !.pos = d.pos + 1]

MiddleKept(d) == IF d.low >= kHalf THEN kHalf ELSE 0  \* fault

Offset(d) ==
    CASE d.high < kHalf -> 0
      [] d.low >= kHalf -> kHalf
      [] OTHER -> kFirstQtr

DecoderSettled(d) ==
    LET turn[n \in 0..Width] ==
            IF n = 0 THEN d
            ELSE IF Settled(turn[n - 1]) THEN turn[n - 1]
            ELSE DoubledIn(turn[n - 1], Offset(turn[n - 1]))
    IN  turn[Width]

\* The cumulated frequency that the value stands for.
Count(d, total) ==
    ((d.value - d.low + 1) * total - 1) \div (d.high - d.low + 1)

NextSymbol == SymbolAt(dec_model, U16(Count(dec, total_frequency(dec_model))))

\* decode_symbol: the caller knows how many symbols there are.
Decode ==
    /\ phase = "decode"
    /\ dec' = DecoderSettled(Narrowed(dec, get_stats(dec_model, NextSymbol)))
    /\ dec_model' = Updated(dec_model, NextSymbol)
    /\ decoded' = Append(decoded, NextSymbol)
    /\ UNCHANGED <<phase, enc, enc_model, message, stream>>

\* A decoder alone, on a stream no encoder wrote.
InitStream(bits) ==
    /\ phase = "flushed"
    /\ enc = NewEncoder /\ enc_model = FreshModel /\ message = <<>>
    /\ stream = bits
    /\ dec = NewDecoder /\ dec_model = FreshModel /\ decoded = <<>>
-----------------------------------------------------------------------------
(***************************************************************************)
(* Properties.                                                             *)
(***************************************************************************)
\* Both models' counters stay sound through every update and rescaling.
ModelsSound == Sound(enc_model) /\ Sound(dec_model)

\* Between calls both intervals straddle the middle and are wider than a quarter,
\* so that every symbol gets a part that is not empty, and the decoder's value lies
\* in its interval whatever bits come, also behind the end of a stream and on one
\* that no encoder wrote: the count is below the total, and decode_symbol never
\* needs its fallback.
IntervalSound ==
    /\ enc.ok => Settled(enc) /\ enc.high - enc.low >= kFirstQtr
    /\ Settled(dec) /\ dec.high - dec.low >= kFirstQtr
    /\ phase = "decode" =>
          /\ dec.low <= dec.value /\ dec.value <= dec.high
          /\ Count(dec, total_frequency(dec_model)) < total_frequency(dec_model)
=============================================================================
