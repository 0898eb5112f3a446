----------------------------- MODULE AudioCodec -----------------------------
(***************************************************************************)
(* AudioCodecEngine (src/src/comp_core/audio_engine.cpp) over the          *)
(* arithmetic coder: interleaved samples are coded as the difference from  *)
(* the sample before them in their channel, in the arithmetic of int16_t   *)
(* (here a signed number of kAlphabetSize^2 values), and that as the two   *)
(* symbols of its unsigned mapping, the high one first.                    *)
(***************************************************************************)
EXTENDS ArithmeticCoding

CONSTANTS
    kMaxAudioChannels,
    Headers,    \* [channels, num_samples, size]: headers, and the number of
                \* samples in the buffer that comes with them
    Samples,    \* the samples recorded
    Streams     \* the streams given to a decoder alone

Half == (kAlphabetSize * kAlphabetSize) \div 2
Int16 == -Half..(Half - 1)

ASSUME AudioAssumption ==
    /\ kAlphabetSize % 2 = 0
    /\ Samples \subseteq Int16
    /\ kMaxAudioChannels \in Nat \ {0}
    /\ Headers \subseteq [channels : Nat, num_samples : Nat, size : Nat]
    /\ Streams \subseteq Seq({0, 1})

\* static_cast<int16_t>
Wrap(n) == ((n + Half) % (2 * Half)) - Half

map_int16_to_uint16(v) == IF v >= 0 THEN 2 * v ELSE -2 * v - 1
unmap_uint16_to_int16(u) == IF u % 2 = 0 THEN u \div 2 ELSE -((u + 1) \div 2)

VARIABLES
    header,
    pcm,        \* the samples encoded
    prev_enc,   \* prev_samples of encode_pcm16
    prev_dec,   \* prev_samples of decode_pcm16
    output      \* the samples decoded

vars == <<coderVars, header, pcm, prev_enc, prev_dec, output>>

Silence == [ch \in 0..(kMaxAudioChannels - 1) |-> 0]

Total == header.num_samples * header.channels

\* The checks of both functions: on a refused header nothing happens.
Valid ==
    /\ header.size >= Total
    /\ header.channels \in 1..kMaxAudioChannels
    /\ header.num_samples > 0

Init ==
    /\ CoderInit \/ \E bits \in Streams : InitStream(bits)
    /\ header \in Headers
    /\ pcm = <<>> /\ output = <<>>
    /\ prev_enc = Silence /\ prev_dec = Silence

\* The channel of the i-th sample, from 1 on.
Channel(i) == (i - 1) % header.channels
-----------------------------------------------------------------------------
\* The first half of a turn of encode_pcm16: the next sample, its residual's
\* high symbol.
EncodeHigh(sample) ==
    LET ch == Channel(Len(pcm) + 1)
        u  == map_int16_to_uint16(Wrap(sample - prev_enc[ch]))
    IN  /\ Valid /\ Len(pcm) < Total
        /\ Len(message) = 2 * Len(pcm)
        /\ Encode(u \div kAlphabetSize)
        /\ pcm' = Append(pcm, sample)
        /\ UNCHANGED <<header, prev_enc, prev_dec, output>>

\* The second half: the low symbol.
EncodeLow ==
    LET ch == Channel(Len(pcm))
        u  == map_int16_to_uint16(Wrap(Last(pcm) - prev_enc[ch]))
    IN  /\ Len(message) < 2 * Len(pcm)
        /\ Encode(u % kAlphabetSize)
        /\ prev_enc' = [prev_enc EXCEPT ![ch] = Last(pcm)]
        /\ UNCHANGED <<header, pcm, prev_dec, output>>

EncodeEnd ==
    /\ Valid
    /\ Len(message) = 2 * Total
    /\ Flush
    /\ UNCHANGED <<header, pcm, prev_enc, prev_dec, output>>

DecodeStart ==
    /\ Valid
    /\ Open
    /\ UNCHANGED <<header, pcm, prev_enc, prev_dec, output>>

DecodeHigh ==
    /\ Len(decoded) = 2 * Len(output) /\ Len(output) < Total
    /\ Decode
    /\ UNCHANGED <<header, pcm, prev_enc, prev_dec, output>>

OneChannel(i) == 0  \* fault: the channels share a predictor in the decoder

DecoderChannel(i) == Channel(i)

Reconstructed(prev, residual) == Wrap(prev + residual)

DecodeLow ==
    LET ch == DecoderChannel(Len(output) + 1)
        u  == Last(decoded) * kAlphabetSize + NextSymbol
        sample == Reconstructed(prev_dec[ch], unmap_uint16_to_int16(u))
    IN  /\ Len(decoded) = 2 * Len(output) + 1
        /\ Decode
        /\ output' = Append(output, sample)
        /\ prev_dec' = [prev_dec EXCEPT ![ch] = sample]
        /\ UNCHANGED <<header, pcm, prev_enc>>

Next ==
    \/ \E sample \in Samples : EncodeHigh(sample)
    \/ EncodeLow \/ EncodeEnd
    \/ DecodeStart \/ DecodeHigh \/ DecodeLow

Spec == Init /\ [][Next]_vars
-----------------------------------------------------------------------------
(***************************************************************************)
(* Properties.                                                             *)
(***************************************************************************)
\* Lossless, sample by sample and channel by channel, through the coder, also
\* where a difference leaves the signed range and wraps around; what a stream
\* that no encoder wrote decodes to are int16_t as well.
Lossless ==
    /\ pcm # <<>> => IsPrefix(output, pcm)
    /\ ToSet(output) \subseteq Int16
=============================================================================
