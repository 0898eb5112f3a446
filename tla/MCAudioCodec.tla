---------------------------- MODULE MCAudioCodec ----------------------------
(* Small instances of AudioCodec for TLC. *)
EXTENDS AudioCodec

\* Two tables, selected by the history.
ParityOf(history) == FoldLeft(LAMBDA n, s : n + s, 0, history) % 2

\* Mono and stereo, and headers that are refused: no channel, too many, no
\* sample, a buffer that is too small.
Header(channels, num_samples, size) ==
    [channels |-> channels, num_samples |-> num_samples, size |-> size]

SomeHeaders ==
    {Header(1, 1, 4), Header(1, 3, 4), Header(2, 2, 4),
     Header(0, 1, 4), Header(3, 1, 4), Header(2, 0, 4), Header(2, 3, 4)}

\* Signed numbers of 16 values: the extremes, what is around zero and between.
SomeSamples == {-8, -7, -4, -2, -1, 0, 1, 3, 7}

\* Every stream of Width bits, of a byte less and of a byte more.
AnyStreams == UNION {[1..n -> {0, 1}] : n \in {Width - ByteBits, Width, Width + ByteBits}}
=============================================================================
