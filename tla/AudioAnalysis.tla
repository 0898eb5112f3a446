---------------------------- MODULE AudioAnalysis ---------------------------
(***************************************************************************)
(* The audio detectors of KhShield (src/src/shield_core/audio), as far as  *)
(* they are decided by counts: whether a recording is corrupted, and the   *)
(* beats per minute that a lag of the autocorrelation stands for.  Which   *)
(* lag is the best, the confidence and the energy are floating-point       *)
(* values of the samples: any outcome.                                     *)
(***************************************************************************)
EXTENDS Integers, FiniteSetsExt

hop_size == 512

\* More than one sample in a hundred, or every one, is not finite.
IsCorrupted(size, invalid) == invalid > size \div 100 \/ invalid = size

\* The lags that calculate_bpm tries.
LagsUpTo(size, sample_rate, max_lag) ==
    LET frames == size \div hop_size
    IN  IF size < sample_rate \/ frames < 10 THEN {}
        ELSE Max({1, (sample_rate * 60) \div (hop_size * 200)})..Min({frames - 1, max_lag})

LagsRoundedUp(size, sample_rate) ==  \* fault
    LagsUpTo(size, sample_rate, sample_rate \div hop_size + 1)

Lags(size, sample_rate) == LagsUpTo(size, sample_rate, sample_rate \div hop_size)

\* bpm, and whether it is over 110; none when the signal has no positive
\* autocorrelation.
Tempo(sample_rate, lag) ==
    [bpm |-> (60 * sample_rate) \div (hop_size * lag),
     fast |-> 60 * sample_rate > 110 * hop_size * lag]

Tempos(size, sample_rate) ==
    {[bpm |-> 0, fast |-> FALSE]}
    \cup {Tempo(sample_rate, lag) : lag \in Lags(size, sample_rate)}
=============================================================================
