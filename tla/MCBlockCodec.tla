---------------------------- MODULE MCBlockCodec ----------------------------
(* Small instances of BlockCodec for TLC. *)
EXTENDS BlockCodec

\* The extremes, zero and one of the values of two symbols.
SomeValues == {-18, -1, 0, 17}

BlocksOf(last) ==
    {[i \in 0..3 |-> IF i = 3 THEN c[4] ELSE c[i + 1]] :
        c \in {d \in [1..4 -> SomeValues] : d[4] \in last}}

\* Frames of one and two blocks whose last coefficient is zero.
OpenFrames == {<<b>> : b \in BlocksOf({0})} \cup {<<b, c>> : b, c \in BlocksOf({0})}

\* A block with every coefficient, and one after it.
FullFrames == {<<b, c>> : b \in BlocksOf({-1}), c \in {[i \in 0..3 |-> 0], [i \in 0..3 |-> IF i = 2 THEN 17 ELSE 0]}}

SomeFrames == OpenFrames \cup FullFrames

AllStreams == UNION {[1..n -> Symbol] : n \in 0..2}
=============================================================================
