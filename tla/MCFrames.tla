------------------------------ MODULE MCFrames ------------------------------
(* Small instances of the two halves of the frame codec for TLC: the blocks of one *)
(* frame, and the frames of a stream.                                              *)
EXTENDS MCBlockCodec, VideoCodec

Row(pixels) == [x \in Position |-> pixels[x + 1]]

\* Two pictures, each with blocks that the other has elsewhere: at distances whose
\* difference, from 1 to -2, wraps around, and within a window of two at a distance
\* of 2, which a vector cannot say.
SomeRows == {Row(<<1, 3, 2, 2, 1, 2>>), Row(<<2, 1, 0, 2, 2, 1>>)}

\* One that fits a vector's component, -2..1, and one that does not.
SomeWindows == {1, 2}

\* The halves share no variable: a behaviour is of one of them, while the other stays
\* where it starts, the blocks with a frame of none.
FramesInit == BlockInit /\ Init
FramesNext ==
    \/ Init /\ BlockNext /\ UNCHANGED vars
    \/ BlockInit /\ picture = <<>> /\ coded = <<>> /\ Next /\ UNCHANGED blockVars

FramesSpec == FramesInit /\ [][FramesNext]_<<blockVars, vars>>
=============================================================================
