\* Frames of blocks of four coefficients, full ones too, and the decoder on every
\* stream of up to two symbols and then anything; and streams of two rows of three
\* blocks, where both sides start over, together or one alone. It ends with the last
\* block or frame.
SPECIFICATION FramesSpec
CONSTANTS
    kBlockElements = 4
    Base = 6
    Pictures <- SomeFrames
    Streams <- AllStreams
    StreamBlocks = 1
    Behind = {0, 1, 2, 5}
    Width = 6
    kBlockSize = 2
    MaxPixel = 3
    MvValues = 4
    Windows <- SomeWindows
    Loss = 1
    Frames <- SomeRows
    MaxFrames = 3
    MaxUnderWay = 2
    MaxAllocations = 2
INVARIANTS TypeOK BlocksReturn KindsAgree DriftBounded SameMotion
CHECK_DEADLOCK FALSE
