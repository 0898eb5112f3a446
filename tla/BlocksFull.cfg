\* Violated: the decoder does not read the marker of a full block.
SPECIFICATION BlockSpec
CONSTANTS
    kBlockElements = 4
    Base = 6
    Pictures <- FullFrames
    Streams = {}
    StreamBlocks = 2
    Behind = {0}
INVARIANT FullBlocksReturn
CHECK_DEADLOCK FALSE
