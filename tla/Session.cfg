\* Objects of up to 35 tokens, at and beyond the limit too, and other streams, cut anywhere; ends any way.
SPECIFICATION FairSpec
CONSTANTS
    MaxSize = 255
    Max32 = 63
    Max16 = 15
    kBlockSize = 2
    kMaxAudioChannels = 2
    kMaxFileBytes = 10
    FileSize <- Sizes
    Outside <- Elsewhere
    Limit = 33
    Chunk = 12
    Objects <- SomeObjects
    Streams <- SomeStreams
CHECK_DEADLOCK FALSE
INVARIANTS WholeObject TooLargeIsTooLarge FieldsRead PassedAsChecked ResponseInOrder
PROPERTY SessionEnds
