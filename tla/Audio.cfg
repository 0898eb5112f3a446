\* Every recording of up to four of nine samples, and the decoder alone on every
\* stream of six, eight and ten bits; it ends with the last sample.
SPECIFICATION Spec
CONSTANTS
    kAlphabetSize = 4
    kMaxFrequency = 9
    Order = 2
    Contexts = {0, 1}
    ContextOf <- ParityOf
    Width = 8
    ByteBits = 2
    Capacity = 18
    kMaxAudioChannels = 2
    Headers <- SomeHeaders
    Samples <- SomeSamples
    Streams <- AnyStreams
INVARIANTS
    ModelsSound IntervalSound Lossless
CHECK_DEADLOCK FALSE
