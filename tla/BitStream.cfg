\* Words of four bits, bytes of two, a buffer of two words; calls of the
\* reader with up to one bit more than a word.
SPECIFICATION Spec
CONSTANTS
    AccBits = 4
    ByteBits = 2
    Bytes = 4
    Values <- SomeValues
    ByteRuns <- SomeRuns
    Unset = Unset
INVARIANTS BitsInPlace AccIsAhead WrittenIsRead
