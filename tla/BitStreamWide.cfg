\* The same; a read of all four bits of a word leaves the reader inside a byte.
SPECIFICATION Spec
CONSTANTS
    AccBits = 4
    ByteBits = 2
    Bytes = 4
    Values <- SomeValues
    ByteRuns <- SomeRuns
    Unset = Unset
INVARIANT AnyWidthIsRead
