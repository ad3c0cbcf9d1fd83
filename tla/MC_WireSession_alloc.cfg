CONSTANTS
    ByteBase = 4
    BlobLens = {0}
    VecLens = {0, 1}
    MemLimit = 1000
    Schema <- MCVectorSchema
    CorruptInputs <- MCCorruptInputs

SPECIFICATION SpecCorrupt

INVARIANT DecodeFailsOnlyWhenTruncated

CHECK_DEADLOCK FALSE
