CONSTANTS
    ByteBase = 2
    BlobLens = {16}
    VecLens = {0}
    MemLimit = 1000
    Schema <- MCWrapSchema
    CorruptInputs = {}

SPECIFICATION Spec

INVARIANT DecodeSound

CHECK_DEADLOCK FALSE
