CONSTANTS
    ByteBase = 4
    BlobLens = {0, 2}
    VecLens = {0, 1}
    MemLimit = 1000
    Schema <- MCSchema
    CorruptInputs = {}

SPECIFICATION Spec

INVARIANT DecodeSound
INVARIANT DecodeFailsOnlyWhenTruncated
INVARIANT WriterFlushes

\* Writer and reader are finite programs: every behaviour ends.
CHECK_DEADLOCK FALSE
