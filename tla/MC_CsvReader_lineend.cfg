\* A quoted field holding a line end.
CONSTANTS
    Tables <- MCLineEndTables
    Delim <- MCDelim
SPECIFICATION Spec
INVARIANT RowsReadBack
CHECK_DEADLOCK FALSE
