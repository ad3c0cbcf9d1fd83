\* A loader reads back every table of up to two rows over the quoted fields.
CONSTANTS
    Tables <- MCTables
    Delim <- MCDelim
SPECIFICATION Spec
INVARIANT RowsReadBack
\* The loader's loop ends when next() returns false.
CHECK_DEADLOCK FALSE
