-------------------------- MODULE MC_IndexedTable --------------------------
(* Model-checking instance of IndexedTable: three slots, so that a table   *)
(* can hold a row per slot and clear() frees slots that a later add_row    *)
(* reuses; two primary keys, so that a duplicate key occurs with a third   *)
(* row; two foreign keys, so that groups of one and of two rows occur.     *)
EXTENDS IndexedTable

CONSTANTS a1, a2, a3, k1, k2, g1, g2

MCAddrs == {a1, a2, a3}
MCKeys == {k1, k2}
MCGroupKeys == {g1, g2}

=============================================================================
