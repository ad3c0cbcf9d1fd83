---------------------------- MODULE IndexedTable ----------------------------
(***************************************************************************)
(* One table of a generated schema container: a DataTable of rows plus     *)
(* the indexes the schema declares on it, here a primary key `id` (a       *)
(* UniqueIndex) and a foreign key `fk` (a GroupIndex), as in the Post      *)
(* table of tests/07 (get_by_id, get_by_post_id ...).  The generated       *)
(* wrapper is not part of src/: its add_row and clear follow the contract  *)
(* of the spec (section 4.5) and call the generic layers of                *)
(* polygen_support.hpp, which are modelled from the code.                  *)
(***************************************************************************)
EXTENDS Naturals, Sequences

CONSTANTS
    Addrs,      \* slot addresses of the row storage
    Keys,       \* values of the primary-key column
    GroupKeys,  \* values of the foreign-key column
    NoRow,      \* content of a free slot
    Null        \* nullptr

\* A row, abstracted to the two indexed columns.
RowVals == [id : Keys, fk : GroupKeys]

ASSUME TableAssumption ==
    /\ NoRow \notin RowVals
    /\ Null \notin Addrs

VARIABLES
    rows,       \* the DataTable's deque, by address
    heap,       \* the row held at each address
    byId,       \* UniqueIndex<K, Row>: primary key -> row
    byFk        \* GroupIndex<K, Row>: foreign key -> rows

vars == <<rows, heap, byId, byFk>>

Store == INSTANCE DataTable
ById  == INSTANCE UniqueIndex WITH index <- byId, Values <- Addrs
ByFk  == INSTANCE GroupIndex WITH index <- byFk, Keys <- GroupKeys, Values <- Addrs

TypeOK ==
    /\ Store!TypeOK
    /\ ById!TypeOK
    /\ ByFk!TypeOK

Init ==
    /\ Store!Init
    /\ ById!Init
    /\ ByFk!Init

\* add_row(row): store the row, then register the address of the stored
\* copy in every index declared on the table, in one uninterrupted call.
AddRow(r) ==
    \E a \in Addrs :
        /\ Store!add_row(r, a)
        /\ ById!insert(r.id, a)
        /\ ByFk!insert(r.fk, a)

\* clear(): empty the store and every index in lock-step.
Clear ==
    /\ Store!clear
    /\ ById!clear
    /\ ByFk!clear

\* table[i] = row through DataTable::operator[] (which returns T&): the row
\* is overwritten in its slot and no index is told.
UpdateRow(i, r) ==
    /\ i \in 1..Len(rows)
    /\ heap' = [heap EXCEPT ![rows[i]] = r]
    /\ UNCHANGED <<rows, byId, byFk>>

Next ==
    \/ \E r \in RowVals : AddRow(r)
    \/ Clear

Spec == Init /\ [][Next]_vars

\* The same table used by a caller that also writes rows in place.
NextWithUpdate ==
    \/ Next
    \/ \E i \in 1..Len(rows), r \in RowVals : UpdateRow(i, r)

SpecWithUpdate == Init /\ [][NextWithUpdate]_vars

-----------------------------------------------------------------------------
(* Properties *)

\* get_by_id is exact: a key is in the primary-key index exactly when some
\* stored row has it, and get(k) returns the most recently added stored row
\* with key k (last write wins, never a freed slot).  Breaks if add_row's
\* index registration, clear's lock-step reset or the deque's address
\* stability goes wrong.
UniqueIndexExact ==
    /\ \A k \in Keys :
          ById!contains(k) <=> \E i \in 1..Len(rows) : heap[rows[i]].id = k
    /\ \A k \in DOMAIN byId :
          \E i \in 1..Len(rows) :
             /\ rows[i] = byId[k]
             /\ heap[rows[i]].id = k
             /\ \A j \in i + 1..Len(rows) : heap[rows[j]].id # k

\* The positions in the deque of the stored rows whose fk is g.
GroupPositions(g) == {i \in 1..Len(rows) : heap[rows[i]].fk = g}

\* s lists the rows at the positions P in deque order, each once: some
\* strictly increasing f numbers P, and s[j] is the row at position f[j].
ListsInOrder(s, P) ==
    \E f \in [1..Len(s) -> 1..Len(rows)] :
        /\ \A j \in 1..Len(s) : s[j] = rows[f[j]]
        /\ \A j1, j2 \in 1..Len(s) : j1 < j2 => f[j1] < f[j2]
        /\ {f[j] : j \in 1..Len(s)} = P

\* get_by_fk is exact: for every foreign key g the group index returns the
\* stored rows whose fk is g, each once, in insertion order, and holds a
\* (possibly empty) entry only for keys some stored row has.
GroupIndexExact ==
    /\ \A g \in GroupKeys : ListsInOrder(ByFk!get(g), GroupPositions(g))
    /\ DOMAIN byFk = {heap[a].fk : a \in Store!Live}

\* Pointer stability of DataTable::add_row: a step that leaves rows stored
\* keeps every stored row at the same position, the same address and with
\* the same content; only clear() may discard rows.
PointerStability ==
    [][rows' # <<>> =>
         /\ Len(rows) <= Len(rows')
         /\ \A i \in 1..Len(rows) :
               /\ rows'[i] = rows[i]
               /\ heap'[rows[i]] = heap[rows[i]]]_vars

\* What the table's state means to a caller: each address, in the store
\* and in the indexes, read as the row stored there.
Abs == INSTANCE TableSpec WITH
          tbl <- [i \in 1..Len(rows) |-> heap[rows[i]]],
          idx <- [k \in DOMAIN byId |-> heap[byId[k]]],
          grp <- [g \in DOMAIN byFk |-> [i \in 1..Len(byFk[g]) |-> heap[byFk[g][i]]]]

\* The table implements its contract: read through the addresses, every
\* add_row is the abstract Add and every clear the abstract Reset.  Breaks
\* if a slot that a stored row or an index still points at is reused or
\* moved, or if an index is not updated with the store.
AbsSpec == Abs!Spec

\* The slots the table owns are exactly the occupied ones, each held once.
Owned ==
    /\ \A a \in Addrs : heap[a] # NoRow <=> a \in Store!Live
    /\ \A i, j \in 1..Len(rows) : rows[i] = rows[j] => i = j

\* Every address the group index holds is an occupied slot.
GroupsOwned ==
    \A g \in DOMAIN byFk : \A i \in 1..Len(byFk[g]) : heap[byFk[g][i]] # NoRow

\* Inductive invariant behind UniqueIndexExact and the refinement: types,
\* slot ownership, the primary-key index property, and that the group index
\* points only at occupied slots.
IInv ==
    /\ TypeOK
    /\ Owned
    /\ UniqueIndexExact
    /\ GroupsOwned

=============================================================================
