----------------------------- MODULE DataTable -----------------------------
(***************************************************************************)
(* polygen::DataTable<T> (polygen_support.hpp): an append-only row store   *)
(* kept in a std::deque<T>.  A row is identified by the address of the     *)
(* slot that holds it; `heap` is the allocator's view of those slots, so   *)
(* that an address freed by clear() can be handed out again.  push_back on *)
(* a deque allocates a fresh slot and never moves an element already       *)
(* stored, which is what the indexes rely on.                              *)
(***************************************************************************)
EXTENDS Naturals, Sequences

CONSTANTS
    Addrs,      \* slot addresses the allocator can hand out
    RowVals,    \* the values a row of type T can hold
    NoRow       \* content of a slot that holds no row

VARIABLES
    rows,       \* rows_: the stored rows, in insertion order, by address
    heap        \* heap[a]: the row stored at address a, or NoRow

TypeOK ==
    /\ rows \in Seq(Addrs)
    /\ heap \in [Addrs -> RowVals \cup {NoRow}]

\* The addresses of the rows the table owns (what begin()..end() visits).
Live == {rows[i] : i \in 1..Len(rows)}

\* A default-constructed DataTable: an empty deque.
Init ==
    /\ rows = <<>>
    /\ heap = [a \in Addrs |-> NoRow]

count == Len(rows)

\* operator[](index): the row at position i.
At(i) == heap[rows[i]]

\* Faulty variant kept for mutation testing: rows_ as a std::vector, whose
\* push_back reallocates when full and moves every stored row elsewhere.
add_row_relocating(r, a) ==
    /\ heap[a] = NoRow
    /\ IF \E b \in Addrs \ {a} : heap[b] = NoRow /\ Len(rows) = 1
         THEN \E b \in Addrs \ {a} :
                /\ heap[b] = NoRow
                /\ rows' = <<b, a>>
                /\ heap' = [heap EXCEPT ![rows[1]] = NoRow, ![b] = heap[rows[1]],
                                        ![a] = r]
         ELSE /\ rows' = Append(rows, a)
              /\ heap' = [heap EXCEPT ![a] = r]

\* Faulty variant kept for mutation testing: push_back into storage whose
\* next slot may still hold a row (the free-slot guard is gone).
add_row_reusing(r, a) ==
    /\ rows' = Append(rows, a)
    /\ heap' = [heap EXCEPT ![a] = r]

\* add_row(row): rows_.push_back(row).  The deque stores the copy in a
\* free slot `a` (chosen by the allocator) and leaves every other slot alone.
add_row(r, a) ==
    /\ heap[a] = NoRow
    /\ rows' = Append(rows, a)
    /\ heap' = [heap EXCEPT ![a] = r]

\* clear(): rows_.clear() destroys every row and frees its slot.
clear ==
    /\ rows' = <<>>
    /\ heap' = [a \in Addrs |-> IF a \in Live THEN NoRow ELSE heap[a]]

=============================================================================
