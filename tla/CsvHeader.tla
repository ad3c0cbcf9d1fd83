----------------------------- MODULE CsvHeader -----------------------------
(***************************************************************************)
(* The CsvReader constructor's header_index_: the map from a column name  *)
(* to its 0-based column, built by the loop                               *)
(*     for (size_t i = 0; i < headers_.size(); ++i)                       *)
(*         header_index_[headers_[i]] = i;                                *)
(* Kept apart from CsvReader, whose line splitting is recursive, so that  *)
(* CsvHeaderProofs can reason about it.                                   *)
(***************************************************************************)
EXTENDS Integers, Sequences, Functions

\* The constructor's loop header_index_[headers_[i]] = i: a name that
\* occurs twice maps to its last column.
IndexOf(hs) == [h \in Range(hs) |-> CHOOSE i \in 0..Len(hs) - 1 :
                    hs[i + 1] = h /\ \A j \in i + 1..Len(hs) - 1 : hs[j + 1] # h]

=============================================================================
