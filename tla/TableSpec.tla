----------------------------- MODULE TableSpec -----------------------------
(***************************************************************************)
(* What a generated table promises its callers (spec sections 3, 4.3-4.5), *)
(* with rows as values and no addresses: the rows in insertion order, the *)
(* row each primary key finds (the last one added with it) and the rows   *)
(* each foreign key finds (all of them, in insertion order).  add_row     *)
(* adds to all three; clear empties them.                                  *)
(***************************************************************************)
EXTENDS Sequences

CONSTANTS Keys, GroupKeys

RowVals == [id : Keys, fk : GroupKeys]

VARIABLES
    tbl,    \* the stored rows, in insertion order
    idx,    \* primary key -> the row get_by_id returns
    grp     \* foreign key -> the rows get_by_fk returns

avars == <<tbl, idx, grp>>

Init ==
    /\ tbl = <<>>
    /\ idx = [k \in {} |-> tbl]
    /\ grp = [g \in {} |-> tbl]

\* Adding a row: it is the row its key finds from now on, and the last of
\* the rows its foreign key finds.
Add(r) ==
    /\ tbl' = Append(tbl, r)
    /\ idx' = [k \in DOMAIN idx \cup {r.id} |-> IF k = r.id THEN r ELSE idx[k]]
    /\ grp' = [g \in DOMAIN grp \cup {r.fk} |->
                 IF g = r.fk THEN Append(IF g \in DOMAIN grp THEN grp[g] ELSE <<>>, r)
                 ELSE grp[g]]

Reset ==
    /\ tbl' = <<>>
    /\ idx' = [k \in {} |-> tbl]
    /\ grp' = [g \in {} |-> tbl]

Next == (\E r \in RowVals : Add(r)) \/ Reset

Spec == Init /\ [][Next]_avars

=============================================================================
