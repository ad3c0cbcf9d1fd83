------------------------ MODULE IndexedTableProofs ------------------------
(***************************************************************************)
(* Proofs about IndexedTable for every set of slots, keys and foreign      *)
(* keys: the type invariant, and that the primary-key index stays exact    *)
(* (UniqueIndexExact).  UniqueIndexExact alone is not inductive: add_row   *)
(* relies on the allocator's slot being free and therefore not the        *)
(* address of a stored row, and clear() relies on every occupied slot      *)
(* belonging to the table.  IInv adds that ownership fact (Owned).         *)
(***************************************************************************)
EXTENDS IndexedTable, TLAPS

\* Initially the table, its slots and its indexes are all empty.
LEMMA InitIInv == Init => IInv
<1> SUFFICES ASSUME Init PROVE IInv
  OBVIOUS
<1>1. TypeOK
  BY DEF Init, Store!Init, ById!Init, ByFk!Init, TypeOK, Store!TypeOK,
         ById!TypeOK, ByFk!TypeOK, ById!EmptyMap, ByFk!EmptyMap
<1>2. Owned
  BY TableAssumption DEF Init, Store!Init, Owned, Store!Live
<1>3. UniqueIndexExact
  BY DEF Init, Store!Init, ById!Init, ById!EmptyMap, UniqueIndexExact,
         ById!contains
<1>4. GroupsOwned
  BY DEF Init, ByFk!Init, ByFk!EmptyMap, GroupsOwned
<1>5. QED
  BY <1>1, <1>2, <1>3, <1>4 DEF IInv

\* The step add_row(r) takes: the allocator's slot a is free, so it is not
\* the address of a stored row (Owned); the row is stored there and a is
\* registered under the row's id and appended to the group of its fk.
AddRowStep(r, a) ==
    /\ heap[a] = NoRow
    /\ \A i \in 1..Len(rows) : rows[i] # a
    /\ rows' = Append(rows, a)
    /\ heap' = [heap EXCEPT ![a] = r]
    /\ byId' = [x \in DOMAIN byId \cup {r.id} |-> IF x = r.id THEN a ELSE byId[x]]
    /\ byFk' = [x \in DOMAIN byFk \cup {r.fk} |->
                  IF x = r.fk THEN Append(ByFk!get(r.fk), a) ELSE byFk[x]]

\* Every add_row is such a step, for the slot the allocator picked.
LEMMA AddRowSlot ==
  ASSUME IInv, NEW r \in RowVals, AddRow(r)
  PROVE  \E a \in Addrs : AddRowStep(r, a)
<1>1. PICK a \in Addrs :
         /\ Store!add_row(r, a)
         /\ ById!insert(r.id, a)
         /\ ByFk!insert(r.fk, a)
  BY DEF AddRow
<1>2. /\ heap[a] = NoRow
      /\ rows' = Append(rows, a)
      /\ heap' = [heap EXCEPT ![a] = r]
      /\ byId' = [x \in DOMAIN byId \cup {r.id} |-> IF x = r.id THEN a ELSE byId[x]]
      /\ byFk' = [x \in DOMAIN byFk \cup {r.fk} |->
                    IF x = r.fk THEN Append(ByFk!get(r.fk), a) ELSE byFk[x]]
  BY <1>1 DEF Store!add_row, ById!insert, ByFk!insert
<1>3. \A i \in 1..Len(rows) : rows[i] # a
  <2>1. rows \in Seq(Addrs)
    BY DEF IInv, TypeOK, Store!TypeOK
  <2>2. QED
    BY <1>2, <2>1, TableAssumption DEF IInv, Owned, Store!Live
<1>4. QED
  BY <1>2, <1>3 DEF AddRowStep

\* add_row stores the row in a free slot and registers that slot in both
\* indexes; the stored rows keep their positions and contents.
LEMMA AddRowIInv ==
  ASSUME IInv, NEW r \in RowVals, AddRow(r)
  PROVE  IInv'
<1> USE DEF IInv
<1>1. PICK a \in Addrs : AddRowStep(r, a)
  BY AddRowSlot
<1> DEFINE n == Len(rows)
<1>2. /\ heap[a] = NoRow
      /\ rows' = Append(rows, a)
      /\ heap' = [heap EXCEPT ![a] = r]
      /\ byId' = [x \in DOMAIN byId \cup {r.id} |-> IF x = r.id THEN a ELSE byId[x]]
      /\ byFk' = [x \in DOMAIN byFk \cup {r.fk} |->
                    IF x = r.fk THEN Append(ByFk!get(r.fk), a) ELSE byFk[x]]
  BY <1>1 DEF AddRowStep
<1>3. /\ rows \in Seq(Addrs)
      /\ heap \in [Addrs -> RowVals \cup {NoRow}]
      /\ DOMAIN byId \subseteq Keys /\ byId \in [DOMAIN byId -> Addrs]
      /\ DOMAIN byFk \subseteq GroupKeys /\ byFk \in [DOMAIN byFk -> Seq(Addrs)]
  BY DEF TypeOK, Store!TypeOK, ById!TypeOK, ByFk!TypeOK
<1>4. \A i \in 1..n : rows[i] # a
  BY <1>1 DEF AddRowStep
<1>5. /\ Len(rows') = n + 1
      /\ rows'[n + 1] = a
      /\ \A i \in 1..n : rows'[i] = rows[i] /\ heap'[rows[i]] = heap[rows[i]]
      /\ heap'[a] = r
  BY <1>2, <1>3, <1>4
<1>6. TypeOK'
  <2>1. Store!TypeOK'
    BY <1>2, <1>3 DEF Store!TypeOK
  <2>2. ById!TypeOK'
    BY <1>2, <1>3 DEF ById!TypeOK, RowVals
  <2>3. ByFk!TypeOK'
    <3>1. ByFk!get(r.fk) \in Seq(Addrs)
      BY <1>3 DEF ByFk!get
    <3>2. QED
      BY <1>2, <1>3, <3>1 DEF ByFk!TypeOK, RowVals
  <2>4. QED
    BY <2>1, <2>2, <2>3 DEF TypeOK
<1>7. Owned'
  <2>1. \A b \in Addrs : heap'[b] # NoRow <=> b \in Store!Live'
    <3> SUFFICES ASSUME NEW b \in Addrs
                 PROVE  heap'[b] # NoRow <=> \E i \in 1..n + 1 : rows'[i] = b
      BY <1>5 DEF Store!Live
    <3>1. CASE b = a
      BY <3>1, <1>5, TableAssumption
    <3>2. CASE b # a
      <4>1. heap'[b] = heap[b]
        BY <3>2, <1>2, <1>3
      <4>2. (\E i \in 1..n + 1 : rows'[i] = b) <=> \E i \in 1..n : rows[i] = b
        BY <3>2, <1>5
      <4>3. QED
        BY <4>1, <4>2 DEF Owned, Store!Live
    <3>3. QED
      BY <3>1, <3>2
  <2>2. \A i, j \in 1..Len(rows') : rows'[i] = rows'[j] => i = j
    BY <1>4, <1>5 DEF Owned
  <2>3. QED
    BY <2>1, <2>2 DEF Owned
<1>8. UniqueIndexExact'
  <2>1. \A k \in Keys :
          ById!contains(k)' <=> \E i \in 1..Len(rows') : heap'[rows'[i]].id = k
    <3> SUFFICES ASSUME NEW k \in Keys
                 PROVE  k \in DOMAIN byId \cup {r.id}
                          <=> \E i \in 1..n + 1 : heap'[rows'[i]].id = k
      BY <1>2, <1>5 DEF ById!contains
    <3>1. (\E i \in 1..n + 1 : heap'[rows'[i]].id = k)
            <=> (\E i \in 1..n : heap[rows[i]].id = k) \/ r.id = k
      BY <1>5
    <3>2. QED
      BY <3>1 DEF UniqueIndexExact, ById!contains
  <2>2. ASSUME NEW k \in DOMAIN byId'
        PROVE  \E i \in 1..Len(rows') :
                  /\ rows'[i] = byId'[k]
                  /\ heap'[rows'[i]].id = k
                  /\ \A j \in i + 1..Len(rows') : heap'[rows'[j]].id # k
    <3>1. CASE k = r.id
      <4>1. byId'[k] = a
        BY <3>1, <1>2
      <4>2. QED
        BY <3>1, <4>1, <1>5
    <3>2. CASE k # r.id
      <4>1. k \in DOMAIN byId /\ byId'[k] = byId[k]
        BY <3>2, <1>2
      <4>2. PICK i \in 1..n :
               /\ rows[i] = byId[k]
               /\ heap[rows[i]].id = k
               /\ \A j \in i + 1..n : heap[rows[j]].id # k
        BY <4>1 DEF UniqueIndexExact
      <4>3. \A j \in i + 1..n + 1 : heap'[rows'[j]].id # k
        BY <4>2, <1>5, <3>2
      <4>4. QED
        BY <4>1, <4>2, <4>3, <1>5
    <3>3. QED
      BY <3>1, <3>2
  <2>3. QED
    BY <2>1, <2>2 DEF UniqueIndexExact
<1>9. GroupsOwned'
  <2> SUFFICES ASSUME NEW g \in DOMAIN byFk', NEW i \in 1..Len(byFk'[g])
               PROVE  heap'[byFk'[g][i]] # NoRow
    BY DEF GroupsOwned
  <2>1. CASE g = r.fk
    <3>1. byFk'[g] = Append(ByFk!get(g), a)
      BY <2>1, <1>2
    <3>2. ByFk!get(g) \in Seq(Addrs)
      BY <1>3 DEF ByFk!get
    <3>3. CASE i = Len(byFk'[g])
      BY <3>1, <3>2, <3>3, <1>5, TableAssumption
    <3>4. CASE i # Len(byFk'[g])
      <4>1. g \in DOMAIN byFk /\ i \in 1..Len(byFk[g]) /\ byFk'[g][i] = byFk[g][i]
        BY <3>1, <3>2, <3>4, <2>1 DEF ByFk!get
      <4>2. byFk[g][i] # a /\ heap[byFk[g][i]] # NoRow
        BY <4>1, <1>2 DEF GroupsOwned
      <4>3. QED
        BY <4>1, <4>2, <1>2, <1>3
    <3>5. QED
      BY <3>3, <3>4
  <2>2. CASE g # r.fk
    <3>1. g \in DOMAIN byFk /\ byFk'[g] = byFk[g]
      BY <2>2, <1>2
    <3>2. byFk[g][i] \in Addrs /\ byFk[g][i] # a /\ heap[byFk[g][i]] # NoRow
      BY <3>1, <1>2, <1>3 DEF GroupsOwned
    <3>3. QED
      BY <3>1, <3>2, <1>2
  <2>3. QED
    BY <2>1, <2>2
<1>10. QED
  BY <1>6, <1>7, <1>8, <1>9

\* clear() empties the store and both indexes; the slots it frees were
\* exactly the occupied ones.
LEMMA ClearIInv ==
  ASSUME IInv, Clear
  PROVE  IInv'
<1> USE DEF IInv
<1>1. /\ rows' = <<>>
      /\ heap' = [a \in Addrs |-> IF a \in Store!Live THEN NoRow ELSE heap[a]]
      /\ byId' = ById!EmptyMap
      /\ byFk' = ByFk!EmptyMap
  BY DEF Clear, Store!clear, ById!clear, ByFk!clear
<1>2. TypeOK'
  BY <1>1 DEF TypeOK, Store!TypeOK, ById!TypeOK, ByFk!TypeOK,
              ById!EmptyMap, ByFk!EmptyMap
<1>3. Owned'
  BY <1>1 DEF Owned, Store!Live
<1>4. UniqueIndexExact'
  BY <1>1 DEF UniqueIndexExact, ById!contains, ById!EmptyMap
<1>5. GroupsOwned'
  BY <1>1 DEF GroupsOwned, ByFk!EmptyMap
<1>6. QED
  BY <1>2, <1>3, <1>4, <1>5

\* A stuttering step leaves every variable, hence IInv, unchanged.
LEMMA UnchangedIInv == IInv /\ UNCHANGED vars => IInv'
BY DEF IInv, vars, TypeOK, Store!TypeOK, ById!TypeOK, ByFk!TypeOK, Owned,
       Store!Live, UniqueIndexExact, ById!contains, GroupsOwned

\* IInv is an invariant of the table.
THEOREM IInvInvariant == Spec => []IInv
<1>1. Init => IInv
  BY InitIInv
<1>2. IInv /\ [Next]_vars => IInv'
  BY AddRowIInv, ClearIInv, UnchangedIInv DEF Next
<1>3. QED
  BY <1>1, <1>2, PTL DEF Spec

\* The type invariant: rows, slots and both indexes keep their types.
THEOREM TypeCorrect == Spec => []TypeOK
BY IInvInvariant, PTL DEF IInv

\* get_by_id is exact in every reachable state: the primary-key index maps
\* exactly the keys of the stored rows, each to the last stored row with it.
THEOREM UniqueIndexExactInvariant == Spec => []UniqueIndexExact
BY IInvInvariant, PTL DEF IInv

\* Pointer stability of DataTable::add_row, for every instance: no step but
\* clear() moves, drops or changes a stored row.
THEOREM PointerStabilityHolds == Spec => PointerStability
<1> DEFINE Stable == rows' # <<>> =>
                       /\ Len(rows) <= Len(rows')
                       /\ \A i \in 1..Len(rows) :
                             /\ rows'[i] = rows[i]
                             /\ heap'[rows[i]] = heap[rows[i]]
<1>1. IInv /\ [Next]_vars => [Stable]_vars
  <2> SUFFICES ASSUME IInv, [Next]_vars PROVE [Stable]_vars
    OBVIOUS
  <2>1. CASE \E r \in RowVals : AddRow(r)
    <3>1. PICK r \in RowVals, a \in Addrs :
             /\ heap[a] = NoRow
             /\ rows' = Append(rows, a)
             /\ heap' = [heap EXCEPT ![a] = r]
      BY <2>1 DEF AddRow, Store!add_row
    <3>2. rows \in Seq(Addrs) /\ heap \in [Addrs -> RowVals \cup {NoRow}]
      BY DEF IInv, TypeOK, Store!TypeOK
    <3>3. \A i \in 1..Len(rows) : rows[i] # a
      BY <3>1, <3>2, TableAssumption DEF IInv, Owned, Store!Live
    <3>4. QED
      BY <3>1, <3>2, <3>3
  <2>2. CASE Clear
    BY <2>2 DEF Clear, Store!clear
  <2>3. CASE UNCHANGED vars
    BY <2>3 DEF vars
  <2>4. QED
    BY <2>1, <2>2, <2>3 DEF Next
<1>2. QED
  BY <1>1, IInvInvariant, PTL DEF Spec, PointerStability

-----------------------------------------------------------------------------
(***************************************************************************)
(* Refinement: IndexedTable implements TableSpec under the mapping Abs,   *)
(* which reads every address through heap.  add_row may write only a free *)
(* slot, and no stored row and no index entry points at a free slot       *)
(* (Owned, UniqueIndexExact, GroupsOwned), so reading the old addresses   *)
(* after the step gives the old rows.                                     *)
(***************************************************************************)

\* The mapped initial state is the abstract initial state.
LEMMA InitRefines == Init => Abs!Init
BY DEF Init, Store!Init, ById!Init, ByFk!Init, ById!EmptyMap, ByFk!EmptyMap,
       Abs!Init

\* add_row maps to the abstract Add of the same row.
LEMMA AddRowRefines ==
  ASSUME IInv, NEW r \in RowVals, AddRow(r)
  PROVE  Abs!Add(r)
<1> USE DEF IInv
<1>1. PICK a \in Addrs : AddRowStep(r, a)
  BY AddRowSlot
<1> DEFINE n == Len(rows)
<1>2. /\ heap[a] = NoRow
      /\ rows' = Append(rows, a)
      /\ heap' = [heap EXCEPT ![a] = r]
      /\ byId' = [x \in DOMAIN byId \cup {r.id} |-> IF x = r.id THEN a ELSE byId[x]]
      /\ byFk' = [x \in DOMAIN byFk \cup {r.fk} |->
                    IF x = r.fk THEN Append(ByFk!get(r.fk), a) ELSE byFk[x]]
  BY <1>1 DEF AddRowStep
<1>3. /\ rows \in Seq(Addrs)
      /\ heap \in [Addrs -> RowVals \cup {NoRow}]
      /\ DOMAIN byId \subseteq Keys /\ byId \in [DOMAIN byId -> Addrs]
      /\ DOMAIN byFk \subseteq GroupKeys /\ byFk \in [DOMAIN byFk -> Seq(Addrs)]
  BY DEF TypeOK, Store!TypeOK, ById!TypeOK, ByFk!TypeOK
<1>4. \A i \in 1..n : rows[i] # a
  BY <1>1 DEF AddRowStep
<1>5. \A k \in DOMAIN byId : byId[k] # a
  BY <1>4 DEF UniqueIndexExact
<1>6. \A g \in DOMAIN byFk : \A i \in 1..Len(byFk[g]) : byFk[g][i] # a
  BY <1>2 DEF GroupsOwned
<1>7. [i \in 1..Len(rows') |-> heap'[rows'[i]]]
        = Append([i \in 1..n |-> heap[rows[i]]], r)
  BY <1>2, <1>3, <1>4
<1>8. [k \in DOMAIN byId' |-> heap'[byId'[k]]]
        = [k \in DOMAIN [k2 \in DOMAIN byId |-> heap[byId[k2]]] \cup {r.id} |->
             IF k = r.id THEN r ELSE [k2 \in DOMAIN byId |-> heap[byId[k2]]][k]]
  BY <1>2, <1>3, <1>5
<1> DEFINE G == [g \in DOMAIN byFk |-> [i \in 1..Len(byFk[g]) |-> heap[byFk[g][i]]]]
<1>9. [g \in DOMAIN byFk' |-> [i \in 1..Len(byFk'[g]) |-> heap'[byFk'[g][i]]]]
        = [g \in DOMAIN G \cup {r.fk} |->
             IF g = r.fk THEN Append(IF g \in DOMAIN G THEN G[g] ELSE <<>>, r)
             ELSE G[g]]
  <2> SUFFICES ASSUME NEW g \in DOMAIN byFk \cup {r.fk}
               PROVE  [i \in 1..Len(byFk'[g]) |-> heap'[byFk'[g][i]]]
                        = IF g = r.fk THEN Append(IF g \in DOMAIN G THEN G[g] ELSE <<>>, r)
                          ELSE G[g]
    BY <1>2
  <2>1. CASE g = r.fk /\ g \in DOMAIN byFk
    BY <2>1, <1>2, <1>3, <1>6 DEF ByFk!get
  <2>2. CASE g = r.fk /\ g \notin DOMAIN byFk
    <3>1. byFk'[g] = <<a>>
      BY <2>2, <1>2 DEF ByFk!get
    <3>2. heap'[a] = r
      BY <1>2, <1>3
    <3>3. g \notin DOMAIN G
      BY <2>2
    <3>4. [i \in 1..Len(byFk'[g]) |-> heap'[byFk'[g][i]]] = <<r>>
      BY <3>1, <3>2
    <3>5. (IF g = r.fk THEN Append(IF g \in DOMAIN G THEN G[g] ELSE <<>>, r)
           ELSE G[g]) = <<r>>
      BY <2>2, <3>3
    <3>6. QED
      BY <3>4, <3>5
  <2>3. CASE g # r.fk
    <3>1. g \in DOMAIN byFk /\ byFk'[g] = byFk[g]
      BY <2>3, <1>2
    <3>2. byFk[g] \in Seq(Addrs)
      BY <3>1, <1>3
    <3>3. \A i \in 1..Len(byFk[g]) : heap'[byFk[g][i]] = heap[byFk[g][i]]
      BY <3>1, <3>2, <1>2, <1>3, <1>6
    <3>4. [i \in 1..Len(byFk'[g]) |-> heap'[byFk'[g][i]]] = G[g]
      BY <3>1, <3>3
    <3>5. QED
      BY <2>3, <3>4
  <2>4. QED
    BY <2>1, <2>2, <2>3
<1>10. QED
  BY <1>7, <1>8, <1>9 DEF Abs!Add

\* clear maps to the abstract Reset.
LEMMA ClearRefines ==
  ASSUME Clear
  PROVE  Abs!Reset
<1>1. /\ rows' = <<>>
      /\ byId' = ById!EmptyMap
      /\ byFk' = ByFk!EmptyMap
  BY DEF Clear, Store!clear, ById!clear, ByFk!clear
<1>2. QED
  BY <1>1 DEF Abs!Reset, ById!EmptyMap, ByFk!EmptyMap

\* The table implements its contract: every behaviour of IndexedTable, read
\* through the refinement mapping, is a behaviour of TableSpec.
THEOREM Refinement == Spec => AbsSpec
<1>1. IInv /\ [Next]_vars => [Abs!Next]_Abs!avars
  <2> SUFFICES ASSUME IInv, [Next]_vars PROVE [Abs!Next]_Abs!avars
    OBVIOUS
  <2>1. CASE \E r \in RowVals : AddRow(r)
    <3>1. PICK r \in RowVals : AddRow(r)
      BY <2>1
    <3>2. r \in Abs!RowVals
      BY DEF RowVals, Abs!RowVals
    <3>3. QED
      BY <3>1, <3>2, AddRowRefines DEF Abs!Next
  <2>2. CASE Clear
    BY <2>2, ClearRefines DEF Abs!Next
  <2>3. CASE UNCHANGED vars
    BY <2>3 DEF vars, Abs!avars
  <2>4. QED
    BY <2>1, <2>2, <2>3 DEF Next
<1>2. QED
  BY <1>1, InitRefines, IInvInvariant, PTL DEF Spec, AbsSpec, Abs!Spec

=============
