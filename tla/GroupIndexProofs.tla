------------------------- MODULE GroupIndexProofs --------------------------
(***************************************************************************)
(* GroupIndexExact for every set of slots, keys and foreign keys: the      *)
(* group index of a generated table lists, for every foreign key, exactly  *)
(* the stored rows with that key in deque order.  It is not inductive on  *)
(* its own: add_row keeps the old groups right only because the slot it   *)
(* fills is not the address of a stored row, which is IInv (proved in     *)
(* IndexedTableProofs).  So the step lemmas assume IInv in the pre-state   *)
(* and the theorem combines them with IInvInvariant.                       *)
(***************************************************************************)
EXTENDS IndexedTableProofs

\* The empty table lists no row under any key.
LEMMA InitGroupExact == Init => GroupIndexExact
<1> SUFFICES ASSUME Init PROVE GroupIndexExact
  OBVIOUS
<1>1. rows = <<>> /\ byFk = ByFk!EmptyMap
  BY DEF Init, Store!Init, ByFk!Init
<1>2. ASSUME NEW g \in GroupKeys
      PROVE  ListsInOrder(ByFk!get(g), GroupPositions(g))
  <2>1. ByFk!get(g) = <<>> /\ GroupPositions(g) = {}
    BY <1>1 DEF ByFk!get, ByFk!EmptyMap, GroupPositions
  <2>2. 1..Len(ByFk!get(g)) = {}
    BY <2>1
  <2>3. [j \in {} |-> 1] \in [1..Len(ByFk!get(g)) -> 1..Len(rows)]
    BY <2>2
  <2>4. QED
    BY <2>1, <2>2, <2>3, Zenon DEF ListsInOrder
<1>3. DOMAIN byFk = {heap[a].fk : a \in Store!Live}
  BY <1>1 DEF ByFk!EmptyMap, Store!Live
<1>4. QED
  BY <1>2, <1>3 DEF GroupIndexExact

\* add_row appends the new slot to the group of the row's foreign key and
\* to the deque, and leaves every other group and every stored row alone.
LEMMA AddRowGroupExact ==
  ASSUME IInv, GroupIndexExact, NEW r \in RowVals, AddRow(r)
  PROVE  GroupIndexExact'
<1> USE DEF IInv
<1>1. PICK a \in Addrs : AddRowStep(r, a)
  BY AddRowSlot
<1> DEFINE n == Len(rows)
<1>2. /\ heap[a] = NoRow
      /\ rows' = Append(rows, a)
      /\ heap' = [heap EXCEPT ![a] = r]
      /\ byFk' = [x \in DOMAIN byFk \cup {r.fk} |->
                    IF x = r.fk THEN Append(ByFk!get(r.fk), a) ELSE byFk[x]]
  BY <1>1 DEF AddRowStep
<1>3. /\ rows \in Seq(Addrs)
      /\ heap \in [Addrs -> RowVals \cup {NoRow}]
      /\ DOMAIN byFk \subseteq GroupKeys /\ byFk \in [DOMAIN byFk -> Seq(Addrs)]
  BY DEF TypeOK, Store!TypeOK, ByFk!TypeOK
<1>4. \A i \in 1..n : rows[i] # a
  BY <1>1 DEF AddRowStep
<1>5. /\ Len(rows') = n + 1
      /\ rows'[n + 1] = a
      /\ \A i \in 1..n : rows'[i] = rows[i] /\ heap'[rows[i]] = heap[rows[i]]
      /\ heap'[a] = r
  BY <1>2, <1>3, <1>4
<1>6. ASSUME NEW g \in GroupKeys
      PROVE  ListsInOrder(ByFk!get(g), GroupPositions(g))'
  <2> DEFINE s == ByFk!get(g)
             P == GroupPositions(g)
  <2>1. s \in Seq(Addrs)
    BY <1>3 DEF ByFk!get
  <2>2. PICK f \in [1..Len(s) -> 1..n] :
           /\ \A j \in 1..Len(s) : s[j] = rows[f[j]]
           /\ \A j1, j2 \in 1..Len(s) : j1 < j2 => f[j1] < f[j2]
           /\ {f[j] : j \in 1..Len(s)} = P
    BY DEF GroupIndexExact, ListsInOrder
  <2>3. CASE g = r.fk
    <3> DEFINE f2 == [j \in 1..Len(s) + 1 |-> IF j = Len(s) + 1 THEN n + 1 ELSE f[j]]
    <3>1. ByFk!get(g)' = Append(s, a)
      BY <2>3, <1>2 DEF ByFk!get
    <3>2. GroupPositions(g)' = P \cup {n + 1}
      <4>1. heap'[rows'[n + 1]].fk = g
        BY <2>3, <1>5
      <4>2. \A i \in 1..n : heap'[rows'[i]].fk = heap[rows[i]].fk
        BY <1>5
      <4>3. QED
        BY <4>1, <4>2, <1>5 DEF GroupPositions
    <3>3. f2 \in [1..Len(Append(s, a)) -> 1..Len(rows')]
      BY <2>1, <2>2, <1>5
    <3>4. \A j \in 1..Len(Append(s, a)) : Append(s, a)[j] = rows'[f2[j]]
      BY <2>1, <2>2, <1>5
    <3>5. \A j1, j2 \in 1..Len(Append(s, a)) : j1 < j2 => f2[j1] < f2[j2]
      <4> SUFFICES ASSUME NEW j1 \in 1..Len(s) + 1, NEW j2 \in 1..Len(s) + 1,
                          j1 < j2
                   PROVE  f2[j1] < f2[j2]
        BY <2>1
      <4>1. j1 \in 1..Len(s)
        BY <2>1
      <4>2. CASE j2 = Len(s) + 1
        BY <4>1, <4>2, <2>1, <2>2
      <4>3. CASE j2 \in 1..Len(s)
        BY <4>1, <4>3, <2>1, <2>2
      <4>4. QED
        BY <4>2, <4>3, <2>1
    <3>6. {f2[j] : j \in 1..Len(Append(s, a))} = P \cup {n + 1}
      BY <2>1, <2>2
    <3>7. SUFFICES \E h \in [1..Len(Append(s, a)) -> 1..Len(rows')] :
                     /\ \A j \in 1..Len(Append(s, a)) : Append(s, a)[j] = rows'[h[j]]
                     /\ \A j1, j2 \in 1..Len(Append(s, a)) : j1 < j2 => h[j1] < h[j2]
                     /\ {h[j] : j \in 1..Len(Append(s, a))} = P \cup {n + 1}
      BY <3>1, <3>2 DEF ListsInOrder
    <3>8. QED
      BY <3>3, <3>4, <3>5, <3>6, Zenon
  <2>4. CASE g # r.fk
    <3>1. ByFk!get(g)' = s
      BY <2>4, <1>2 DEF ByFk!get
    <3>2. GroupPositions(g)' = P
      <4>1. heap'[rows'[n + 1]].fk # g
        BY <2>4, <1>5
      <4>2. \A i \in 1..n : heap'[rows'[i]].fk = heap[rows[i]].fk
        BY <1>5
      <4>3. QED
        BY <4>1, <4>2, <1>5 DEF GroupPositions
    <3>3. f \in [1..Len(s) -> 1..Len(rows')]
      BY <2>2, <1>5
    <3>4. \A j \in 1..Len(s) : s[j] = rows'[f[j]]
      BY <2>2, <1>5
    <3>5. QED
      BY <3>1, <3>2, <3>3, <3>4, <2>2 DEF ListsInOrder
  <2>5. QED
    BY <2>3, <2>4
<1>7. DOMAIN byFk' = {heap'[x].fk : x \in Store!Live'}
  <2>1. Store!Live' = Store!Live \cup {a}
    BY <1>5 DEF Store!Live
  <2>2. \A x \in Store!Live : heap'[x] = heap[x]
    BY <1>5 DEF Store!Live
  <2>3. QED
    BY <2>1, <2>2, <1>2, <1>5 DEF GroupIndexExact
<1>8. QED
  BY <1>6, <1>7 DEF GroupIndexExact

\* clear() empties the deque and the group index together.
LEMMA ClearGroupExact ==
  ASSUME Clear
  PROVE  GroupIndexExact'
<1>1. rows' = <<>> /\ byFk' = ByFk!EmptyMap
  BY DEF Clear, Store!clear, ByFk!clear
<1>2. ASSUME NEW g \in GroupKeys
      PROVE  ListsInOrder(ByFk!get(g), GroupPositions(g))'
  <2>1. ByFk!get(g)' = <<>> /\ GroupPositions(g)' = {}
    BY <1>1 DEF ByFk!get, ByFk!EmptyMap, GroupPositions
  <2>2. 1..Len(ByFk!get(g)') = {}
    BY <2>1
  <2>3. [j \in {} |-> 1] \in [1..Len(ByFk!get(g)') -> 1..Len(rows')]
    BY <2>2
  <2>4. QED
    BY <2>1, <2>2, <2>3, Zenon DEF ListsInOrder
<1>3. DOMAIN byFk' = {heap'[a].fk : a \in Store!Live'}
  BY <1>1 DEF ByFk!EmptyMap, Store!Live
<1>4. QED
  BY <1>2, <1>3 DEF GroupIndexExact

\* get_by_fk is exact in every reachable state, for every instance.
THEOREM GroupIndexExactInvariant == Spec => []GroupIndexExact
<1>1. IInv /\ GroupIndexExact /\ [Next]_vars => GroupIndexExact'
  <2> SUFFICES ASSUME IInv, GroupIndexExact, [Next]_vars
               PROVE  GroupIndexExact'
    OBVIOUS
  <2>1. CASE \E r \in RowVals : AddRow(r)
    BY <2>1, AddRowGroupExact
  <2>2. CASE Clear
    BY <2>2, ClearGroupExact
  <2>3. CASE UNCHANGED vars
    BY <2>3 DEF vars, GroupIndexExact, ListsInOrder, GroupPositions,
              ByFk!get, Store!Live
  <2>4. QED
    BY <2>1, <2>2, <2>3 DEF Next
<1>2. QED
  BY <1>1, InitGroupExact, IInvInvariant, PTL DEF Spec

=============================================================================
