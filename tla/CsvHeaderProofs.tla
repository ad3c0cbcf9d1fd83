------------------------- MODULE CsvHeaderProofs --------------------------
(***************************************************************************)
(* What the constructor's header_index_ loop computes, for every header    *)
(* row: each name maps to a column that holds it, and no later column      *)
(* holds it (a repeated name keeps its last column, since a later          *)
(* iteration overwrites the entry).  IndexOf picks that column by CHOOSE;  *)
(* that one exists is the least distance from the row's end among the     *)
(* columns holding the name (LeastNat).                                    *)
(***************************************************************************)
EXTENDS CsvHeader, LeastElement, TLAPS

\* Every name of a header row has a last column holding it.
LEMMA LastColumnExists ==
  ASSUME NEW S, NEW hs \in Seq(S), NEW h \in Range(hs)
  PROVE  \E i \in 0..Len(hs) - 1 :
            hs[i + 1] = h /\ \A j \in i + 1..Len(hs) - 1 : hs[j + 1] # h
<1> DEFINE n == Len(hs)
           Holds == {i \in 0..n - 1 : hs[i + 1] = h}
           Dist == {n - 1 - i : i \in Holds}
<1>1. n \in Nat
  OBVIOUS
<1>2. Holds # {}
  <2>1. PICK k \in 1..n : hs[k] = h
    BY DEF Range
  <2>2. k - 1 \in Holds
    BY <2>1, <1>1
  <2>. QED  BY <2>2
<1>3. Dist \in SUBSET Nat /\ Dist # {}
  BY <1>1, <1>2
<1>4. PICK d \in Dist : \A e \in Dist : d <= e
  BY <1>3, LeastNat
<1>5. PICK i \in Holds : d = n - 1 - i
  BY <1>4
<1>6. ASSUME NEW j \in i + 1..n - 1, hs[j + 1] = h PROVE FALSE
  <2>1. j \in Holds
    BY <1>1, <1>5, <1>6
  <2>2. n - 1 - j \in Dist
    BY <2>1
  <2>3. d <= n - 1 - j
    BY <2>2, <1>4
  <2>4. i \in 0..n - 1
    BY <1>5
  <2>. QED  BY <2>3, <2>4, <1>1, <1>5, <1>6
<1>. QED  BY <1>5, <1>6

\* The constructor's loop leaves every name of the header row mapped to a
\* 0-based column that holds it and after which no column holds it, for
\* every header row, repeated names included: get(name) reads the last
\* column named so.
THEOREM IndexOfLast ==
  ASSUME NEW S, NEW hs \in Seq(S), NEW h \in Range(hs)
  PROVE  /\ IndexOf(hs)[h] \in 0..Len(hs) - 1
         /\ hs[IndexOf(hs)[h] + 1] = h
         /\ \A j \in IndexOf(hs)[h] + 1..Len(hs) - 1 : hs[j + 1] # h
BY LastColumnExists DEF IndexOf

\* header_index_ maps exactly the names of the header row, each to a
\* column of it (the range of header_index_ in CsvReader).
THEOREM IndexOfType ==
  ASSUME NEW S, NEW hs \in Seq(S)
  PROVE  IndexOf(hs) \in [Range(hs) -> 0..Len(hs) - 1]
BY IndexOfLast DEF IndexOf

=============================================================================
