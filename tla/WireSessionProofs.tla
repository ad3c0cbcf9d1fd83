------------------------ MODULE WireSessionProofs -------------------------
(***************************************************************************)
(* WriterFlushes for every byte base, schema and value sets: the caller's  *)
(* vector holds a prefix of the writer's stream, and all of it once the    *)
(* writer is destroyed.  The argument needs to know that every codec call  *)
(* appends a finite sequence to the stream, and for write_vector that is a *)
(* statement about the recursive function Concat.  Its defining equation  *)
(* is not given to the provers (a recursive function is a CHOOSE); it is  *)
(* derived here by a least-counterexample argument on the prefix length   *)
(* (LeastNat).                                                             *)
(***************************************************************************)
EXTENDS WireSession, LeastElement, TLAPS

\* write_vector's item loop: appending finite byte sequences one after the
\* other yields a finite byte sequence.
LEMMA ConcatType ==
  ASSUME NEW S, NEW ss \in Seq(Seq(S))
  PROVE  Concat(ss) \in Seq(S)
<1> DEFINE N == Len(ss)
           Step(g, i) == IF i = 0 THEN <<>> ELSE g[i - 1] \o ss[i]
           Body(g) == [i \in 0..N |-> Step(g, i)]
           Built(g, m) == /\ g \in [0..m -> Seq(S)]
                       /\ \A i \in 0..m : g[i] = Step(g, i)
<1>0. N \in Nat
  OBVIOUS
<1>1. \A m \in 0..N : \E g : Built(g, m)
  <2> DEFINE Bad == {k \in 0..N : ~\E g : Built(g, k)}
  <2> SUFFICES ASSUME Bad # {} PROVE FALSE
    BY DEF Bad
  <2>0. Bad \in SUBSET Nat
    BY <1>0 DEF Bad
  <2>1. PICK m \in Bad : \A k \in Bad : m <= k
    BY <2>0, LeastNat
  <2>2. m \in 0..N /\ ~\E g : Built(g, m)
    BY <2>1 DEF Bad
  <2>3. CASE m = 0
    <3> DEFINE g0 == [i \in 0..0 |-> <<>>]
    <3>1. Built(g0, 0)
      BY DEF Built, Step
    <3>. QED  BY <3>1, <2>2, <2>3
  <2>4. CASE m # 0
    <3>1. m - 1 \in 0..N
      BY <2>2, <2>4
    <3>2. m - 1 \notin Bad
      <4>1. ~(m <= m - 1)
        BY <2>2
      <4>. QED  BY <4>1, <2>1, Zenon
    <3>3. PICK g : Built(g, m - 1)
      BY <3>1, <3>2 DEF Bad
    <3>9. PICK h : h = [i \in 0..m |-> IF i < m THEN g[i] ELSE g[m - 1] \o ss[m]]
      OBVIOUS
    <3>4. g[m - 1] \in Seq(S) /\ ss[m] \in Seq(S)
      BY <3>1, <3>3, <2>2, <2>4 DEF Built
    <3>5. h \in [0..m -> Seq(S)]
      BY <3>3, <3>4, <3>9, <2>2, <2>4 DEF Built
    <3>6. ASSUME NEW i \in 0..m PROVE h[i] = Step(h, i)
      <4>0. m \in Nat /\ i \in Nat
        BY <2>2
      <4>1. CASE i = m
        <5>0. m - 1 \in 0..m /\ m - 1 < m /\ ~(m < m) /\ i \in 0..m
          BY <4>0, <4>1, <2>4
        <5>1. h[i] = g[m - 1] \o ss[m] /\ h[m - 1] = g[m - 1]
          BY <5>0, <4>1, <3>9, Zenon
        <5>. QED  BY <5>1, <4>1, <2>4 DEF Step
      <4>2. CASE i < m
        <5>1. i \in 0..m - 1
          BY <4>0, <4>2
        <5>2. h[i] = g[i] /\ g[i] = Step(g, i)
          <6>1. h[i] = g[i]
            BY <4>2, <3>9, Zenon
          <6>2. g[i] = Step(g, i)
            BY <5>1, <3>3, Zenon DEF Built
          <6>. QED  BY <6>1, <6>2
        <5>3. i # 0 => h[i - 1] = g[i - 1]
          BY <4>0, <4>2, <3>9
        <5>. QED  BY <5>2, <5>3 DEF Step
      <4>. QED  BY <4>0, <4>1, <4>2
    <3>. QED  BY <3>5, <3>6, <2>2 DEF Built
  <2>. QED  BY <2>3, <2>4
<1>2. PICK g : Built(g, N)
  <2>1. N \in 0..N
    BY <1>0
  <2>. QED  BY <2>1, <1>1, Zenon
<1>3. g = Body(g)
  BY <1>2 DEF Built, Body
<1>4. ASSUME NEW c, c = Body(c) PROVE \A i \in 0..N : c[i] \in Seq(S)
  <2> DEFINE Bad == {k \in 0..N : c[k] \notin Seq(S)}
  <2> SUFFICES ASSUME Bad # {} PROVE FALSE
    BY DEF Bad
  <2>0. Bad \in SUBSET Nat
    BY <1>0 DEF Bad
  <2>1. PICK m \in Bad : \A k \in Bad : m <= k
    BY <2>0, LeastNat
  <2>2. m \in 0..N /\ c[m] \notin Seq(S)
    BY <2>1 DEF Bad
  <2>3. c[m] = Step(c, m)
    BY <1>4, <2>2 DEF Body
  <2>4. CASE m = 0
    BY <2>2, <2>3, <2>4 DEF Step
  <2>5. CASE m # 0
    <3>1. m - 1 \in 0..N
      BY <2>2, <2>5
    <3>2. c[m - 1] \in Seq(S)
      BY <3>1, <2>1, <2>2 DEF Bad
    <3>. QED  BY <3>2, <2>2, <2>3, <2>5 DEF Step
  <2>. QED  BY <2>4, <2>5
<1>5. Concat(ss) = (CHOOSE c : c = Body(c))[N]
  BY DEF Concat, Body, Step
<1>6. (CHOOSE c : c = Body(c)) = Body(CHOOSE c : c = Body(c))
  BY <1>3
<1>7. N \in 0..N
  BY <1>0
<1>. QED  BY <1>7, <1>4, <1>5, <1>6, Zenon

(***************************************************************************)
(* The values a codec call can put on the stream.  ^ is opaque to the      *)
(* provers, so a digit of write_fixed is not known to be an integer; it is *)
(* a digit of one of the arguments the writer passes to write_fixed.       *)
(***************************************************************************)
FixedArgs == (UNION {PrimVals(t) : t \in Prims}) \cup {n % Mod(4) : n \in Nat}
ByteVals == Int \cup {(x \div ByteBase ^ j) % ByteBase : x \in FixedArgs, j \in Nat}

\* write_fixed emits n bytes.
LEMMA WriteFixedType ==
  ASSUME NEW x \in FixedArgs, NEW n \in Nat
  PROVE  write_fixed(x, n) \in Seq(ByteVals)
<1>1. \A i \in 1..n : (x \div ByteBase ^ (i - 1)) % ByteBase \in ByteVals
  BY DEF ByteVals
<1>. QED  BY <1>1 DEF write_fixed

\* Every primitive write emits a finite byte sequence.
LEMMA EncPrimType ==
  ASSUME NEW t \in Prims, NEW v \in PrimVals(t)
  PROVE  EncPrim(t, v) \in Seq(ByteVals)
<1>0. ByteBase \in Nat \ {0}
  BY CodecAssumption
<1>1. CASE t = "bool"
  <2>1. EncPrim(t, v) = write_bool(v)
    BY <1>1 DEF EncPrim, Blob
  <2>2. write_bool(v) \in Seq(Int)
    BY DEF write_bool
  <2>3. Int \subseteq ByteVals
    BY DEF ByteVals
  <2>. QED  BY <2>1, <2>2, <2>3
<1>2. CASE t \in Blob /\ t # "bool"
  <2>1. PICK l \in BlobLens : v = [i \in 1..l |-> i % ByteBase]
    BY <1>2 DEF PrimVals, Blob, Signed
  <2>2. l \in Nat
    BY <2>1, CodecAssumption
  <2>3. v \in Seq(Int)
    BY <1>0, <2>1, <2>2
  <2>4. Len(v) % Mod(4) \in FixedArgs
    <3>1. Len(v) \in Nat
      BY <2>3
    <3>. QED  BY <3>1 DEF FixedArgs
  <2>5. write_fixed(Len(v) % Mod(4), 4) \in Seq(ByteVals)
    BY <2>4, WriteFixedType
  <2>6. Int \subseteq ByteVals
    BY DEF ByteVals
  <2>. QED  BY <1>2, <2>3, <2>5, <2>6 DEF EncPrim, write_blob, Blob
<1>3. CASE t \notin Blob /\ t # "bool"
  <2>1. Width[t] \in Nat
    BY <1>3 DEF Prims, Blob, Width
  <2>2. v \in FixedArgs
    BY DEF FixedArgs
  <2>. QED  BY <1>3, <2>1, <2>2, WriteFixedType DEF EncPrim
<1>. QED  BY <1>1, <1>2, <1>3

\* Every field write (write_T's call for one field) emits a finite byte
\* sequence.
LEMMA EncType ==
  ASSUME NEW k \in Kinds, NEW v \in Vals(k)
  PROVE  Enc(k, v) \in Seq(ByteVals)
<1>0. k.t \in Prims /\ k.c \in {"one", "opt", "vec"}
  BY DEF Kinds
<1>1. CASE k.c = "one"
  BY <1>0, <1>1, EncPrimType DEF Enc, Vals
<1>2. CASE k.c = "opt"
  <2>1. v = <<>> \/ \E w \in PrimVals(k.t) : v = <<w>>
    BY <1>2 DEF Vals
  <2>2. CASE v = <<>>
    BY <1>2, <2>2 DEF Enc, write_optional, ByteVals
  <2>3. CASE v # <<>>
    <3>1. PICK w \in PrimVals(k.t) : v = <<w>>
      BY <2>1, <2>3
    <3>2. EncPrim(k.t, w) \in Seq(ByteVals)
      BY <1>0, <3>1, EncPrimType
    <3>3. <<1>> \in Seq(ByteVals)
      BY DEF ByteVals
    <3>. QED  BY <1>2, <3>1, <3>2, <3>3 DEF Enc, write_optional
  <2>. QED  BY <2>2, <2>3
<1>3. CASE k.c = "vec"
  <2>1. PICK l \in VecLens : v \in [1..l -> PrimVals(k.t)]
    BY <1>3 DEF Vals
  <2>2. l \in Nat
    BY CodecAssumption
  <2>3. Len(v) = l
    BY <2>1, <2>2
  <2>4. [i \in 1..Len(v) |-> EncPrim(k.t, v[i])] \in Seq(Seq(ByteVals))
    BY <1>0, <2>1, <2>2, <2>3, EncPrimType
  <2>5. Concat([i \in 1..Len(v) |-> EncPrim(k.t, v[i])]) \in Seq(ByteVals)
    BY <2>4, ConcatType
  <2>6. write_fixed(Len(v) % Mod(4), 4) \in Seq(ByteVals)
    <3>1. Len(v) % Mod(4) \in FixedArgs
      BY <2>2, <2>3 DEF FixedArgs
    <3>. QED  BY <3>1, WriteFixedType
  <2>. QED  BY <1>3, <2>5, <2>6 DEF Enc, write_vector
<1>. QED  BY <1>0, <1>1, <1>2, <1>3


(***************************************************************************)
(* WriterFlushes is inductive once the stream and the vector are known to  *)
(* be finite sequences (so that appending to the stream keeps its prefix)  *)
(* and the values written so far a sequence (so that the next field of    *)
(* the schema is a field kind).                                            *)
(***************************************************************************)
WriterInv ==
    /\ out \in Seq(ByteVals)
    /\ vec \in Seq(ByteVals)
    /\ written \in Seq(UNION {Vals(k) : k \in Kinds})
    /\ WriterFlushes

\* Nothing is written, flushed or read before the writer is constructed.
LEMMA InitWriterInv == Init => WriterInv
BY DEF Init, WriterInv, WriterFlushes, IsPrefix

\* write_T's call for one field appends to the stream and leaves the
\* caller's vector alone, so the vector stays a prefix of the stream.
LEMMA WriteFieldWriterInv ==
  ASSUME WriterInv, NEW v, WriteField(v)
  PROVE  WriterInv'
<1>0. Schema \in Seq(Kinds)
  BY CodecAssumption
<1>1. Len(written) + 1 \in 1..Len(Schema)
  BY <1>0 DEF WriterInv, WriteField
<1>2. Schema[Len(written) + 1] \in Kinds
  BY <1>0, <1>1
<1>3. Enc(Schema[Len(written) + 1], v) \in Seq(ByteVals)
  BY <1>2, EncType DEF WriteField
<1>4. written' \in Seq(UNION {Vals(k) : k \in Kinds})
  BY <1>2 DEF WriterInv, WriteField
<1>5. out' \in Seq(ByteVals)
  BY <1>3 DEF WriterInv, WriteField
<1>6. IsPrefix(vec, out)'
  BY <1>3 DEF WriterInv, WriteField, WriterFlushes, IsPrefix
<1>. QED  BY <1>4, <1>5, <1>6 DEF WriterInv, WriteField, WriterFlushes

\* flush() and the destructor copy the whole stream into the vector.
LEMMA CopyWriterInv ==
  ASSUME WriterInv, Flush \/ Destroy
  PROVE  WriterInv'
BY DEF WriterInv, Flush, Destroy, WriterFlushes, IsPrefix

\* Every step of a session, a reader on a corrupt input included, keeps
\* WriterInv.
LEMMA WriterInvStep ==
  ASSUME WriterInv, [NextCorrupt]_vars
  PROVE  WriterInv'
<1>1. CASE \E v \in Vals(Schema[Len(written) + 1]) : WriteField(v)
  BY <1>1, WriteFieldWriterInv
<1>2. CASE Flush \/ Destroy
  BY <1>2, CopyWriterInv
<1>3. CASE (\E m \in 0..Len(vec) : OpenReader(m)) \/ ReadField
          \/ (\E bs \in CorruptInputs : OpenCorrupt(bs)) \/ UNCHANGED vars
  BY <1>3 DEF OpenReader, ReadField, OpenCorrupt, vars, WriterInv,
              WriterFlushes, IsPrefix
<1>. QED  BY <1>1, <1>2, <1>3 DEF NextCorrupt, Next

\* The caller's vector holds a prefix of what the writer was given, and all
\* of it once the writer is destroyed, in every session (Spec) for every
\* byte base, schema and value set.
THEOREM WriterFlushesHolds == Spec => []WriterFlushes
<1>1. [Next]_vars => [NextCorrupt]_vars
  BY DEF NextCorrupt
<1>2. WriterInv /\ [Next]_vars => WriterInv'
  BY <1>1, WriterInvStep
<1>3. WriterInv => WriterFlushes
  BY DEF WriterInv
<1>. QED  BY <1>2, <1>3, InitWriterInv, PTL DEF Spec

\* The same for a session whose reader may be handed a corrupt input.
THEOREM WriterFlushesCorrupt == SpecCorrupt => []WriterFlushes
<1>1. WriterInv => WriterFlushes
  BY DEF WriterInv
<1>. QED  BY <1>1, WriterInvStep, InitWriterInv, PTL DEF SpecCorrupt

=============================================================================
