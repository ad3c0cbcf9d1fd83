------------------------------ MODULE WireCodec ------------------------------
(***************************************************************************)
(* polygen::BinaryWriter and polygen::BinaryReader (polygen_support.hpp):   *)
(* a generated write_T encodes one message field by field into a writer    *)
(* over a std::vector<uint8_t>, the writer copies its stream into the      *)
(* vector on flush() and in its destructor, and a generated read_T decodes *)
(* the fields in the same order from a reader constructed on a copy of     *)
(* (a prefix of) that vector.                                              *)
(*                                                                         *)
(* Bytes are digits in base ByteBase (256 in the code; smaller for TLC);   *)
(* an N-byte integer is N such digits, little-endian, two's complement for *)
(* signed kinds, so each width keeps its boundaries (max, min, -1).  A     *)
(* float is carried as its raw bit pattern, an enum as its i32 value.      *)
(***************************************************************************)
EXTENDS Integers, Sequences

CONSTANTS
    ByteBase,   \* values of one byte: 0..ByteBase-1
    BlobLens,   \* lengths of the strings / byte blobs a message may carry
    VecLens,    \* lengths of the vectors a message may carry
    MemLimit,   \* largest allocation (in bytes) that is sure to succeed
    Schema      \* the field kinds of the message, in declared order

Prims == {"u8", "u16", "u32", "u64", "i8", "i16", "i32", "i64",
          "f32", "f64", "bool", "string", "bytes", "enum"}
Kinds == [c : {"one", "opt", "vec"}, t : Prims]

ASSUME CodecAssumption ==
    /\ ByteBase \in Nat /\ ByteBase >= 2 /\ ByteBase % 2 = 0
    /\ BlobLens \subseteq Nat /\ VecLens \subseteq Nat
    /\ MemLimit \in Nat
    /\ Schema \in Seq(Kinds)

Width == [u8 |-> 1, i8 |-> 1, bool |-> 1, u16 |-> 2, i16 |-> 2,
          u32 |-> 4, i32 |-> 4, f32 |-> 4, enum |-> 4,
          u64 |-> 8, i64 |-> 8, f64 |-> 8]
Signed == {"i8", "i16", "i32", "i64", "enum"}
Blob == {"string", "bytes"}
\* sizeof(T) of a vector element on LP64 libstdc++ (for reserve()).
SizeOf(t) == IF t = "string" THEN 32 ELSE IF t = "bytes" THEN 24 ELSE Width[t]

Mod(n) == ByteBase ^ n

\* Boundary values of each kind: 0, 1 and max unsigned; min, -1 and max
\* signed; a blob of each length in BlobLens.
PrimVals(t) ==
    CASE t = "bool" -> BOOLEAN
      [] t \in Blob -> {[i \in 1..l |-> i % ByteBase] : l \in BlobLens}
      [] t \in Signed -> {-(Mod(Width[t]) \div 2), -1, Mod(Width[t]) \div 2 - 1}
      [] OTHER -> {0, 1, Mod(Width[t]) - 1}

\* std::optional<T> as a sequence of length 0 or 1; std::vector<T> as a sequence.
Vals(k) ==
    CASE k.c = "one" -> PrimVals(k.t)
      [] k.c = "opt" -> {<<>>} \cup {<<v>> : v \in PrimVals(k.t)}
      [] k.c = "vec" -> UNION {[1..l -> PrimVals(k.t)] : l \in VecLens}

-----------------------------------------------------------------------------
(* Encoding (BinaryWriter) *)

\* write_u8..write_u64, write_i8..write_i64, write_f32/f64, write_enum:
\* the value's bytes, least significant first (native_to_le on a
\* little-endian host); a negative value is written as its unsigned cast.
write_fixed(v, n) == [i \in 1..n |-> (v \div ByteBase ^ (i - 1)) % ByteBase]

\* write_bool: 1 for true, 0 for false.
write_bool(v) == <<IF v THEN 1 ELSE 0>>

\* write_string / write_bytes: static_cast<uint32_t>(size()), then the bytes.
write_blob(v) == write_fixed(Len(v) % Mod(4), 4) \o v

EncPrim(t, v) ==
    CASE t = "bool" -> write_bool(v)
      [] t \in Blob -> write_blob(v)
      [] OTHER -> write_fixed(v, Width[t])

\* write_optional: flag 1 then the value, or flag 0.
write_optional(t, v) == IF v = <<>> THEN <<0>> ELSE <<1>> \o EncPrim(t, v[1])

\* The writer's loop over the items: the bytes of each item appended to
\* the stream after those of the items before it.
Concat(ss) ==
    LET c[i \in 0..Len(ss)] == IF i = 0 THEN <<>> ELSE c[i - 1] \o ss[i]
    IN  c[Len(ss)]

\* write_vector: static_cast<uint32_t>(size()), then every item in order.
write_vector(t, v) ==
    write_fixed(Len(v) % Mod(4), 4) \o Concat([i \in 1..Len(v) |-> EncPrim(t, v[i])])

Enc(k, v) ==
    CASE k.c = "one" -> EncPrim(k.t, v)
      [] k.c = "opt" -> write_optional(k.t, v)
      [] k.c = "vec" -> write_vector(k.t, v)

-----------------------------------------------------------------------------
(* Decoding (BinaryReader).  A read from buf at offset p yields the set of *)
(* its possible outcomes [err, val, pos]: err is "none", "truncated" (the   *)
(* std::runtime_error of check_read) or "bad_alloc" (an allocation that    *)
(* failed); a short istream read consumes what is left.                    *)

Ok(v, q) == [err |-> "none", val |-> v, pos |-> q]
Truncated(buf) == [err |-> "truncated", val |-> <<>>, pos |-> Len(buf)]
BadAlloc(q) == [err |-> "bad_alloc", val |-> <<>>, pos |-> q]

\* The bytes as an unsigned number, least significant first.
FromLE(bs) ==
    LET u[i \in 0..Len(bs)] == IF i = 0 THEN 0 ELSE u[i - 1] + bs[i] * ByteBase ^ (i - 1)
    IN  u[Len(bs)]

\* Faulty variant kept for mutation testing: the signed reads return the
\* unsigned value (the static_cast<intN_t> is missing).
read_fixed_unsigned(buf, p, t) ==
    IF p + Width[t] > Len(buf) THEN Truncated(buf)
    ELSE Ok(FromLE(SubSeq(buf, p + 1, p + Width[t])), p + Width[t])

\* read_u8..read_u64 (stream read + check_read + le_to_native), and the
\* static_cast<intN_t> of read_i8..read_i64 / read_enum.
read_fixed(buf, p, t) ==
    IF p + Width[t] > Len(buf) THEN Truncated(buf)
    ELSE LET u == FromLE(SubSeq(buf, p + 1, p + Width[t]))
         IN  Ok(IF t \in Signed /\ u >= Mod(Width[t]) \div 2
                  THEN u - Mod(Width[t]) ELSE u,
                p + Width[t])

\* read_bool: any nonzero byte is true.
read_bool(buf, p) ==
    LET b == read_fixed(buf, p, "u8")
    IN  IF b.err # "none" THEN b ELSE Ok(b.val # 0, b.pos)

\* An allocation of n bytes: above MemLimit it may throw std::bad_alloc.
MayFail(n, q) == IF n > MemLimit THEN {BadAlloc(q)} ELSE {}

\* Faulty variant kept for mutation testing: the payload check is off by
\* one and rejects a payload that ends exactly at the end of the input.
read_blob_off_by_one(buf, p) ==
    LET h == read_fixed(buf, p, "u32")
    IN  IF h.err # "none" THEN {h}
        ELSE IF h.val = 0 THEN {Ok(<<>>, h.pos)}
        ELSE MayFail(h.val, h.pos) \cup
             {IF h.pos + h.val >= Len(buf) THEN Truncated(buf)
              ELSE Ok(SubSeq(buf, h.pos + 1, h.pos + h.val), h.pos + h.val)}

\* read_string / read_bytes: the u32 length; zero returns the empty value;
\* otherwise the len-byte buffer is allocated, then read and checked.
read_blob(buf, p) ==
    LET h == read_fixed(buf, p, "u32")
    IN  IF h.err # "none" THEN {h}
        ELSE IF h.val = 0 THEN {Ok(<<>>, h.pos)}
        ELSE MayFail(h.val, h.pos) \cup
             {IF h.pos + h.val > Len(buf) THEN Truncated(buf)
              ELSE Ok(SubSeq(buf, h.pos + 1, h.pos + h.val), h.pos + h.val)}

ReadPrim(buf, p, t) ==
    CASE t = "bool" -> {read_bool(buf, p)}
      [] t \in Blob -> read_blob(buf, p)
      [] OTHER -> {read_fixed(buf, p, t)}

\* read_optional: flag 0 is absent, any other flag reads the value.
read_optional(buf, p, t) ==
    LET f == read_fixed(buf, p, "u8")
    IN  IF f.err # "none" THEN {f}
        ELSE IF f.val = 0 THEN {Ok(<<>>, f.pos)}
        ELSE {IF r.err = "none" THEN Ok(<<r.val>>, r.pos) ELSE r : r \in ReadPrim(buf, f.pos, t)}

\* read_vector: the u32 count, reserve(count), then count reads in order.
\* Every read consumes at least one byte, so after Len(buf) - pos + 1 reads
\* the loop has certainly hit the truncated-input error; stopping the
\* recursion there yields the same outcomes as running all count reads.
read_vector(buf, p, t) ==
    LET h == read_fixed(buf, p, "u32")
        n == IF h.val > Len(buf) - h.pos + 1 THEN Len(buf) - h.pos + 1 ELSE h.val
        step[i \in 0..n] ==
            IF i = 0 THEN {Ok(<<>>, h.pos)}
            ELSE UNION {IF s.err # "none" THEN {s}
                        ELSE {IF r.err = "none" THEN Ok(Append(s.val, r.val), r.pos) ELSE r
                              : r \in ReadPrim(buf, s.pos, t)}
                        : s \in step[i - 1]}
    IN  IF h.err # "none" THEN {h}
        ELSE MayFail(h.val * SizeOf(t), h.pos) \cup step[n]

Dec(k, buf, p) ==
    CASE k.c = "one" -> ReadPrim(buf, p, k.t)
      [] k.c = "opt" -> read_optional(buf, p, k.t)
      [] k.c = "vec" -> read_vector(buf, p, k.t)

=============================================================================
