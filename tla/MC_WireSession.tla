--------------------------- MODULE MC_WireSession ---------------------------
(* A message with a field of every shape: a signed 8-byte integer, an     *)
(* optional unsigned, a vector of strings (elements of varying width), a   *)
(* bool, and a string last, so that a blob ends exactly at the end of the  *)
(* buffer.  Bytes are base 4: a u16 ranges over 0..15, a u32 length prefix *)
(* over 0..255, an i64 over -32768..32767.                                 *)
EXTENDS WireSession

MCSchema ==
    << [c |-> "one", t |-> "i64"],
       [c |-> "opt", t |-> "u16"],
       [c |-> "vec", t |-> "string"],
       [c |-> "one", t |-> "bool"],
       [c |-> "one", t |-> "string"] >>

(* A string followed by a byte, for a string whose length does not fit the *)
(* u32 prefix: with base-2 bytes the prefix ranges over 0..15, so a        *)
(* 16-byte string plays the part of a 2^32-byte one.                       *)
MCWrapSchema ==
    << [c |-> "one", t |-> "string"],
       [c |-> "one", t |-> "u8"] >>

(* A vector of u64, read from a corrupt input whose count prefix is the    *)
(* largest u32: reserve() then asks for count * 8 bytes.                   *)
MCVectorSchema ==
    << [c |-> "vec", t |-> "u64"] >>

MCCorruptInputs == {<<3, 3, 3, 3, 0>>}

=============================================================================
