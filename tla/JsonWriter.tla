----------------------------- MODULE JsonWriter -----------------------------
EXTENDS JsonParser, SequencesExt

(***************************************************************************)
(* The reference: a writer of well-formed JSON (", " and ": " between     *)
(* tokens, keys of an object in a fixed order) whose output parse() must  *)
(* read back as the value written.                                        *)
(***************************************************************************)
Esc(c) == CASE c = Quote  -> <<Bslash, Quote>>
            [] c = Bslash -> <<Bslash, Bslash>>
            [] c = LF     -> <<Bslash, "n">>
            [] OTHER      -> <<c>>

Joined(parts) ==
    FlattenSeq([i \in 1..Len(parts) |-> (IF i > 1 THEN <<",", Ws>> ELSE <<>>) \o parts[i]])

RenderStr(s) == <<Quote>> \o FlattenSeq([i \in 1..Len(s) |-> Esc(s[i])]) \o <<Quote>>

RECURSIVE Serialize(_)
Serialize(v) ==
    CASE v.t = "null" -> <<"null">>
      [] v.t = "bool" -> <<IF v.b THEN "true" ELSE "false">>
      [] v.t = "num"  -> (IF v.neg THEN <<"-">> ELSE <<>>) \o [i \in 1..v.digits |-> "d"]
      [] v.t = "str"  -> RenderStr(v.s)
      [] v.t = "arr"  -> <<"[">> \o Joined([i \in 1..Len(v.items) |-> Serialize(v.items[i])]) \o <<"]">>
      [] v.t = "obj"  ->
            LET ks == SetToSeq(DOMAIN v.fields)
            IN  <<"{">> \o Joined([i \in 1..Len(ks) |->
                               RenderStr(ks[i]) \o <<":", Ws>> \o Serialize(v.fields[ks[i]])])
                \o <<"}">>

=============================================================================
