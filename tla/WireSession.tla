----------------------------- MODULE WireSession -----------------------------
(***************************************************************************)
(* One message written and read back, as tests/01, 06 and 09 do it:        *)
(*   { BinaryWriter writer(buffer); write_T(writer, original); }           *)
(*   { BinaryReader reader(buffer); loaded = read_T(reader); }             *)
(* The writer may also be flushed explicitly, the reader may be built      *)
(* while the writer is still alive, and it may be given a truncated copy   *)
(* of the buffer (a short file).  write_T / read_T are generated code (not *)
(* under src/): they call one codec operation per field in declared order. *)
(***************************************************************************)
EXTENDS WireCodec

VARIABLES
    out,        \* the writer's ostringstream contents
    vec,        \* the caller's std::vector<uint8_t> buffer
    alive,      \* the writer has not been destroyed yet
    written,    \* the field values passed to the writer so far
    ropen,      \* a reader has been constructed
    buf,        \* the bytes of the reader's istringstream
    pos,        \* how many of them it has consumed
    decoded,    \* the field values read so far
    rerr        \* "none", or the error the last read threw

vars == <<out, vec, alive, written, ropen, buf, pos, decoded, rerr>>

Init ==
    /\ out = <<>>
    /\ vec = <<>>
    /\ alive = TRUE
    /\ written = <<>>
    /\ ropen = FALSE
    /\ buf = <<>>
    /\ pos = 0
    /\ decoded = <<>>
    /\ rerr = "none"

\* write_T, one field: the codec call for the next field of the schema.
WriteField(v) ==
    /\ alive
    /\ Len(written) < Len(Schema)
    /\ v \in Vals(Schema[Len(written) + 1])
    /\ out' = out \o Enc(Schema[Len(written) + 1], v)
    /\ written' = Append(written, v)
    /\ UNCHANGED <<vec, alive, ropen, buf, pos, decoded, rerr>>

\* Faulty variant kept for mutation testing: flush() appends the stream to
\* the vector instead of replacing its contents.
FlushAppend ==
    /\ alive
    /\ vec' = vec \o out
    /\ UNCHANGED <<out, alive, written, ropen, buf, pos, decoded, rerr>>

\* flush(): vec_->assign(str.begin(), str.end()).
Flush ==
    /\ alive
    /\ vec' = out
    /\ UNCHANGED <<out, alive, written, ropen, buf, pos, decoded, rerr>>

\* ~BinaryWriter(): flush(), then the writer is gone.
Destroy ==
    /\ alive
    /\ vec' = out
    /\ alive' = FALSE
    /\ UNCHANGED <<out, written, ropen, buf, pos, decoded, rerr>>

\* BinaryReader(const std::vector<uint8_t>&): copies the vector (or the
\* first m bytes of it, when the stored message was cut short).
OpenReader(m) ==
    /\ ~ropen
    /\ m \in 0..Len(vec)
    /\ ropen' = TRUE
    /\ buf' = SubSeq(vec, 1, m)
    /\ UNCHANGED <<out, vec, alive, written, pos, decoded, rerr>>

\* read_T, one field: the codec call for the next field; an exception
\* ends the decode.
ReadField ==
    /\ ropen
    /\ rerr = "none"
    /\ Len(decoded) < Len(Schema)
    /\ \E r \in Dec(Schema[Len(decoded) + 1], buf, pos) :
          /\ pos' = r.pos
          /\ IF r.err = "none"
               THEN decoded' = Append(decoded, r.val) /\ UNCHANGED rerr
               ELSE rerr' = r.err /\ UNCHANGED decoded
    /\ UNCHANGED <<out, vec, alive, written, ropen, buf>>

Next ==
    \/ /\ Len(written) < Len(Schema)
       /\ \E v \in Vals(Schema[Len(written) + 1]) : WriteField(v)
    \/ Flush
    \/ Destroy
    \/ \E m \in 0..Len(vec) : OpenReader(m)
    \/ ReadField

Spec == Init /\ [][Next]_vars

\* A reader handed arbitrary bytes (a corrupt file) instead of the buffer.
OpenCorrupt(bs) ==
    /\ ~ropen
    /\ ropen' = TRUE
    /\ buf' = bs
    /\ UNCHANGED <<out, vec, alive, written, pos, decoded, rerr>>

CONSTANT CorruptInputs

NextCorrupt ==
    \/ Next
    \/ \E bs \in CorruptInputs : OpenCorrupt(bs)

SpecCorrupt == Init /\ [][NextCorrupt]_vars

-----------------------------------------------------------------------------
(* Properties *)

\* Round trip: whatever read_T has decoded without an exception are the
\* values write_T was given, in order, and a decode of every field has
\* consumed the reader's input exactly.  Holds for readers built before
\* the writer's last flush and on cut-short copies, too.
DecodeSound ==
    rerr = "none" =>
        /\ decoded = SubSeq(written, 1, Len(decoded))
        /\ Len(decoded) = Len(Schema) => pos = Len(buf)

\* A decode fails only with the truncated-input error, and only when its
\* input is not the whole message: a reader on the flushed buffer of a
\* complete message never throws.
DecodeFailsOnlyWhenTruncated ==
    rerr # "none" =>
        /\ rerr = "truncated"
        /\ ~(buf = out /\ Len(written) = Len(Schema))

\* s is a prefix of t.
IsPrefix(s, t) == Len(s) <= Len(t) /\ SubSeq(t, 1, Len(s)) = s

\* The caller's vector always holds a prefix of what was written, and all
\* of it once the writer is destroyed, however often flush() was called.
WriterFlushes ==
    /\ IsPrefix(vec, out)
    /\ ~alive => vec = out

=============================================================================
