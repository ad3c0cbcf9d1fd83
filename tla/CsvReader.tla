----------------------------- MODULE CsvReader -----------------------------
(***************************************************************************)
(* CsvReader from polygen_support.hpp, driven the way a loader drives it: *)
(* the constructor reads the header line, then next() is called until it *)
(* returns false, and after each true the row is read with get(column).  *)
(* The stream is a sequence of characters over a small alphabet: Quote,   *)
(* the delimiter, LF (the line end std::getline splits on) and letters.   *)
(* Column indexes are 0-based as in the code.                              *)
(***************************************************************************)
EXTENDS Integers, Sequences, SequencesExt, CsvHeader

CONSTANTS Tables,  \* tables (header row first) written to the stream
          Delim    \* the delimiter character passed to the constructor

Quote == "q"
LF == "LF"

VARIABLES src, stream, headers, header_index, current_values, more, nread
vars == <<src, stream, headers, header_index, current_values, more, nread>>

(***************************************************************************)
(* The reference: a CSV writer that quotes a field holding a quote, the   *)
(* delimiter or a line end, doubles the quotes inside it, and ends every  *)
(* line with LF.                                                          *)
(***************************************************************************)
WriteField(f) ==
    IF \E i \in 1..Len(f) : f[i] \in {Quote, Delim, LF}
    THEN <<Quote>> \o FlattenSeq([i \in 1..Len(f) |->
                         IF f[i] = Quote THEN <<Quote, Quote>> ELSE <<f[i]>>]) \o <<Quote>>
    ELSE f

WriteLine(r) ==
    FlattenSeq([i \in 1..Len(r) |-> (IF i > 1 THEN <<Delim>> ELSE <<>>) \o WriteField(r[i])])
    \o <<LF>>

WriteCsv(t) == FlattenSeq([i \in 1..Len(t) |-> WriteLine(t[i])])

\* std::getline(stream_, line): fails on an exhausted stream; otherwise
\* the characters up to the first LF (or to the end), consuming the LF.
getline(s) ==
    IF s = <<>> THEN [ok |-> FALSE, line |-> <<>>, rest |-> s]
    ELSE LET ends == {i \in 1..Len(s) : s[i] = LF}
             e == IF ends = {} THEN Len(s) + 1
                  ELSE CHOOSE i \in ends : \A j \in ends : i <= j
         IN  [ok |-> TRUE, line |-> SubSeq(s, 1, e - 1),
              rest |-> SubSeq(s, e + 1, Len(s))]

\* Faulty variant kept for mutation testing: every quote toggles quoting,
\* so a doubled quote inside a quoted field is lost.
RECURSIVE SplitNoEscape(_, _, _, _, _)
SplitNoEscape(line, i, res, cur, inq) ==
    IF i > Len(line) THEN Append(res, cur)
    ELSE IF line[i] = Quote THEN SplitNoEscape(line, i + 1, res, cur, ~inq)
    ELSE IF line[i] = Delim /\ ~inq
         THEN SplitNoEscape(line, i + 1, Append(res, cur), <<>>, inq)
         ELSE SplitNoEscape(line, i + 1, res, Append(cur, line[i]), inq)

\* parse_line: a quote toggles in_quotes, except that inside quotes a
\* doubled quote is one literal quote; an unquoted delimiter ends the
\* field; every other character is copied.  The last field is pushed
\* after the loop.
RECURSIVE Split(_, _, _, _, _)
Split(line, i, res, cur, inq) ==
    IF i > Len(line) THEN Append(res, cur)
    ELSE IF line[i] = Quote
         THEN IF inq /\ i + 1 <= Len(line) /\ line[i + 1] = Quote
              THEN Split(line, i + 2, res, Append(cur, Quote), inq)
              ELSE Split(line, i + 1, res, cur, ~inq)
    ELSE IF line[i] = Delim /\ ~inq
         THEN Split(line, i + 1, Append(res, cur), <<>>, inq)
         ELSE Split(line, i + 1, res, Append(cur, line[i]), inq)

parse_line(line) == Split(line, 1, <<>>, <<>>, FALSE)

\* get(column): "" for an unknown column or one past the current row.
get(column) ==
    IF column \notin DOMAIN header_index THEN <<>>
    ELSE IF header_index[column] >= Len(current_values) THEN <<>>
    ELSE current_values[header_index[column] + 1]

\* The stream holds what the writer wrote; the constructor reads the header.
Init ==
    \E t \in Tables :
        LET g == getline(WriteCsv(t))
        IN  /\ src = t
            /\ stream = g.rest
            /\ headers = IF g.ok THEN parse_line(g.line) ELSE <<>>
            /\ header_index = IndexOf(headers)
            /\ current_values = <<>>
            /\ more = TRUE
            /\ nread = 0

\* next(): getline and parse_line on success; false at the end of the stream.
next ==
    LET g == getline(stream)
    IN  /\ more
        /\ stream' = g.rest
        /\ more' = g.ok
        /\ IF g.ok
           THEN current_values' = parse_line(g.line) /\ nread' = nread + 1
           ELSE UNCHANGED <<current_values, nread>>
        /\ UNCHANGED <<src, headers, header_index>>

\* The loader calls next() until it returns false.
Spec == Init /\ [][next]_vars

\* A loader reads back the table that was written: the header row, then
\* after each next() that returned true get(name) of every column is the
\* field written there, and next() returns false exactly after the last row.
RowsReadBack ==
    /\ headers = src[1]
    /\ more /\ nread > 0 =>
           nread < Len(src) /\ \A i \in 1..Len(headers) : get(headers[i]) = src[nread + 1][i]
    /\ ~more => nread = Len(src) - 1

=============================================================================
