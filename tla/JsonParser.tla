---------------------------- MODULE JsonParser ----------------------------
(***************************************************************************)
(* JsonParser::parse from polygen_support.hpp.  The recursive descent of  *)
(* parse_value / parse_array / parse_object becomes an explicit stack of  *)
(* frames, so that every turn of the loops of parse_array and             *)
(* parse_object is one step.  parse_string, parse_number, parse_bool,     *)
(* parse_null and skip_whitespace contain no calls back into the parser   *)
(* and are operators over the text.                                       *)
(*                                                                         *)
(* The text is a sequence over an abstract alphabet: the structural       *)
(* characters, Quote, Bslash, Ws (any isspace character), "d" (a digit),  *)
(* "-", the letter "n", "x" (any other character), and the literals       *)
(* "true", "false", "null" as one symbol each (what substr(pos, 4) ==     *)
(* "true" decides).  Positions are 0-based as in the code: the character  *)
(* at pos is text[pos + 1].                                                *)
(***************************************************************************)
EXTENDS Integers, Sequences

\* The texts parse() is given, each with the value it was written from
\* (NoDoc for a text no writer produced).
CONSTANT Inputs

Quote == "q"
Bslash == "b"
Ws == "s"
LF == "LF"
LBrace == "{"
RBrace == "}"
Comma == ","
NoDoc == [t |-> "none"]

\* The abstract alphabet.
Chars == {"[", "]", LBrace, RBrace, ":", Comma, Quote, Bslash, Ws, LF, "d", "-", "n", "x",
          "true", "false", "null"}

ASSUME InputsAssumption == \A x \in Inputs : x.text \in Seq(Chars)

\* JsonValue: one record shape per Type, so equal shapes mean equal types.
Null == [t |-> "null"]
Bool(b) == [t |-> "bool", b |-> b]
Num(neg, n) == [t |-> "num", neg |-> neg, digits |-> n]
Str(s) == [t |-> "str", s |-> s]
Arr(s) == [t |-> "arr", items |-> s]
Obj(f) == [t |-> "obj", fields |-> f]

VARIABLES text, src, pos, stack, mode, ret, result
vars == <<text, src, pos, stack, mode, ret, result>>

Is(p, c) == p < Len(text) /\ text[p + 1] = c

\* The first position at or after p whose character is not in C, or the
\* end of the text (for p < Len(text)).
ScanWhile(p, C) ==
    CHOOSE q \in p..Len(text) :
        /\ \A i \in p..q - 1 : text[i + 1] \in C
        /\ (q = Len(text) \/ text[q + 1] \notin C)

\* skip_whitespace: while (pos < size && isspace(json[pos])) ++pos.
skip_whitespace(p) == IF p >= Len(text) THEN p ELSE ScanWhile(p, {Ws})

\* Faulty variant kept for mutation testing: the 'n' case of the escape
\* switch is missing, so \n reads as the letter n.
Unescape_no_newline(c) == c

\* The switch on the escaped character: \n is a line feed, any other
\* escaped character (\" \\ and the rest) stands for itself.
Unescape(c) == IF c = "n" THEN LF ELSE c

\* What a scanning function returns: the value and the position after it,
\* or that it threw.
Read(v, p) == [ok |-> TRUE, val |-> v, pos |-> p]
Throw(p) == [ok |-> FALSE, val |-> Null, pos |-> p]

\* Faulty variant kept for mutation testing: the closing quote is skipped
\* without the pos < size check, so a string that runs to the end of the
\* text leaves pos one past it.
StrFrom_close_unguarded(p) ==
    LET s[q \in Nat] ==
          IF q >= Len(text) THEN Read(<<>>, q + 1)
          ELSE IF text[q + 1] = Quote THEN Read(<<>>, q + 1)
          ELSE IF text[q + 1] = Bslash /\ q + 1 < Len(text)
               THEN [s[q + 2] EXCEPT !.val = <<Unescape(text[q + 2])>> \o @]
               ELSE [s[q + 1] EXCEPT !.val = <<text[q + 1]>> \o @]
    IN  s[p]

\* parse_string's loop from position p: copy up to the closing quote
\* resolving escapes (a backslash escapes only if a character follows
\* it), then skip the closing quote if present.  s[q] is what the loop
\* appends from q on and the position it stops at.
StrFrom(p) ==
    LET s[q \in Nat] ==
          IF q >= Len(text) THEN Read(<<>>, q)
          ELSE IF text[q + 1] = Quote THEN Read(<<>>, q + 1)
          ELSE IF text[q + 1] = Bslash /\ q + 1 < Len(text)
               THEN [s[q + 2] EXCEPT !.val = <<Unescape(text[q + 2])>> \o @]
               ELSE [s[q + 1] EXCEPT !.val = <<text[q + 1]>> \o @]
    IN  s[p]

\* parse_string: ++pos skips one character (the opening quote; at the end
\* of the text there is none, and pos passes the end by one), then the loop.
parse_string(p) == StrFrom(p + 1)

\* parse_number: an optional '-', then every digit/sign character, then
\* std::stod of that text: its value is the sign and the leading digits;
\* with no leading digit stod throws std::invalid_argument.
parse_number(p) ==
    LET s == IF Is(p, "-") THEN p + 1 ELSE p
        e == IF s >= Len(text) THEN s ELSE ScanWhile(s, {"d", "-"})
        d == IF s >= Len(text) THEN 0 ELSE ScanWhile(s, {"d"}) - s
    IN  IF d = 0 THEN Throw(p) ELSE Read(Num(Is(p, "-"), d), e)

\* parse_value for a value that is not an array or an object: what it
\* returns, or that it threw.  An unrecognised character (also a letter 'n' or
\* 't' that does not begin a literal) gives null and consumes nothing.
Scalar(p) ==
    CASE p >= Len(text)           -> Read(Null, p)
      [] Is(p, Quote)             -> [parse_string(p) EXCEPT !.val = Str(@)]
      [] Is(p, "true")            -> Read(Bool(TRUE), p + 1)
      [] Is(p, "false")           -> Read(Bool(FALSE), p + 1)
      [] Is(p, "null")            -> Read(Null, p + 1)
      [] Is(p, "d") \/ Is(p, "-") -> parse_number(p)
      [] OTHER                    -> Read(Null, p)

Init ==
    /\ \E x \in Inputs : text = x.text /\ src = x.doc
    /\ pos = 0
    /\ stack = <<>>
    /\ mode = "value"
    /\ ret = Null
    /\ result = Null

\* Hand the value v, ending at position p, back to the caller of parse_value.
Return(v, p) == /\ mode' = "ret" /\ ret' = v /\ pos' = p

\* parse_value on a scalar: skip whitespace, dispatch, return or throw.
ParseScalar ==
    LET p == skip_whitespace(pos)
        r == Scalar(p)
    IN  /\ mode = "value"
        /\ ~Is(p, "[") /\ ~Is(p, LBrace)
        /\ IF ~r.ok
           THEN mode' = "thrown" /\ UNCHANGED <<pos, ret>>
           ELSE Return(r.val, r.pos)
        /\ UNCHANGED <<text, src, stack, result>>

\* Faulty variant kept for mutation testing: `continue` on ',' without
\* the ++pos.
AfterElem_keep_comma(p, close) ==
    CASE Is(p, close) -> [pos |-> p + 1, more |-> FALSE]
      [] OTHER        -> [pos |-> p, more |-> p < Len(text)]

\* The loop condition shared by parse_array and parse_object, after an
\* element: ',' consumes and continues, the closing character consumes
\* and stops, anything else continues without consuming; the loop runs
\* while pos < size.
AfterElem(p, close) ==
    CASE Is(p, Comma) -> [pos |-> p + 1, more |-> p + 1 < Len(text)]
      [] Is(p, close) -> [pos |-> p + 1, more |-> FALSE]
      [] OTHER        -> [pos |-> p, more |-> p < Len(text)]

\* parse_array, up to the first parse_value of its loop.
OpenArray ==
    LET p == skip_whitespace(pos)
        q == skip_whitespace(p + 1)
    IN  /\ mode = "value"
        /\ Is(p, "[")
        /\ IF ~Is(q, "]") /\ q < Len(text)
           THEN /\ stack' = <<[k |-> "arr", open |-> p, items |-> <<>>]>> \o stack
                /\ pos' = q
                /\ UNCHANGED <<mode, ret>>
           ELSE /\ Return(Arr(<<>>), IF Is(q, "]") THEN q + 1 ELSE q)
                /\ UNCHANGED stack
        /\ UNCHANGED <<text, src, result>>

\* One turn of parse_array's loop after parse_value returned: push_back,
\* skip whitespace, then ',' / ']' / neither.
ArrayElem ==
    LET f == Head(stack)
        items == Append(f.items, ret)
        a == AfterElem(skip_whitespace(pos), "]")
    IN  /\ mode = "ret" /\ stack # <<>> /\ f.k = "arr"
        /\ IF a.more
           THEN /\ stack' = <<[f EXCEPT !.items = items]>> \o Tail(stack)
                /\ mode' = "value" /\ pos' = a.pos
                /\ UNCHANGED ret
           ELSE /\ stack' = Tail(stack)
                /\ Return(Arr(items), a.pos)
        /\ UNCHANGED <<text, src, result>>

EmptyObject == [x \in {} |-> Null]

\* The body of parse_object's loop from position p: skip whitespace,
\* parse_string for the key (it skips one character whatever it is), skip
\* whitespace, an optional ':', then the call parse_value for the value.
ObjectKey(p, fields, rest) ==
    LET k == parse_string(skip_whitespace(p))
        q == skip_whitespace(k.pos)
    IN  /\ stack' = <<[k |-> "obj", fields |-> fields, key |-> k.val]>> \o rest
        /\ pos' = IF Is(q, ":") THEN q + 1 ELSE q
        /\ mode' = "value"
        /\ UNCHANGED ret

\* parse_object, up to the first parse_value of its loop.
OpenObject ==
    LET p == skip_whitespace(pos)
        q == skip_whitespace(p + 1)
    IN  /\ mode = "value"
        /\ Is(p, LBrace)
        /\ IF ~Is(q, RBrace) /\ q < Len(text)
           THEN ObjectKey(q, EmptyObject, stack)
           ELSE /\ Return(Obj(EmptyObject), IF Is(q, RBrace) THEN q + 1 ELSE q)
                /\ UNCHANGED stack
        /\ UNCHANGED <<text, src, result>>

\* One turn of parse_object's loop after parse_value returned:
\* obj[key] = value (std::map: a repeated key overwrites), skip
\* whitespace, then ',' / '}' / neither.
ObjectField ==
    LET f == Head(stack)
        fields == [x \in DOMAIN f.fields \cup {f.key} |->
                      IF x = f.key THEN ret ELSE f.fields[x]]
        a == AfterElem(skip_whitespace(pos), RBrace)
    IN  /\ mode = "ret" /\ stack # <<>> /\ f.k = "obj"
        /\ IF a.more
           THEN ObjectKey(a.pos, fields, Tail(stack))
           ELSE /\ stack' = Tail(stack)
                /\ Return(Obj(fields), a.pos)
        /\ UNCHANGED <<text, src, result>>

\* parse() returns the value of the outermost parse_value.
Finish ==
    /\ mode = "ret" /\ stack = <<>>
    /\ mode' = "done" /\ result' = ret
    /\ UNCHANGED <<text, src, pos, stack, ret>>

Next == ParseScalar \/ OpenArray \/ ArrayElem \/ OpenObject \/ ObjectField \/ Finish

Spec == Init /\ [][Next]_vars

\* The type invariant, with the bound on pos: it passes the end of the
\* text by at most one, and only by parse_string's ++pos of an opening
\* quote that is not there (an object key at the end of the text); every
\* read of json[pos] is guarded by pos < size.
TypeOK ==
    /\ pos \in 0..Len(text) + 1
    /\ mode \in {"value", "ret", "done", "thrown"}
    /\ \A i \in 1..Len(stack) : stack[i].k \in {"arr", "obj"}

\* parse() of what a JSON writer produced returns the value written:
\* escapes resolved, numbers read by stod, repeated parse_object turns
\* collecting every key.
RoundTrip == (mode = "done" /\ src # NoDoc) => result = src

\* Every element parse_array holds took at least one character of the
\* text since its '[': a turn of the loop that consumes nothing repeats
\* forever, so this is what makes the array loop finite.
ArrayProgress ==
    \A i \in 1..Len(stack) :
        stack[i].k = "arr" => Len(stack[i].items) < pos - stack[i].open

=============================================================================
