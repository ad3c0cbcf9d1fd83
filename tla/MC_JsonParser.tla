--------------------------- MODULE MC_JsonParser ---------------------------
EXTENDS JsonWriter, TLC

\* Values covering every kind, the three escapes, a negative number,
\* nesting of arrays in objects and of objects in objects.
MCDocs ==
    { Null, Bool(TRUE), Num(TRUE, 2), Num(FALSE, 1),
      Str(<<Quote, Bslash, LF, "x", Ws, "n">>),
      Arr(<<>>), Arr(<<Num(FALSE, 1), Str(<<"x">>), Arr(<<Null, Bool(FALSE)>>)>>),
      Obj(EmptyObject),
      Obj(<<"x">> :> Arr(<<Bool(FALSE)>>) @@ <<"n">> :> Obj(<<"x">> :> Null)) }

\* Every text of up to three characters without '[', and malformed arrays
\* whose loop still ends: whitespace between elements, a trailing ',',
\* a missing ']', a number stod rejects inside an array; and unterminated
\* strings ending in a backslash, alone, in an array and as an object key;
\* and an object whose ", " is followed by nothing, so that the next key is
\* parsed at the end of the text.
MCTexts ==
    UNION {[1..n -> {"{", "}", ":", ",", Quote, "x", "-", "d", Ws}] : n \in 0..3}
    \cup { <<"[", "d", Ws, "d", "]">>, <<"[", "d", ",">>, <<"[", "]">>,
           <<"[", Ws, "]">>, <<"[", "d">>, <<"[", "-", "]">>,
           <<"{", Quote, "x", Quote, ":", "d", "x", "}">>,
           <<Quote, Bslash>>, <<Quote, "x", Bslash>>, <<"[", Quote, Bslash>>,
           <<"{", Quote, Bslash>>, <<"{", Quote, Quote, ":", "d", ",", Ws>> }

\* Every document with its rendering, and every further text alone.
MCInputs ==
    {[doc |-> d, text |-> Serialize(d)] : d \in MCDocs}
    \cup {[doc |-> NoDoc, text |-> t] : t \in MCTexts}

\* A malformed array: an element parse_value cannot read, followed by a
\* character that is neither ',' nor ']'.
MCLoopInputs == { [doc |-> NoDoc, text |-> <<"[", "x">>] }
=============================================================================
