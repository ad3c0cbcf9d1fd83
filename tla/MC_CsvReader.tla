---------------------------- MODULE MC_CsvReader ----------------------------
EXTENDS CsvReader

MCDelim == ","

\* Two named columns; the first holds every field the writer must quote
\* (a quote, the delimiter, both, an empty field), the second a plain one.
MCHeader == << <<"a">>, <<"b">> >>
MCFields == { <<>>, <<"a">>, <<Quote>>, <<MCDelim>>, <<"a", MCDelim, Quote, Quote>> }
MCRows == { <<f, g>> : f \in MCFields, g \in {<<>>, <<"b">>} }
MCTables == { <<MCHeader>> } \cup { <<MCHeader, r>> : r \in MCRows }
            \cup { <<MCHeader, r1, r2>> : r1, r2 \in MCRows }

\* A field with a line end inside quotes.
MCLineEndTables == { <<MCHeader, << <<"a", LF, "a">>, <<"b">> >> >> }
=============================================================================
