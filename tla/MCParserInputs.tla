--------------------------- MODULE MCParserInputs ---------------------------
(***************************************************************************)
(* Inputs for Parser: all short words over a few tokens between a fixed    *)
(* beginning and end, and a few families of statements; together with the  *)
(* spellings of well-formed programs.                                      *)
(***************************************************************************)
EXTENDS MCParserExprs, MCParserDecls

MCPrograms == MCExpressions \cup MCDeclarations

Words(tokens, n) == UNION {[1..k -> tokens] : k \in 0..n}
Between(before, words, after) == {before \o w \o after : w \in words}

FnOpen == <<"fn", "f", "(", ")", "{">>
FnNext == <<"}", "fn", "g", "(", ")", "{", "}">>

MCFragments ==
    Between(FnOpen, Words({"a", "*", "=", "(", ")", ",", ";", "["}, 4), FnNext)
    \cup Between(FnOpen, Words({"a", "if", "match", "{", "}", ";", "=>", "let"}, 4), <<"}">>)
    \cup Between(FnOpen \o <<"match", "a", "{">>,
                 Words({"a", "(", ")", "=>", ",", "::", "1"}, 4), <<"}", ";", "}">>)
    \cup Between(FnOpen \o <<"match", "a", "{">>, Words({"a", "(", ",", "=>"}, 4), <<>>)
    \cup Between(FnOpen \o <<"tensor", "[">>, Words({"a", ",", ";", "]", ".", "0.1"}, 4),
                 <<"]", ";", "}">>)
    \cup Between(FnOpen \o <<"a", ".">>,
                 Words({"a", "0", "0.1", "0.1_2", "1.5f", "1f", "."}, 3), <<";", "}">>)
    \cup Words({"fn", "f", "(", ")", "{", "}", "pub", ";", "doc_comment"}, 4)
    \cup Between(<<"struct", "S", "{">>,
                 Words({"x", ":", "a", ",", "(", "mut", "}"}, 4), <<"}">>)
    \cup Between(<<"fn", "f">>, Words({"<", ">", "a", ":", "(", ")", ","}, 4),
                 <<"(", ")", "{", "}">>)
    \cup Between(<<"impl", "S">>,
                 Words({"for", "{", "fn", "f", "(", ")", "}", "doc_comment"}, 4),
                 <<"{", "}", "}">>)
    \cup Between(<<"use">>, Words({"a", "::", "*", "as", ";"}, 4), <<";">>)

\* One statement that may be malformed, closed by its semicolon; one member that
\* may be malformed, with another behind a comma.
MCBroken ==
    Between(FnOpen, Words({"a", "-", "=", "(", ")", ",", ".", "]"}, 4),
            <<";">> \o FnNext)
    \cup Between(<<"struct", "S", "{">>,
                 Words({"x", ":", "a", "mut", ")", ";", "::"}, 4),
                 <<",", "y", ":", "b">> \o FnNext)
    \cup Between(<<"enum", "S", "{">>, Words({"x", "=", "1", ")", ";", "+"}, 4),
                 <<",", "y">> \o FnNext)

\* The last statement of a block is not closed.
MCOpenStatements == Between(FnOpen, Words({"a", "-", "(", ")"}, 3), FnNext)

\* An unsafe block without its brace.
MCUnsafe == Between(FnOpen \o <<"unsafe">>, Words({"a", "{", "}", ";"}, 3), FnNext)

\* Blocks of expression statements; chains of tuple indexes.
MCTails == Between(FnOpen, Words({"a", ";"}, 4), <<"}">>)
MCIndexes == Between(FnOpen \o <<"a", ".">>, Words({"0", "0.1", "0.1_2", "."}, 3),
                     <<";", "}">>)

-----------------------------------------------------------------------------
MCInputs == [program |-> MCPrograms, member |-> MCBroken,
             any |-> MCFragments \cup MCUnsafe]
MCInputsOpen == [member |-> MCOpenStatements]
MCInputsTail == [any |-> MCTails]
MCInputsIndex == [any |-> MCIndexes]
=============================================================================
