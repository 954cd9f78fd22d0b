------------------------------ MODULE MCLexer ------------------------------
(***************************************************************************)
(* Inputs for Lexer: all short words over the bytes that one routine tells *)
(* apart, and a few buffers with two literals or a keyword in them.        *)
(***************************************************************************)
EXTENDS Lexer

CONSTANT MaxLength      \* bound: the length of a word

MCKeyword == {<<"i", "f">>}
MCReservedKeyword == {<<"r", "e", "f">>}

Words(bytes) == UNION {[1..k -> bytes] : k \in 0..MaxLength}
Behind(before, words) == {before \o w : w \in words}

MCBuffers ==
    Words({"0", "1", "_", ".", "f", "x"})           \* numbers
    \* strings and escapes
    \cup Behind(<<"\"">>, Words({"\"", "\\", "u", "{", "}", "\n"}))
    \cup Behind(<<"\"", "\\", "u", "{">>, Words({"f", "}", "\"", "\n", "\\"}))
    \* characters
    \cup Behind(<<"'">>, Words({"'", "\\", "a", "\r", "c3", "a9"}))
    \* comments
    \cup Behind(<<"/">>, Words({"/", "*", "!", "\n", "a"}))
    \cup Behind(<<"/", "*">>, Words({"/", "*", "a"}))
    \cup Words({"<", "=", ">", ":", "-"})            \* symbols
    \cup Words({"i", "f", "_", "1", " ", "$"})       \* names
    \cup {<<"'", "a", "'", "'", "a", "'">>, <<"r", "e", "f", " ", "i", "f">>,
          <<"/", "*", "/", "*", "*", "/", "a", "*", "/">>}
=============================================================================
