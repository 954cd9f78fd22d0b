----------------------------- MODULE ParserBase -----------------------------
(***************************************************************************)
(* What all the productions of eter::parser::Parser are built from: the    *)
(* token cursor (TokenStream), diagnostics, expect, lists, paths, recovery *)
(* (Parser.cpp).                                                           *)
(*                                                                         *)
(* The parser is sequential, so a production is an operator from a parser  *)
(* state to the parser state it leaves behind.  A state is a record        *)
(*                                                                         *)
(*   toks   the tokens, by their text        allow  StructLitAllowed       *)
(*   pos    Cursor: tokens consumed so far   errs   Errors: [id, args]     *)
(*   pool   the NodePool                     stuck  a loop made no progress*)
(*   vals   the node indices that the active productions hold in local     *)
(*          variables, innermost last: a production adds one, and Make     *)
(*          turns those above a mark into the children of a new node       *)
(*                                                                         *)
(* Spans are pairs of token positions.  An interned name is its text, the  *)
(* sequence of the tokens it covers (StringInterner gives equal ids to     *)
(* equal texts).                                                           *)
(***************************************************************************)
EXTENDS NodePool, NodeKinds, Messages

CONSTANTS
    Identifiers,    \* the texts that lex as identifier
    LiteralKind,    \* text of a literal -> its token kind
    TupleIndexes    \* text of a float literal -> the tuple indexes made of it
                    \* behind a `.`: <<"0", "1">> of 0.1, <<"0">> of 0.1_2 (what
                    \* stands behind the dot is not all digits), none of 1f

\* The tokens that have but one text, which stands for their kind as well; so does
\* the name of the kind where the text does not matter.
Symbols ==
    {"(", ")", "{", "}", "[", "]", ",", ";", ":", "::",
     "+", "-", "*", "/", "%", "^", "++", "--", "|", "<<", ">>", "&", "&&", "||", "!",
     "==", "!=", "<", ">", "<=", ">=", "=", "+=", "-=", "*=", "/=", "%=", "&=", "|=",
     "^=", "<<=", ">>=", ".", "=>", "@", "?", "->"}
Keywords ==
    {"as", "break", "const", "continue", "else", "enum", "false", "imm", "in", "fn",
     "for", "if", "let", "match", "mod", "mut", "proj", "pub", "ret", "struct",
     "tensor", "trait", "true", "union", "unsafe", "impl", "Self", "use", "while"}
Fixed == Symbols \cup Keywords \cup {"eof", "unknown", "doc_comment",
                                     "file_doc_comment"}

LiteralKinds == {"integer_literal", "float_literal", "char_literal", "string_literal"}
Token == Identifiers \cup DOMAIN LiteralKind \cup Fixed
TokenKind == {"identifier"} \cup LiteralKinds \cup Fixed

ASSUME VocabularyAssumption ==
    /\ \A t \in DOMAIN LiteralKind : LiteralKind[t] \in LiteralKinds
    /\ \A t \in DOMAIN TupleIndexes :
           TupleIndexes[t] \in {<<>>} \cup {<<i>> : i \in Token} \cup (Token \X Token)
    /\ "eof" \notin Identifiers \cup DOMAIN LiteralKind

(* A token that is neither is its own kind: "fn", "{", "->", ...           *)
Kind(t) ==
    IF t \in Identifiers THEN "identifier"
    ELSE IF t \in DOMAIN LiteralKind THEN LiteralKind[t]
    ELSE t

\* What a node says of itself: an interned name, which may carry a regime, or the
\* number of a tensor literal's values.  Without either the word is 0, the empty
\* name.
Payload == [text : Seq(Token)] \cup [text : Seq(Token), regime : Regime]
               \cup [values : Nat]
Named(text) == [text |-> text]
WithRegime(text, regime) == [text |-> text, regime |-> regime]
NoRegime == 3
Nothing == Named(<<>>)

\* What a diagnostic says: the values of its message's placeholders.
Context == "where"      \* what a call says of the place
Construct == "what"     \* what a call says is being named
Args == [found : TokenKind]
            \cup [context : {Context}, found : TokenKind]
            \cup [construct : {Construct}, found : TokenKind]
            \cup [tok : TokenKind, context : {Context}]
            \cup [tok : TokenKind, keyword : TokenKind, found : TokenKind]
            \cup [tok : TokenKind, keyword : TokenKind, found : TokenKind,
                  context : {Context}]
            \cup {<<>>}
Report == [id : DiagID, args : Args]

NodeRecord ==
    [kind : NodeKind, count : Nat, begin : Nat, payload : Payload, flags : SUBSET Flag]
Pool ==
    [nodes : Seq(NodeRecord), children : Seq(Nat \cup {NullNode}), spans : Seq(Nat \X Nat)]

State ==
    [toks : Seq(Token), pos : Nat, pool : Pool, vals : Seq(Nat \cup {NullNode}),
     errs : Seq(Report), allow : BOOLEAN, stuck : BOOLEAN]

\* The lexer ends the tokens of a file with one of kind eof, which has no text;
\* an advance() in error recovery consumes it like any other.
Start(toks) ==
    [toks |-> Append(toks, "eof"), pos |-> 0,
     pool |-> [EmptyPool EXCEPT !.nodes[1].payload = Nothing], vals |-> <<>>,
     errs |-> <<>>, allow |-> TRUE, stuck |-> FALSE]

-----------------------------------------------------------------------------
(* The cursor.                                                             *)

PeekAt(s, offset) ==
    IF s.pos + offset < Len(s.toks) THEN Kind(s.toks[s.pos + offset + 1]) ELSE "eof"

Peek(s) == PeekAt(s, 0)
Check(s, kind) == Peek(s) = kind
AtEof(s) == Check(s, "eof")

\* Mistake: the end is not looked for.
AdvancePastEnd(s) == [s EXCEPT !.pos = @ + 1]

Advance(s) == [s EXCEPT !.pos = IF @ < Len(s.toks) THEN @ + 1 ELSE @]
Consume(s, kind) == IF Check(s, kind) THEN Advance(s) ELSE s

\* The positions of peekToken() and previous(), and the kind of the latter.
Here(s) == s.pos + 1
Before(s) == IF s.pos = 0 THEN 1 ELSE s.pos
Previous(s) == IF s.pos = 0 THEN "eof" ELSE Kind(s.toks[s.pos])

Text(s, from, to) ==
    SubSeq(s.toks, from, IF to < Len(s.toks) THEN to ELSE Len(s.toks) - 1)
TextHere(s) == Text(s, Here(s), Here(s))

\* while (goesOn) round, both given for every state.  What a round does depends on
\* the tokens that are left, so one that consumes none is followed by the same round
\* for ever; run[n] has the time for n more rounds.
Loop(goesOn, round) ==
    LET run[n \in Nat] ==
            [t \in State |->
                LET u == round[t]
                IN  IF ~goesOn[t] \/ t.stuck THEN t
                    ELSE IF n = 0 \/ u.pos = t.pos THEN [u EXCEPT !.stuck = TRUE]
                    ELSE run[n - 1][u]]
    IN  run
While(s, goesOn, round) == Loop(goesOn, round)[Len(s.toks)][s]

Until(kinds) == [t \in State |-> Peek(t) \notin kinds]
Advancing == [t \in State |-> Advance(t)]

\* Mistake: what the search was for is skipped too.
SkipPast(s, kinds) == Advance(While(s, Until(kinds \cup {"eof"}), Advancing))

\* Up to a token of one of the kinds, or to the end.
SkipTo(s, kinds) == While(s, Until(kinds \cup {"eof"}), Advancing)

-----------------------------------------------------------------------------
(* Nodes.                                                                  *)

Mark(s) == Len(s.vals)
Push(s, i) == [s EXCEPT !.vals = Append(@, i)]
Drop(s, mark) == [s EXCEPT !.vals = SubSeq(@, 1, mark)]
Top(s) == s.vals[Len(s.vals)]
TopSpan(s) == SpanOf(s.pool, Top(s))
TopIsError(s) == NodeAt(s.pool, Top(s)).kind = "Error"

\* Pool.alloc with the values above the mark for children.
MakeFlagged(s, mark, kind, span, payload, flags) ==
    [s EXCEPT !.pool = Alloc(@, kind, span,
                             SubSeq(s.vals, mark + 1, Len(s.vals)), payload, flags),
              !.vals = Append(SubSeq(@, 1, mark), PoolSize(s.pool))]

Make(s, mark, kind, span, payload) == MakeFlagged(s, mark, kind, span, payload, {})
Leaf(s, kind, span, payload) == Make(s, Mark(s), kind, span, payload)

-----------------------------------------------------------------------------
(* Diagnostics.                                                            *)

DiagWith(s, diag, args) == [s EXCEPT !.errs = Append(@, [id |-> diag, args |-> args])]

\* addError: without arguments.
Diag(s, diag) == DiagWith(s, diag, <<>>)

ErrorOver(s, from, to) == Leaf(s, "Error", <<from, to>>, Nothing)
ErrorNode(s, at) == ErrorOver(s, at, at)

\* Mistake: what is missing is not reported.
ExpectSilently(s, kind, diag) == Consume(s, kind)

Found(s) == [found |-> Peek(s)]
FoundIn(s) == [context |-> Context, found |-> Peek(s)]

\* Mistake: the context that the call gives is not passed on.
ExpectArgsAlone(s, kind, diag) == [tok |-> kind, keyword |-> kind, found |-> Peek(s)]

\* The calls that report one of these give a context.
ExpectArgs(s, kind, diag) ==
    IF diag \in {"ExpectedOpen", "ExpectedClose", "ExpectedSemi", "ExpectedColon",
                 "ExpectedEq", "ExpectedIdentifier"}
    THEN [tok |-> kind, keyword |-> kind, found |-> Peek(s), context |-> Context]
    ELSE [tok |-> kind, keyword |-> kind, found |-> Peek(s)]

Expect(s, kind, diag) ==
    IF Check(s, kind) THEN Advance(s)
    ELSE DiagWith(s, diag, ExpectArgs(s, kind, diag))

NameMissing(s) ==
    DiagWith(s, "ExpectedName", [construct |-> Construct, found |-> Peek(s)])

\* The name is the text of the token that is there, whatever it is.
ExpectName(s) == IF Check(s, "identifier") THEN Advance(s) ELSE NameMissing(s)

\* Without the semicolon of a let or an expression statement.
ExpectSemi(s) ==
    IF Check(s, ";") THEN Advance(s)
    ELSE DiagWith(s, "ExpectedSemi", FoundIn(s))

\* The closing delimiter, and the node of the production that started in s: its
\* span runs from the first token to the delimiter, or to what stands in its
\* place.
Close(t, s, delimiter, diag, kind, payload) ==
    Make(Expect(t, delimiter, diag), Mark(s), kind, <<Here(s), Here(t)>>, payload)

\* Mistake: the token that did not fit is left where it is.
SynchronizeInPlace(s) ==
    While(s,
          [t \in State |->
              /\ ~AtEof(t)
              /\ Previous(t) # ";"
              /\ Peek(t) \notin {"}", "fn", "struct", "let"}],
          Advancing)

\* Skips at least one token, unless none is left, then to behind a `;` or before
\* a token that starts a declaration or a statement or closes a block.
Synchronize(s) ==
    While(IF AtEof(s) THEN s ELSE Advance(s),
          [t \in State |->
              /\ ~AtEof(t)
              /\ Previous(t) # ";"
              /\ Peek(t) \notin
                     {"}", "fn", "struct", "enum", "union", "mod", "use", "const",
                      "trait", "impl", "unsafe", "break", "continue", "let", "if",
                      "while", "for", "match", "ret"}],
          Advancing)

-----------------------------------------------------------------------------
(* Pieces shared by the productions.                                       *)

\* Where productions are passed on they are functions: from the state at an element
\* to the state behind it.

\* Elements as long as a comma follows that is not a trailing one, which is
\* consumed.  No closers: there are no trailing commas.
MoreElements(s, closers, element) ==
    Consume(While(s, [t \in State |-> Check(t, ",") /\ PeekAt(t, 1) \notin closers],
                     [t \in State |-> element[Advance(t)]]),
            ",")

\* One element of a list; if it left a diagnostic, what remains of it is skipped.
ListElement(close, element) ==
    [s \in State |->
        LET t == element[s]
        IN  IF Len(t.errs) # Len(s.errs) THEN SkipTo(t, {",", close}) ELSE t]

\* parseCommaSeparated; the delimiter itself is left to the caller.
CommaSeparated(s, close, element) ==
    LET one == ListElement(close, element)
    IN  IF Peek(s) \in {close, "eof"} THEN s ELSE MoreElements(one[s], {close}, one)

At(kind) == [t \in State |-> Check(t, kind)]

\* `:: identifier` segments behind a name; :: may be repeated, with a diagnostic.
Segment(s) ==
    Expect(While(Advance(s), At("::"),
                 [t \in State |-> Advance(Diag(t, "RedundantPathSeparator"))]),
           "identifier", "ExpectedPathSegment")

PathSegments(s) == While(s, At("::"), [t \in State |-> Segment(t)])

RegimeHere(s) ==
    CASE Check(s, "imm") -> 0
      [] Check(s, "mut") -> 1
      [] Check(s, "proj") -> 2
      [] OTHER -> NoRegime

SkipRegime(s) == IF RegimeHere(s) # NoRegime THEN Advance(s) ELSE s

Comments(s, token, kind) ==
    While(s, At(token),
          [t \in State |->
              Leaf(Advance(t), kind, <<Here(t), Here(t)>>, Named(TextHere(t)))])

DocComments(s) == Comments(s, "doc_comment", "DocComment")
FileDocComments(s) == Comments(s, "file_doc_comment", "FileDocComment")

Literals == {"integer_literal", "float_literal", "char_literal",
             "string_literal", "true", "false"}
=============================================================================
