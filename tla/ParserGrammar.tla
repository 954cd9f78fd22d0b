--------------------------- MODULE ParserGrammar ---------------------------
(***************************************************************************)
(* The productions (ParseType, ParsePat, ParseExpr, ParseConst, ParseStmt, *)
(* ParseGenerics, ParseDecl): each takes the parser state at its first     *)
(* token and, unless what it looks for is optional, leaves one more value. *)
(***************************************************************************)
EXTENDS ParserBase

(* Types, patterns, expressions, statements and declarations contain one     *)
(* another.  A production reaches the ones inside it through P, a function   *)
(* of calls: parse, below, ties them into one recursion.                     *)

\* A call of a production: its rule, the least binding power of an expression
\* (0 for what is none) and the state it is called in.
Rules == {"type", "pat", "expr", "infix", "if", "stmt", "decl"}
Calls == Rules \X Nat \X State

ParseType(P, s) == P[<<"type", 0, s>>]
ParsePat(P, s) == P[<<"pat", 0, s>>]
ParseExpr(P, s, minBP) == P[<<"expr", minBP, s>>]

ParseAnyExpr(P, s) == ParseExpr(P, s, 0)
ParseConstExpr(P, s) == ParseAnyExpr(P, s)

TypeAt(P) == [s \in State |-> ParseType(P, s)]
PatAt(P) == [s \in State |-> ParsePat(P, s)]
ExprAt(P) == [s \in State |-> ParseAnyExpr(P, s)]
StmtAt(P) == [s \in State |-> P[<<"stmt", 0, s>>]]
DeclAt(P) == [s \in State |-> P[<<"decl", 0, s>>]]

-----------------------------------------------------------------------------
(* Types.                                                                  *)

ParseTupleType(P, s) ==
    Close(CommaSeparated(Advance(s), ")", TypeAt(P)), s,
          ")", "ExpectedTupleTypeClose", "TupleType", Nothing)

ParseNamedType(s) ==
    IF Peek(s) \in {"identifier", "Self"} THEN
        LET t == PathSegments(Advance(s))
        IN  Leaf(t, "NamedType", <<Here(s), Before(t)>>,
                 Named(Text(s, Here(s), Before(t))))
    ELSE ErrorNode(Diag(s, "ExpectedTypeName"), Here(s))

ParseArrayType(P, s) ==
    LET elem == Expect(ParseType(P, Advance(s)), ";", "ExpectedArrayTypeSemi")
    IN  Close(ParseConstExpr(P, elem), s,
              "]", "ExpectedArrayTypeClose", "ArrayType", Nothing)

\* Mistake: a tensor need not have a dimension.
DimensionsAny(P, s) == CommaSeparated(s, "]", ExprAt(P))

\* Dimensions of a tensor, at least one.
Dimensions(P, s) ==
    LET t == CommaSeparated(s, "]", ExprAt(P))
    IN  IF Mark(t) = Mark(s) THEN Diag(t, "ExpectedTensorLitDim") ELSE t

ParseTensorType(P, s) ==
    LET open == Expect(Advance(s), "[", "ExpectedTensorOpen")
        elem == Expect(ParseType(P, open), ";", "ExpectedTensorTypeSemi")
    IN  Close(Dimensions(P, elem), s,
              "]", "ExpectedTensorTypeClose", "TensorType", Nothing)

TypeRule(P, s) ==
    CASE Check(s, "(") -> ParseTupleType(P, s)
      [] Check(s, "[") -> ParseArrayType(P, s)
      [] Check(s, "tensor") -> ParseTensorType(P, s)
      [] OTHER -> ParseNamedType(s)

-----------------------------------------------------------------------------
(* Patterns.                                                               *)

ParseFieldPat(P, s) ==
    LET name == Advance(s)
        payload == Named(TextHere(s))
    IN  CASE ~Check(s, "identifier") ->
                 ErrorNode(Diag(s, "ExpectedFieldPatName"), Here(s))
          [] Check(s, "identifier") /\ Check(name, ":") ->
                 LET t == ParsePat(P, Advance(name))
                 IN  Make(t, Mark(s), "FieldPat",
                          <<Here(s), TopSpan(t)[2]>>, payload)
          [] OTHER -> Leaf(name, "FieldPat", <<Here(s), Here(s)>>, payload)

\* The list of a struct or tuple pattern that began in s and has its opening
\* delimiter at t.
ParseTuplePat(P, t, s, payload) ==
    Close(CommaSeparated(Advance(t), ")", PatAt(P)), s,
          ")", "ExpectedTuplePatClose", "TuplePat", payload)

ParseStructPat(P, t, s, payload) ==
    Close(CommaSeparated(Advance(t), "}", [u \in State |-> ParseFieldPat(P, u)]), s,
          "}", "ExpectedStructPatClose", "StructPat", payload)

ParseNamePat(P, s) ==
    LET t == PathSegments(Advance(s))
        text == Text(s, Here(s), Before(t))
    IN  CASE Check(t, "(") -> ParseTuplePat(P, t, s, Named(text))
          [] Check(t, "{") -> ParseStructPat(P, t, s, Named(text))
          [] OTHER -> Leaf(t, "IdentPat", <<Here(s), Before(t)>>,
                           WithRegime(text, NoRegime))

PatRule(P, s) ==
    CASE Check(s, "identifier") /\ TextHere(s) = <<"_">> ->
             Leaf(Advance(s), "WildcardPat", <<Here(s), Here(s)>>, Nothing)
      [] Check(s, "identifier") /\ TextHere(s) # <<"_">> -> ParseNamePat(P, s)
      [] Check(s, "(") -> ParseTuplePat(P, s, s, Named(<<>>))
      [] Peek(s) \in Literals ->
             Leaf(Advance(s), "LiteralPat", <<Here(s), Here(s)>>, Named(TextHere(s)))
      [] OTHER -> ErrorNode(Advance(Diag(s, "ExpectedPattern")), Here(s))

-----------------------------------------------------------------------------
(* Statements and the expressions with blocks.                             *)

\* SaveAndRestore of StructLitAllowed around a production.
WithStructLit(s, allowed, production) ==
    [production[[s EXCEPT !.allow = allowed]] EXCEPT !.allow = s.allow]

\* The condition of if and while, the range of for, the scrutinee of match.
Header(P, s) == WithStructLit(s, FALSE, ExprAt(P))

Statements(P, s) == While(s, Until({"}", "eof"}), StmtAt(P))

ParseBlockExpr(P, s) ==
    Close(Statements(P, Expect(s, "{", "ExpectedOpen")), s,
          "}", "ExpectedClose", "BlockExpr", Nothing)

ParseUnsafeBlock(P, s) ==
    LET kw == Expect(s, "unsafe", "ExpectedKeyword")
        open == IF Check(kw, "{") THEN Advance(kw)
                ELSE DiagWith(kw, "ExpectedOpen", [tok |-> "{", context |-> Context])
    IN  Close(Statements(P, open), s, "}", "ExpectedClose", "UnsafeBlock", Nothing)

\* A node that ends with the last token consumed.
UpToHere(t, s, kind, payload) ==
    Make(t, Mark(s), kind, <<Here(s), Before(t)>>, payload)

ParseIfExpr(P, s) ==
    LET cond == Header(P, Expect(s, "if", "ExpectedKeyword"))
        then == ParseBlockExpr(P, cond)
        else == Advance(then)
        t == CASE ~Check(then, "else") -> then
               [] Check(then, "else") /\ Check(else, "if") -> P[<<"if", 0, else>>]
               [] OTHER -> ParseBlockExpr(P, else)
    IN  UpToHere(t, s, "IfExpr", Nothing)

ParseWhileStmt(P, s) ==
    UpToHere(ParseBlockExpr(P, Header(P, Expect(s, "while", "ExpectedKeyword"))),
             s, "WhileStmt", Nothing)

ParseForStmt(P, s) ==
    LET kw == Expect(s, "for", "ExpectedKeyword")
        name == SkipRegime(kw)
        range == Expect(ExpectName(name), "in", "ExpectedKeyword")
        t == ParseBlockExpr(P, Header(P, range))
    IN  Make(t, Mark(s), "ForStmt", <<Here(s), TopSpan(t)[2]>>,
             WithRegime(TextHere(name), RegimeHere(kw)))

\* The arm's pattern and expression are above the mark.
EndMatchArm(t, mark) ==
    Make(IF Check(t, ",") THEN Advance(t) ELSE Consume(t, ";"), mark, "MatchArm",
         <<SpanOf(t.pool, t.vals[mark + 1])[1], TopSpan(t)[2]>>, Nothing)

ParseMatchArm(P, s) ==
    EndMatchArm(ParseAnyExpr(P, Expect(ParsePat(P, s), "=>", "ExpectedFatArrow")), Mark(s))

ParseMatchExpr(P, s) ==
    LET open == Expect(Header(P, Expect(s, "match", "ExpectedKeyword")),
                       "{", "ExpectedOpen")
        arms == While(open, Until({"}", "eof"}), [t \in State |-> ParseMatchArm(P, t)])
    IN  Close(arms, s, "}", "ExpectedClose", "MatchExpr", Nothing)

ParseLetStmt(P, s) ==
    LET kw == Expect(s, "let", "ExpectedKeyword")
        name == SkipRegime(kw)
        bound == ExpectName(name)
        typed == IF Check(bound, ":") THEN ParseType(P, Advance(bound)) ELSE bound
        init == IF Check(typed, "=") THEN ParseAnyExpr(P, Advance(typed)) ELSE typed
        t == IF Mark(init) > Mark(s) /\ TopIsError(init)
             THEN Consume(SkipTo(init, {";", "}"}), ";")
             ELSE ExpectSemi(init)
    IN  UpToHere(t, s, "LetStmt", WithRegime(TextHere(name), RegimeHere(kw)))

ParseRetStmt(P, s) ==
    Close(ParseAnyExpr(P, Expect(s, "ret", "ExpectedKeyword")), s,
          ";", "ExpectedSemi", "RetStmt", Nothing)

ParseJump(s, kind) ==
    Leaf(Expect(Advance(s), ";", "ExpectedBreakOrContinueSemi"),
         kind, <<Here(s), Here(s)>>, Nothing)

ParseExprStmt(P, s) ==
    LET t == ParseAnyExpr(P, s)
    IN  IF TopIsError(t) THEN Synchronize(t) ELSE ExpectSemi(t)

StmtRule(P, s) ==
    CASE Check(s, "let") -> ParseLetStmt(P, s)
      [] Check(s, "if") -> ParseIfExpr(P, s)
      [] Check(s, "for") -> ParseForStmt(P, s)
      [] Check(s, "while") -> ParseWhileStmt(P, s)
      [] Check(s, "{") -> ParseBlockExpr(P, s)
      [] Check(s, "ret") -> ParseRetStmt(P, s)
      [] Check(s, "break") -> ParseJump(s, "BreakStmt")
      [] Check(s, "continue") -> ParseJump(s, "ContinueStmt")
      [] Check(s, "unsafe") -> ParseUnsafeBlock(P, s)
      [] Peek(s) \in Literals \cup {"identifier", "(", "[", "!", "-", "&", "*",
                                    "tensor", "match"} -> ParseExprStmt(P, s)
      [] OTHER -> ErrorNode(Synchronize(Diag(s, "ExpectedStmt")), Here(s))
-----------------------------------------------------------------------------
(* Operators.                                                              *)

Assignments == {"=", "+=", "-=", "*=", "/=", "%=", "&=", "|=", "^=", "<<=", ">>="}

\* {left_bp, right_bp} of an infix operator.
InfixBindingPower(op) ==
    CASE op \in Assignments -> <<10, 9>>
      [] op = "||" -> <<20, 21>>
      [] op = "&&" -> <<30, 31>>
      [] op \in {"==", "!=", "<", ">", "<=", ">="} -> <<40, 41>>
      [] op = "|" -> <<50, 51>>
      [] op = "^" -> <<60, 61>>
      [] op = "&" -> <<70, 71>>
      [] op \in {"<<", ">>"} -> <<80, 81>>
      [] op \in {"+", "-"} -> <<90, 91>>
      [] op \in {"*", "/", "%"} -> <<100, 101>>
      [] OTHER -> <<-1, -1>>

PrefixBindingPower == 110

\* Mistake: the operands stay among the values.
RightToo(rhs, mark) == Push(rhs, Top(rhs))

\* An error node for a right operand replaces the whole expression; the left
\* operand stays in the pool as a child of nothing.
RightInstead(rhs, mark) == Push(Drop(rhs, mark), Top(rhs))

-----------------------------------------------------------------------------
(* Postfix expressions: the operand is on top of the values.               *)

\* Mistake: the span begins at the last token of the operand instead of its first.
AroundLast(t, s, kind, payload) ==
    Make(t, Mark(s) - 1, kind, <<Before(s), Before(t)>>, payload)

\* A node around the operand that ends with the last token consumed.
Around(t, s, kind, payload) ==
    Make(t, Mark(s) - 1, kind, <<TopSpan(s)[1], Before(t)>>, payload)

ParseArgList(P, s) ==
    LET open == Expect(s, "(", "ExpectedOpen")
        args == [t \in State |->
                    IF Check(t, ")") THEN t
                    ELSE MoreElements(ParseAnyExpr(P, t), {}, ExprAt(P))]
    IN  Close(WithStructLit(open, TRUE, args), s,
              ")", "ExpectedArgListClose", "ArgList", Nothing)

ParseCall(P, s) ==
    LET t == ParseArgList(P, s)
    IN  Make(t, Mark(s) - 1, "CallExpr", <<TopSpan(s)[1], TopSpan(t)[2]>>, Nothing)

\* The text 0.1 behind a `.` makes two tuple indexes in a row, 0.1_2 only the first.
ParseTupleIndex(s, indexes) ==
    LET t == Around(Advance(s), s, "TupleIndexExpr", Named(<<indexes[1]>>))
    IN  IF Len(indexes) = 1 THEN t
        ELSE Around(t, s, "TupleIndexExpr", Named(<<indexes[2]>>))

ParseField(s) ==
    Around(Expect(s, "identifier", "ExpectedFieldName"), s, "FieldExpr",
           WithRegime(TextHere(s), NoRegime))

\* What follows the `.`.
ParseMember(s) ==
    CASE Check(s, "integer_literal") -> ParseTupleIndex(s, TextHere(s))
      [] Check(s, "float_literal") /\ TupleIndexes[TextHere(s)[1]] # <<>> ->
             ParseTupleIndex(s, TupleIndexes[TextHere(s)[1]])
      [] OTHER -> ParseField(s)

ParsePostfixIndex(P, s) ==
    LET indexes == [t \in State |->
                       MoreElements(ParseAnyExpr(P, t), {"]"}, ExprAt(P))]
        t == WithStructLit(Advance(s), TRUE, indexes)
        tensor == Mark(t) > Mark(s) + 1
        close == Expect(t, "]", IF tensor THEN "ExpectedTensorIndexClose"
                                ELSE "ExpectedRSquare")
    IN  Make(close, Mark(s) - 1, IF tensor THEN "TensorIndexExpr" ELSE "IndexExpr",
             <<TopSpan(s)[1], Here(t)>>, Nothing)

ParseCast(P, s) ==
    LET t == ParseType(P, Advance(s))
    IN  Make(t, Mark(s) - 1, "CastExpr", <<TopSpan(s)[1], TopSpan(t)[2]>>, Nothing)

PostfixOnce(P, s) ==
    CASE Check(s, "(") -> ParseCall(P, s)
      [] Check(s, ".") -> ParseMember(Advance(s))
      [] Check(s, "[") -> ParsePostfixIndex(P, s)
      [] Check(s, "?") -> Around(Advance(s), s, "PropagateExpr", Nothing)
      [] Check(s, "as") -> ParseCast(P, s)

Postfix(P, s) ==
    While(s, [t \in State |-> Peek(t) \in {"(", ".", "[", "?", "as"}],
             [t \in State |-> PostfixOnce(P, t)])

-----------------------------------------------------------------------------
(* The loop of parseExpr, with the left operand on top of the values.      *)

\* Both operands have been read, the right one from behind the operator.
EndInfix(P, lhs, rhs, minBP) ==
    IF TopIsError(rhs) THEN RightInstead(rhs, Mark(lhs) - 1)
    ELSE P[<<"infix", minBP, Make(rhs, Mark(lhs) - 1, "BinaryExpr",
                                  <<TopSpan(lhs)[1], TopSpan(rhs)[2]>>,
                                  Named(TextHere(lhs)))>>]

\* Mistake: the right operand may hold operators that bind as tightly.
InfixAllRight(P, s, minBP) ==
    LET lhs == Postfix(P, s)
        bp == InfixBindingPower(Peek(lhs))
    IN  IF bp[1] < minBP THEN lhs
        ELSE EndInfix(P, lhs, ParseExpr(P, Advance(lhs), bp[1]), minBP)

\* One round, and the rounds behind it.
Infix(P, s, minBP) ==
    LET lhs == Postfix(P, s)
        bp == InfixBindingPower(Peek(lhs))
    IN  IF bp[1] < minBP THEN lhs
        ELSE EndInfix(P, lhs, ParseExpr(P, Advance(lhs), bp[2]), minBP)

-----------------------------------------------------------------------------
(* Prefix expressions.                                                     *)

ParseFieldInit(P, s) ==
    LET name == Advance(s)
        payload == Named(TextHere(s))
    IN  CASE ~Check(s, "identifier") ->
                 ErrorNode(Diag(s, "ExpectedFieldInitName"), Here(s))
          [] Check(s, "identifier") /\ Check(name, ":") ->
                 LET t == ParseAnyExpr(P, Advance(name))
                 IN  Make(t, Mark(s), "FieldInit",
                          <<Here(s), TopSpan(t)[2]>>, payload)
          [] OTHER ->
                 Make(Leaf(name, "IdentExpr", <<Here(s), Here(s)>>, payload),
                      Mark(s), "FieldInit", <<Here(s), Here(s)>>, payload)

\* `Name {`, with the brace at t and the name from s on.
ParseStructLitExpr(P, t, s, text) ==
    LET fields == [u \in State |->
                      CommaSeparated(u, "}", [v \in State |-> ParseFieldInit(P, v)])]
    IN  Close(WithStructLit(Advance(t), TRUE, fields), s,
              "}", "ExpectedStructLitClose", "StructLitExpr", Named(text))

ParseNameExpr(P, s) ==
    LET t == PathSegments(Advance(s))
        text == Text(s, Here(s), Before(t))
    IN  IF t.allow /\ Check(t, "{") THEN ParseStructLitExpr(P, t, s, text)
        ELSE Leaf(t, IF t.pos > s.pos + 1 THEN "PathExpr" ELSE "IdentExpr",
                  <<Here(s), Before(t)>>, Named(text))

\* (), (e), (e,) and (e, e): a comma or nothing inside makes it a tuple.
ParseParenExpr(P, s) ==
    LET inside ==
            [t \in State |->
                LET e == ParseAnyExpr(P, t)
                IN  CASE Check(t, ")") ->
                             Close(t, s, ")", "ExpectedTupleExprClose", "TupleExpr",
                                   Nothing)
                      [] ~Check(t, ")") /\ Check(e, ",") ->
                             Close(MoreElements(e, {")"}, ExprAt(P)), s,
                                   ")", "ExpectedTupleExprClose", "TupleExpr", Nothing)
                      [] OTHER -> Expect(e, ")", "ExpectedParenExprClose")]
    IN  WithStructLit(Advance(s), TRUE, inside)

ParseArrayLitExpr(P, s) ==
    LET CloseArray(t, kind) ==
            Close(t, s, "]", "ExpectedArrayLitClose", kind, Nothing)
        inside ==
            [t \in State |->
                LET first == ParseAnyExpr(P, t)
                IN  CASE Check(t, "]") -> CloseArray(t, "ArrayLitExpr")
                      [] ~Check(t, "]") /\ Check(first, ";") ->
                             CloseArray(ParseConstExpr(P, Advance(first)),
                                        "ArrayRepeatExpr")
                      [] OTHER -> CloseArray(MoreElements(first, {"]"}, ExprAt(P)),
                                             "ArrayLitExpr")]
    IN  WithStructLit(Advance(s), TRUE, inside)

\* StructLitAllowed is set for the values and not for the dimensions.
ParseTensorLitExpr(P, s) ==
    LET open == Expect(Advance(s), "[", "ExpectedTensorOpen")
        list == [t \in State |->
                    MoreElements(ParseAnyExpr(P, t), {";", "]"}, ExprAt(P))]
        values == WithStructLit(open, TRUE, list)
        dims == Dimensions(P, Expect(values, ";", "ExpectedSemi"))
    IN  Close(dims, s, "]", "ExpectedTensorLitClose", "TensorLitExpr",
              [values |-> (Mark(values) - Mark(s)) % CountLimit])

ParseUnaryExpr(P, s) ==
    LET t == ParseExpr(P, Advance(s), PrefixBindingPower)
    IN  Make(t, Mark(s), "UnaryExpr", <<Here(s), TopSpan(t)[2]>>, Named(TextHere(s)))

\* `*lhs = rhs` is recognised on the way out of the operand, whatever stands to
\* the left of the `*`.
ParseStarExpr(P, s) ==
    LET t == ParseExpr(P, Advance(s), PrefixBindingPower)
        rhs == ParseAnyExpr(P, Advance(t))
    IN  IF Check(t, "=")
        THEN Make(rhs, Mark(s), "ProjAssignExpr", <<Here(s), TopSpan(rhs)[2]>>, Nothing)
        ELSE Make(t, Mark(s), "UnaryExpr", <<Here(s), TopSpan(t)[2]>>,
                  Named(TextHere(s)))

\* The tokens that close something are left to whoever waits for them.
ExpectedExpr(s) ==
    LET t == Diag(s, "ExpectedExpr")
    IN  ErrorNode(IF Peek(s) \in {";", "}", ")", "]", ","} THEN t ELSE Advance(t),
                  Here(s))

ParsePrefixExpr(P, s) ==
    CASE Peek(s) \in Literals ->
             Leaf(Advance(s), "LitExpr", <<Here(s), Here(s)>>,
                  WithRegime(TextHere(s), NoRegime))
      [] Check(s, "identifier") -> ParseNameExpr(P, s)
      [] Check(s, "(") -> ParseParenExpr(P, s)
      [] Check(s, "[") -> ParseArrayLitExpr(P, s)
      [] Check(s, "if") -> ParseIfExpr(P, s)
      [] Check(s, "while") -> ParseWhileStmt(P, s)
      [] Check(s, "match") -> ParseMatchExpr(P, s)
      [] Check(s, "unsafe") -> ParseUnsafeBlock(P, s)
      [] Check(s, "{") -> ParseBlockExpr(P, s)
      [] Check(s, "tensor") -> ParseTensorLitExpr(P, s)
      [] Peek(s) \in {"!", "-", "&"} -> ParseUnaryExpr(P, s)
      [] Check(s, "*") -> ParseStarExpr(P, s)
      [] OTHER -> ExpectedExpr(s)

ExprRule(P, s, minBP) == Infix(P, ParsePrefixExpr(P, s), minBP)

-----------------------------------------------------------------------------
(* Declarations: one finds its doc comments on the values, above `mark`;   *)
(* they become its first children.                                         *)

\* The node of a declaration that began in s: up to its closing token, or up to
\* the last token consumed.
CloseDecl(t, s, mark, delimiter, diag, kind, payload, flags) ==
    MakeFlagged(Expect(t, delimiter, diag), mark, kind, <<Here(s), Here(t)>>,
                payload, flags)

-----------------------------------------------------------------------------
(* Generics.                                                               *)

ParseGenericParam(P, s) ==
    LET name == Advance(s)
        t == IF Check(name, ":") THEN ParseType(P, Advance(name)) ELSE Push(name, NullNode)
    IN  IF Check(s, "identifier")
        THEN UpToHere(t, s, "GenericParam", Named(TextHere(s)))
        ELSE ErrorNode(Diag(s, "ExpectedTypeParam"), Here(s))

\* Without `<` there is no value.
ParseGenericParams(P, s) ==
    LET open == Advance(s)
        t == IF Check(open, ">") THEN open
             ELSE MoreElements(ParseGenericParam(P, open), {">"},
                               [u \in State |-> ParseGenericParam(P, u)])
    IN  IF Check(s, "<")
        THEN Close(t, s, ">", "ExpectedGreaterThan", "GenericParamList", Nothing)
        ELSE s

-----------------------------------------------------------------------------
(* Functions.                                                              *)

\* `self` alone, before `)` or `,`, stands for `self: Self`.
ParseParam(P, s) ==
    LET start == SkipRegime(s)
        name == ExpectName(start)
        t == IF TextHere(start) = <<"self">> /\ Peek(name) \in {")", ","}
             THEN Leaf(name, "NamedType", <<Before(name), Before(name)>>,
                       Named(<<"Self">>))
             ELSE ParseType(P, Expect(name, ":", "ExpectedColon"))
    IN  UpToHere(t, s, "Param", WithRegime(TextHere(start), RegimeHere(s)))

ParseParamList(P, s) ==
    LET open == Expect(s, "(", "ExpectedOpen")
        t == IF Check(open, ")") THEN open
             ELSE MoreElements(ParseParam(P, open), {}, [u \in State |-> ParseParam(P, u)])
    IN  Close(t, s, ")", "ExpectedClose", "ParamList", Nothing)

\* The return type stands behind a `:`; an arrow gets a diagnostic of its own.
ParseReturnType(P, s) ==
    CASE Check(s, ":") -> ParseType(P, Advance(s))
      [] Check(s, "->") -> ParseType(P, Advance(DiagWith(s, "ExpectedReturnTypeColon",
                                                      Found(s))))
      [] OTHER -> s

\* With a body, or, in a trait, with a `;` and no body.
ParseFnDecl(P, s, mark, flags, expectBody) ==
    LET regime == Expect(Consume(s, "unsafe"), "fn", "ExpectedKeyword")
        name == SkipRegime(regime)
        sig == ParseReturnType(P, ParseParamList(P, ParseGenericParams(P, ExpectName(name))))
        t == IF expectBody THEN ParseBlockExpr(P, sig)
             ELSE Push(Expect(sig, ";", "ExpectedTraitFnSemi"), NullNode)
    IN  MakeFlagged(t, mark, "FnDecl", <<Here(s), Before(t)>>,
                    WithRegime(TextHere(name), RegimeHere(regime)),
                    IF Check(s, "unsafe") THEN flags \cup {"unsafe"} ELSE flags)

-----------------------------------------------------------------------------
(* Structs, unions and enums.                                              *)

ParseStructField(P, s) ==
    LET name == SkipRegime(s)
        colon == Advance(name)
        type == IF Check(colon, ":") THEN Advance(colon)
                ELSE DiagWith(colon, "ExpectedColon", FoundIn(colon))
    IN  CASE ~Check(name, "identifier") ->
                 ErrorOver(NameMissing(name), Here(s), Here(name))
          [] Check(name, "identifier") /\ ~Check(colon, ":")
                 /\ ~Check(colon, "identifier") ->
                 ErrorOver(type, Here(s), Before(type))
          [] OTHER ->
                 UpToHere(ParseType(P, type), s, "StructField",
                          WithRegime(TextHere(name), RegimeHere(s)))

StructFieldAt(P) == [s \in State |-> ParseStructField(P, s)]

ParseEnumVariant(P, s) ==
    LET t == Advance(s)
        payload == WithRegime(TextHere(s), NoRegime)
    IN  CASE ~Check(s, "identifier") ->
                 ErrorNode(NameMissing(s), Here(s))
          [] Check(s, "identifier") /\ Check(t, "(") ->
                 Close(CommaSeparated(Advance(t), ")", TypeAt(P)), s,
                       ")", "ExpectedClose", "EnumVariantTuple", payload)
          [] Check(s, "identifier") /\ Check(t, "{") ->
                 Close(CommaSeparated(Advance(t), "}", StructFieldAt(P)), s,
                       "}", "ExpectedClose", "EnumVariantStruct", payload)
          [] Check(s, "identifier") /\ Check(t, "=") ->
                 UpToHere(ParseConstExpr(P, Advance(t)), s, "EnumVariantUnit", payload)
          [] OTHER -> UpToHere(t, s, "EnumVariantUnit", payload)

EnumVariantAt(P) == [s \in State |-> ParseEnumVariant(P, s)]

\* keyword Name <generics> { members }.
ParseAggregate(P, s, mark, flags, keyword, member, kind) ==
    LET name == Expect(s, keyword, "ExpectedKeyword")
        open == Expect(ParseGenericParams(P, ExpectName(name)), "{", "ExpectedOpen")
    IN  CloseDecl(CommaSeparated(open, "}", member), s, mark, "}", "ExpectedClose",
                  kind, Named(TextHere(name)), flags)

ParseStructDecl(P, s, mark, flags) ==
    ParseAggregate(P, s, mark, flags, "struct", StructFieldAt(P), "StructDecl")
ParseEnumDecl(P, s, mark, flags) ==
    ParseAggregate(P, s, mark, flags, "enum", EnumVariantAt(P), "EnumDecl")
ParseUnionDecl(P, s, mark, flags) ==
    ParseAggregate(P, s, mark, flags, "union", StructFieldAt(P), "UnionDecl")

-----------------------------------------------------------------------------
(* Traits and impls.                                                       *)

\* After a method with a diagnostic, on to the next.
EndMethod(t, docs) ==
    IF Len(t.errs) # Len(docs.errs) THEN SkipTo(t, {"}", "fn", "unsafe"}) ELSE t

ParseMethods(P, s, expectBody) ==
    While(s, Until({"}", "eof"}),
          [t \in State |->
              LET docs == DocComments(t)
              IN  EndMethod(ParseFnDecl(P, docs, Mark(t), {}, expectBody), docs)])

ParseTraitDecl(P, s, mark, flags) ==
    LET name == Expect(s, "trait", "ExpectedKeyword")
        open == Expect(ParseGenericParams(P, ExpectName(name)), "{", "ExpectedOpen")
    IN  CloseDecl(ParseMethods(P, open, FALSE), s, mark, "}", "ExpectedClose",
                  "TraitDecl", Named(TextHere(name)), flags)

\* Mistake: the type of an inherent impl stands in the trait's place as well.
ImplTypesTwice(P, first, mark) ==
    IF Check(first, "for") THEN ParseType(P, Advance(first)) ELSE Push(first, Top(first))

\* The trait and the type; an inherent impl has the null node for a trait.
ImplTypes(P, first, mark) ==
    IF Check(first, "for") THEN ParseType(P, Advance(first))
    ELSE Push(Push(Drop(first, mark), NullNode), Top(first))

ParseImplDecl(P, s, mark, flags) ==
    LET generics == ParseGenericParams(P, Expect(s, "impl", "ExpectedKeyword"))
        types == ImplTypes(P, ParseType(P, generics), Mark(generics))
        open == Expect(types, "{", "ExpectedOpen")
    IN  CloseDecl(ParseMethods(P, open, TRUE), s, mark, "}", "ExpectedClose",
                  "ImplDecl", Nothing, flags)

-----------------------------------------------------------------------------
(* Modules, uses and constants.                                            *)

ParseModDecl(P, s, mark, flags) ==
    LET name == Expect(s, "mod", "ExpectedKeyword")
        t == ExpectName(name)
        body == While(Advance(t), Until({"}", "eof"}), DeclAt(P))
    IN  CASE Check(t, "{") ->
                 CloseDecl(body, s, mark, "}", "ExpectedClose",
                           "ModDecl", Named(TextHere(name)), flags)
          [] Check(t, ";") ->
                 CloseDecl(t, s, mark, ";", "ExpectedSemi",
                           "ModDeclFile", Named(TextHere(name)), flags)
          [] OTHER ->
                 ErrorNode(Diag(Drop(t, mark), "ExpectedModOpenOrSemi"), Here(t))

\* a::b, a::* or a::b as c; `::` before anything else is left to the diagnostic.
ParseUseDecl(s, mark, flags) ==
    LET start == Expect(s, "use", "ExpectedKeyword")
        first == Expect(start, "identifier", "ExpectedIdentifier")
        from == Before(first)
        path == While(first,
                      [u \in State |-> Check(u, "::") /\ PeekAt(u, 1) = "identifier"],
                      [u \in State |-> Advance(Advance(u))])
        t == CASE Check(path, "::") ->
                      Expect(Advance(path), "*", "ExpectedUseItemOrGlob")
               [] Check(path, "as") ->
                      Expect(Advance(path), "identifier", "ExpectedAsAlias")
               [] OTHER -> path
        to == IF Check(path, "::") /\ Previous(t) # "*" THEN Before(path) ELSE Before(t)
    IN  MakeFlagged(Expect(t, ";", "ExpectedSemi"), mark, "UseDecl",
                    <<Here(s), to>>, Named(Text(s, from, to)), flags)

ParseConstDecl(P, s, mark, flags) ==
    LET name == Expect(s, "const", "ExpectedKeyword")
        type == ParseType(P, Expect(ExpectName(name), ":", "ExpectedColon"))
        value == ParseConstExpr(P, Expect(type, "=", "ExpectedEq"))
        t == Expect(value, ";", "ExpectedSemi")
    IN  MakeFlagged(t, mark, "ConstDecl", <<Here(s), Before(t)>>,
                    Named(TextHere(name)), flags)

-----------------------------------------------------------------------------
\* Whatever starts no declaration: its doc comments are dropped.
ExpectedTopLevelDecl(s, mark) ==
    LET docs == IF Mark(s) > mark THEN Diag(s, "DocCommentNotAllowed") ELSE s
    IN  ErrorNode(Synchronize(Diag(Drop(docs, mark), "ExpectedTopLevelDecl")), Here(s))

\* Behind the doc comments, which are above the mark, and `pub`.
Declaration(P, t, mark, flags) ==
    CASE Check(t, "fn") -> ParseFnDecl(P, t, mark, flags, TRUE)
      [] Check(t, "unsafe") /\ PeekAt(t, 1) = "fn" ->
             ParseFnDecl(P, Advance(t), mark, flags \cup {"unsafe"}, TRUE)
      [] Check(t, "unsafe") /\ PeekAt(t, 1) # "fn" -> ParseConstDecl(P, t, mark, flags)
      [] Check(t, "const") -> ParseConstDecl(P, t, mark, flags)
      [] Check(t, "mod") -> ParseModDecl(P, t, mark, flags)
      [] Check(t, "struct") -> ParseStructDecl(P, t, mark, flags)
      [] Check(t, "enum") -> ParseEnumDecl(P, t, mark, flags)
      [] Check(t, "union") -> ParseUnionDecl(P, t, mark, flags)
      [] Check(t, "use") -> ParseUseDecl(t, mark, flags)
      [] Check(t, "trait") -> ParseTraitDecl(P, t, mark, flags)
      [] Check(t, "impl") -> ParseImplDecl(P, t, mark, flags)
      [] OTHER -> ExpectedTopLevelDecl(t, mark)

DeclRule(P, s) ==
    LET docs == DocComments(s)
    IN  Declaration(P, Consume(docs, "pub"), Mark(s),
                    IF Check(docs, "pub") THEN {"pub"} ELSE {})

-----------------------------------------------------------------------------
(* The recursion.                                                          *)

Rule(P, rule, minBP, s) ==
    CASE rule = "type" -> TypeRule(P, s)
      [] rule = "pat" -> PatRule(P, s)
      [] rule = "expr" -> ExprRule(P, s, minBP)
      [] rule = "infix" -> Infix(P, s, minBP)
      [] rule = "if" -> ParseIfExpr(P, s)
      [] rule = "stmt" -> StmtRule(P, s)
      [] rule = "decl" -> DeclRule(P, s)

\* Calls may be nested n deep in parse[n]; the one that is deeper is stuck.
parse[n \in Nat] ==
    [c \in Calls |->
        IF n = 0 THEN [c[3] EXCEPT !.stuck = TRUE]
        ELSE Rule(parse[n - 1], c[1], c[2], c[3])]

\* Between two tokens there is room for at most two calls.
MaxNesting(s) == 2 * Len(s.toks) + 2

ParseTopLevelDecl(s) == parse[MaxNesting(s)][<<"decl", 0, s>>]
=============================================================================
