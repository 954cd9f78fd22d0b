------------------------------ MODULE MCParser ------------------------------
(***************************************************************************)
(* The vocabulary of the inputs, and trees to make them from.              *)
(***************************************************************************)
EXTENDS ParserText, TLC

MCIdentifiers == {"a", "b", "x", "y", "f", "g", "S", "_", "self"}
MCLiteralKind == ("1" :> "integer_literal") @@ ("0" :> "integer_literal")
                     @@ ("5" :> "integer_literal")
                     @@ [f \in {"0.1", "0.1_2", "1.5f", "1f"} |-> "float_literal"]

\* What parsePostfixOrCallExpr makes of a float literal, and what is written.
MCTupleIndexes == ("0.1" :> <<"0", "1">>) @@ ("0.1_2" :> <<"0">>)
                      @@ ("1.5f" :> <<"1", "5">>) @@ ("1f" :> <<>>)
MCFloatParts == ("0.1" :> <<"0", "1">>) @@ ("0.1_2" :> <<"0", "1_2">>)
                    @@ ("1.5f" :> <<"1", "5f">>) @@ ("1f" :> <<"1f">>)

-----------------------------------------------------------------------------
(* Trees.                                                                  *)

T(kind, text, kids) ==
    [kind |-> kind, payload |-> Named(text), flags |-> {}, short |-> FALSE,
     kids |-> kids]
R(kind, regime, name, kids) ==
    [T(kind, <<>>, kids) EXCEPT !.payload = WithRegime(<<name>>, regime)]
Short(t) == [t EXCEPT !.short = TRUE]
Plain(kind, kids) == T(kind, <<>>, kids)

Id(x) == T("IdentExpr", <<x>>, <<>>)
Lit(x) == T("LitExpr", <<x>>, <<>>)
Bin(op, l, r) == T("BinaryExpr", <<op>>, <<l, r>>)
Un(op, e) == T("UnaryExpr", <<op>>, <<e>>)
Assign(l, r) == Plain("ProjAssignExpr", <<l, r>>)
StructLit(kids) == T("StructLitExpr", <<"S">>, kids)
FieldInit(e) == T("FieldInit", <<"x">>, <<e>>)
Named1(x) == T("NamedType", <<x>>, <<>>)
BlockOf(ts) == Plain("BlockExpr", ts)
Tensor(values, dims) ==
    [Plain("TensorLitExpr", values \o dims) EXCEPT
        !.payload = [values |-> Len(values)]]

Postfixed(e) ==
    {Plain("CallExpr", <<e, Plain("ArgList", <<>>)>>),
     Plain("CallExpr", <<e, Plain("ArgList", <<Lit("1"), StructLit(<<>>)>>)>>),
     Plain("IndexExpr", <<e, Id("a")>>),
     Plain("TensorIndexExpr", <<e, Id("a"), StructLit(<<>>)>>),
     T("FieldExpr", <<"x">>, <<e>>), T("TupleIndexExpr", <<"0">>, <<e>>),
     Short(T("TupleIndexExpr", <<"1">>, <<T("TupleIndexExpr", <<"0">>, <<e>>)>>)),
     Plain("PropagateExpr", <<e>>), Plain("CastExpr", <<e, Named1("a")>>),
     Plain("CastExpr", <<e, Plain("TupleType", <<>>)>>)}

Bracketed(e) ==
    {Plain("TupleExpr", <<e>>), Plain("TupleExpr", <<e, Id("a")>>),
     Plain("ArrayLitExpr", <<e>>), Plain("ArrayLitExpr", <<Id("a"), e>>),
     Plain("ArrayRepeatExpr", <<e, Lit("1")>>),
     Tensor(<<e>>, <<Lit("1")>>), Tensor(<<Id("a"), e>>, <<Lit("1"), Lit("1")>>),
     StructLit(<<FieldInit(e)>>),
     StructLit(<<Short(T("FieldInit", <<"x">>, <<Id("x")>>)), FieldInit(e)>>)}

If(e, kids) == Plain("IfExpr", <<e, BlockOf(<<StructLit(<<>>)>>)>> \o kids)

\* The construct's block holds a struct literal: legal again behind the header.
Headed(e) ==
    {If(e, <<>>), If(e, <<BlockOf(<<>>)>>), If(Id("a"), <<If(e, <<>>)>>),
     Plain("MatchExpr",
           <<e, Plain("MatchArm", <<Plain("WildcardPat", <<>>), StructLit(<<>>)>>)>>)}

Unary(e) == {Un("-", e), Un("*", e), Assign(e, Id("a")), Assign(Id("a"), e)}

-----------------------------------------------------------------------------
(* Programs.                                                               *)

File(decls) == Plain("SourceFile", decls)
Params(ps) == Plain("ParamList", ps)
Fn(kids) == R("FnDecl", NoRegime, "f", kids)
Body(stmts) == Fn(<<Params(<<>>), BlockOf(stmts)>>)
FnG == R("FnDecl", NoRegime, "g", <<Params(<<>>), BlockOf(<<StructLit(<<>>)>>)>>)
=============================================================================
