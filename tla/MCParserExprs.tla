--------------------------- MODULE MCParserExprs ---------------------------
(***************************************************************************)
(* Inputs for Parser: the spellings of a set of expressions, statements    *)
(* and patterns.                                                           *)
(***************************************************************************)
EXTENDS MCParser

E0 == {Id("a"), Lit("1")}

Operators == {"=", "+=", "||", "<", "&", "-", "*"}
Operations == {"=", "-", "*"}

E1 == E0 \cup {StructLit(<<>>), Plain("TupleExpr", <<>>), Plain("ArrayLitExpr", <<>>),
               T("PathExpr", <<"a", "::", "b">>, <<>>), BlockOf(<<>>),
               Plain("UnsafeBlock", <<Id("a")>>), Plain("MatchExpr", <<Id("a")>>)}
         \cup {Bin(op, l, r) : op \in Operators, l \in E0, r \in E0}
         \cup UNION {Unary(e) \cup Postfixed(e) \cup Bracketed(e) \cup Headed(e) :
                         e \in E0}

\* Where operands matter.
F1 == {Id("a"), StructLit(<<>>), Un("-", Id("a")), Un("*", Id("a")),
       Assign(Id("a"), Id("b")), If(Id("a"), <<>>), BlockOf(<<>>)}
         \cup {Bin(op, Id("a"), Id("b")) : op \in Operators}

E2 == E1 \cup {Bin(op, l, r) : op \in Operators, l \in F1, r \in F1}
         \cup UNION {Unary(e) \cup Postfixed(e) \cup Bracketed(e) \cup Headed(e) :
                         e \in E1}

E3 == {Bin(op, Bin(op1, Id("a"), l), r) : op \in Operations, op1 \in Operations,
                                          l \in F1, r \in F1}
         \cup {Bin(op, l, Bin(op1, r, Id("a"))) : op \in Operations,
                   op1 \in Operations, l \in F1, r \in F1}
         \cup {Un("-", Un(op, e)) : op \in {"-", "*"}, e \in F1}

\* Statements that are no expression statement, around an expression.
StmtsOf(e) ==
    {R("LetStmt", 1, "x", <<Named1("a"), e>>), R("LetStmt", NoRegime, "x", <<e>>),
     Plain("RetStmt", <<e>>), Plain("WhileStmt", <<e, BlockOf(<<StructLit(<<>>)>>)>>),
     R("ForStmt", 2, "x", <<e, BlockOf(<<Plain("ContinueStmt", <<>>)>>)>>),
     Plain("UnsafeBlock", <<Plain("BreakStmt", <<>>), e>>)}

Expressions == E1 \cup E2 \cup E3
ProgramStmts == Expressions \cup UNION {StmtsOf(e) : e \in E1}
ExpressionPrograms == {File(<<Body(<<e>>), FnG>>) : e \in ProgramStmts}

Patterns ==
    LET p0 == {Plain("WildcardPat", <<>>), T("LiteralPat", <<"1">>, <<>>),
               R("IdentPat", NoRegime, "a", <<>>)}
        Over(p) == {T("TuplePat", <<>>, <<p>>), T("TuplePat", <<"S">>, <<p, p>>),
                    T("StructPat", <<"S">>, <<T("FieldPat", <<"x">>, <<>>),
                                              T("FieldPat", <<"y">>, <<p>>)>>)}
    IN  p0 \cup UNION {Over(p) : p \in p0 \cup UNION {Over(p) : p \in p0}}

PatternPrograms ==
    {File(<<Body(<<Plain("MatchExpr",
                         <<Id("a"), Plain("MatchArm", <<p, Id("a")>>),
                           Plain("MatchArm", <<Plain("WildcardPat", <<>>),
                                               Id("b")>>)>>)>>)>>) :
        p \in Patterns}

MCExpressions == {Spell(p) : p \in ExpressionPrograms \cup PatternPrograms}
=============================================================================
