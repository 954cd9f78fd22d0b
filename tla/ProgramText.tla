---------------------------- MODULE ProgramText ----------------------------
(***************************************************************************)
(* What a tree says: the tokens that spell it, by the syntax that          *)
(* NodeKinds.def gives with each kind and the precedences tabulated in     *)
(* Parser.h, with parentheses where a reader needs them.  The parser is    *)
(* checked against this: it shares no definition with the productions.     *)
(*                                                                         *)
(* It is not all of the documented syntax.  The parser rejects, or reads   *)
(* otherwise, and nothing here writes:                                     *)
(*   - a block's last expression without its semicolon, { x * 2 + 1 }      *)
(*     (NodeKinds.def:194-207, ASTNodes.h:195-203,                         *)
(*     statements-and-expressions.md:328-352, rejected by                  *)
(*     ParseStmt.cpp:75-86);                                               *)
(*   - a match statement without a semicolon                               *)
(*     (statements-and-expressions.md:85 makes it optional);               *)
(*   - ret without an expression (NodeKinds.def:174, ASTNodes.h:186);      *)
(*   - an assignment through two stars, unless what stands behind the      *)
(*     first is in parentheses (NodeKinds.def:238).                        *)
(*                                                                         *)
(* A tree is [kind, payload, flags, kids, short]; short is the spelling    *)
(* without what can be left out (`x` for `x: x` in a struct literal,       *)
(* `self` for `self: Self`, `.0.1` as one literal).                        *)
(***************************************************************************)
EXTENDS ParserBase

CONSTANT FloatParts     \* text of a float literal -> its parts around the dot

LOCAL INSTANCE SequencesExt

RECURSIVE Tree(_, _), Spell(_), HasBareStruct(_), EndsInStar(_)

Absent == [kind |-> "absent"]

-----------------------------------------------------------------------------
(* Reading a pool back.                                                    *)

\* (A tree that is read back spells its tuple indexes one by one.)
LeftShort(pool, i) ==
    LET kids == ChildrenOf(pool, i)
        span == SpanOf(pool, i)
        first == SpanOf(pool, kids[1])
    IN  CASE NodeAt(pool, i).kind \in {"FieldInit", "Param"} ->
                 first[1] - span[1] <= 1
          [] OTHER -> FALSE

Tree(pool, i) ==
    LET node == NodeAt(pool, i)
        kids == ChildrenOf(pool, i)
    IN  [kind |-> node.kind, payload |-> node.payload, flags |-> node.flags,
         short |-> LeftShort(pool, i),
         kids |-> [k \in DOMAIN kids |->
                      IF kids[k] = NullNode THEN Absent ELSE Tree(pool, kids[k])]]

-----------------------------------------------------------------------------
(* Precedence: the level of an expression and the least level its operands *)
(* may have without parentheses.                                           *)

Tightness ==
    <<{"=", "+=", "-=", "*=", "/=", "%=", "&=", "|=", "^=", "<<=", ">>="},
      {"||"}, {"&&"}, {"==", "!=", "<", ">", "<=", ">="}, {"|"}, {"^"}, {"&"},
      {"<<", ">>"}, {"+", "-"}, {"*", "/", "%"}>>
Prefix == Len(Tightness) + 1
Primary == Prefix + 1

OpLevel(op) == CHOOSE level \in DOMAIN Tightness : op \in Tightness[level]
RightAssociative(level) == level = 1

Op(t) == t.payload.text[1]

Level(t) ==
    CASE t.kind = "BinaryExpr" -> OpLevel(Op(t))
      [] t.kind = "ProjAssignExpr" -> OpLevel("=")
      [] t.kind = "UnaryExpr" -> Prefix
      [] t.kind \in {"IfExpr", "WhileStmt", "MatchExpr", "UnsafeBlock", "BlockExpr"} -> 0
      [] OTHER -> Primary

Parenthesised(t) == <<"(">> \o Spell(t) \o <<")">>

Operand(t, least) == IF Level(t) < least THEN Parenthesised(t) ELSE Spell(t)

\* A `*` whose operand an `=` would turn into an assignment through it.
EndsInStar(t) ==
    \/ t.kind = "UnaryExpr" /\ (Op(t) = "*" \/ EndsInStar(t.kids[1]))
    \/ t.kind = "BinaryExpr" /\ EndsInStar(t.kids[2])

AssignTarget(t, least) ==
    IF EndsInStar(t) THEN Parenthesised(t) ELSE Operand(t, least)

SpellBinary(t) ==
    LET level == Level(t)
        left == IF RightAssociative(level) THEN level + 1 ELSE level
        right == IF RightAssociative(level) THEN level ELSE level + 1
    IN  (IF Op(t) = "=" THEN AssignTarget(t.kids[1], left)
                        ELSE Operand(t.kids[1], left))
            \o <<Op(t)>> \o Operand(t.kids[2], right)

\* A struct literal outside all brackets: in a header its brace would be taken
\* for the block's.  (A block that stands in a header without parentheses inherits
\* the restriction, so it is given parentheses too.)
HasBareStruct(t) ==
    \/ t.kind = "StructLitExpr"
    \/ t.kind \in {"BinaryExpr", "UnaryExpr", "ProjAssignExpr"}
           /\ \E k \in DOMAIN t.kids : HasBareStruct(t.kids[k])
    \/ t.kind \in {"CallExpr", "IndexExpr", "TensorIndexExpr", "FieldExpr",
                   "TupleIndexExpr", "PropagateExpr", "CastExpr"}
           /\ HasBareStruct(t.kids[1])

HeaderText(t) == IF HasBareStruct(t) \/ Level(t) = 0 THEN Parenthesised(t) ELSE Spell(t)

-----------------------------------------------------------------------------
(* Sequences of trees.                                                     *)

All(ts) == FlattenSeq([k \in DOMAIN ts |-> Spell(ts[k])])

Commas(ts) ==
    FlattenSeq([k \in DOMAIN ts |->
                   (IF k = 1 THEN <<>> ELSE <<",">>) \o Spell(ts[k])])

In(open, text, close) == <<open>> \o text \o <<close>>

\* (With a semicolon behind a match statement and behind the last expression.)
StmtText(t) ==
    Spell(t) \o
        IF t.kind \in {"LetStmt", "RetStmt", "BreakStmt", "ContinueStmt", "IfExpr",
                       "WhileStmt", "ForStmt", "BlockExpr", "UnsafeBlock"}
        THEN <<>> ELSE <<";">>

Block(ts) == In("{", FlattenSeq([k \in DOMAIN ts |-> StmtText(ts[k])]), "}")

RegimeText(t) ==
    CASE t.payload.regime = 0 -> <<"imm">>
      [] t.payload.regime = 1 -> <<"mut">>
      [] t.payload.regime = 2 -> <<"proj">>
      [] OTHER -> <<>>

Types == {"NamedType", "ArrayType", "TensorType", "TupleType"}

\* The part of a declaration's children that is of some kinds.
Of(t, kinds) == SelectSeq(t.kids, LAMBDA k : k.kind \in kinds)
But(t, kinds) == SelectSeq(t.kids, LAMBDA k : k.kind \notin kinds)
Lead == {"DocComment", "GenericParamList"}

Annotated(ts) == IF ts = <<>> THEN <<>> ELSE <<":">> \o All(ts)

-----------------------------------------------------------------------------
SpellFn(t) ==
    (IF "unsafe" \in t.flags THEN <<"unsafe">> ELSE <<>>)
        \o <<"fn">> \o RegimeText(t) \o t.payload.text
        \o All(Of(t, {"GenericParamList", "ParamList"})) \o Annotated(Of(t, Types))
        \o (IF Last(t.kids) = Absent THEN <<";">> ELSE Spell(Last(t.kids)))

SpellImpl(t) ==
    LET rest == But(t, Lead)
        methods == SubSeq(rest, 3, Len(rest))
    IN  <<"impl">> \o All(Of(t, {"GenericParamList"}))
            \o (IF rest[1] = Absent THEN <<>> ELSE Spell(rest[1]) \o <<"for">>)
            \o Spell(rest[2]) \o In("{", All(methods), "}")

SpellBraced(t, keyword) ==
    LET members == But(t, Lead)
    IN  <<keyword>> \o t.payload.text \o All(Of(t, {"GenericParamList"}))
            \o In("{", IF keyword \in {"mod", "trait"} THEN All(members)
                       ELSE Commas(members), "}")

SpellDecl(t) ==
    All(Of(t, {"DocComment"}))
        \o (IF "pub" \in t.flags THEN <<"pub">> ELSE <<>>)
        \o CASE t.kind = "FnDecl" -> SpellFn(t)
             [] t.kind = "StructDecl" -> SpellBraced(t, "struct")
             [] t.kind = "EnumDecl" -> SpellBraced(t, "enum")
             [] t.kind = "UnionDecl" -> SpellBraced(t, "union")
             [] t.kind = "TraitDecl" -> SpellBraced(t, "trait")
             [] t.kind = "ModDecl" -> SpellBraced(t, "mod")
             [] t.kind = "ModDeclFile" -> <<"mod">> \o t.payload.text \o <<";">>
             [] t.kind = "UseDecl" -> <<"use">> \o t.payload.text \o <<";">>
             [] t.kind = "ConstDecl" ->
                    <<"const">> \o t.payload.text \o Annotated(Of(t, Types))
                        \o <<"=">> \o Spell(Last(t.kids)) \o <<";">>
             [] t.kind = "ImplDecl" -> SpellImpl(t)

Decls == {"FnDecl", "StructDecl", "EnumDecl", "UnionDecl", "TraitDecl", "ModDecl",
          "ModDeclFile", "UseDecl", "ConstDecl", "ImplDecl"}

\* Parts of declarations, types and patterns.
SpellPart(t) ==
    CASE t.kind \in {"StructField", "Param"} ->
             RegimeText(t) \o t.payload.text
                 \o (IF t.short THEN <<>> ELSE Annotated(t.kids))
      [] t.kind = "EnumVariantUnit" ->
             t.payload.text \o IF t.kids = <<>> THEN <<>> ELSE <<"=">> \o All(t.kids)
      [] t.kind = "EnumVariantTuple" -> t.payload.text \o In("(", Commas(t.kids), ")")
      [] t.kind = "EnumVariantStruct" -> t.payload.text \o In("{", Commas(t.kids), "}")
      [] t.kind = "ParamList" -> In("(", Commas(t.kids), ")")
      [] t.kind = "GenericParamList" -> In("<", Commas(t.kids), ">")
      [] t.kind = "GenericParam" ->
             t.payload.text \o Annotated(SelectSeq(t.kids, LAMBDA k : k # Absent))
      [] t.kind = "ArrayType" ->
             In("[", Spell(t.kids[1]) \o <<";">> \o Spell(t.kids[2]), "]")
      [] t.kind = "TensorType" ->
             <<"tensor">> \o In("[", Spell(t.kids[1]) \o <<";">>
                                         \o Commas(Tail(t.kids)), "]")
      [] t.kind = "TupleType" -> In("(", Commas(t.kids), ")")
      [] t.kind = "WildcardPat" -> <<"_">>
      [] t.kind = "StructPat" -> t.payload.text \o In("{", Commas(t.kids), "}")
      [] t.kind = "TuplePat" -> t.payload.text \o In("(", Commas(t.kids), ")")
      [] t.kind = "FieldPat" -> t.payload.text \o Annotated(t.kids)

Parts == {"StructField", "Param", "EnumVariantUnit", "EnumVariantTuple",
          "EnumVariantStruct", "ParamList", "GenericParamList", "GenericParam",
          "ArrayType", "TensorType", "TupleType", "WildcardPat", "StructPat",
          "TuplePat", "FieldPat"}

SpellLet(t) ==
    LET init == But(t, Types)
    IN  <<"let">> \o RegimeText(t) \o t.payload.text \o Annotated(Of(t, Types))
            \o (IF init = <<>> THEN <<>> ELSE <<"=">> \o All(init)) \o <<";">>

SpellIf(t) ==
    <<"if">> \o HeaderText(t.kids[1]) \o Spell(t.kids[2])
        \o IF Len(t.kids) = 2 THEN <<>> ELSE <<"else">> \o Spell(t.kids[3])

\* Statements and the expressions that hold them.
SpellStmt(t) ==
    CASE t.kind = "LetStmt" -> SpellLet(t)
      [] t.kind = "RetStmt" -> <<"ret">> \o Spell(t.kids[1]) \o <<";">>
      [] t.kind = "BreakStmt" -> <<"break", ";">>
      [] t.kind = "ContinueStmt" -> <<"continue", ";">>
      [] t.kind = "WhileStmt" -> <<"while">> \o HeaderText(t.kids[1]) \o Spell(t.kids[2])
      [] t.kind = "ForStmt" ->
             <<"for">> \o RegimeText(t) \o t.payload.text \o <<"in">>
                 \o HeaderText(t.kids[1]) \o Spell(t.kids[2])
      [] t.kind = "IfExpr" -> SpellIf(t)
      [] t.kind = "BlockExpr" -> Block(t.kids)
      [] t.kind = "UnsafeBlock" -> <<"unsafe">> \o Block(t.kids)
      [] t.kind = "MatchExpr" ->
             <<"match">> \o HeaderText(t.kids[1]) \o In("{", All(Tail(t.kids)), "}")
      [] t.kind = "MatchArm" ->
             Spell(t.kids[1]) \o <<"=>">> \o Spell(t.kids[2]) \o <<",">>

Stmts == {"LetStmt", "RetStmt", "BreakStmt", "ContinueStmt", "WhileStmt", "ForStmt",
          "IfExpr", "BlockExpr", "UnsafeBlock", "MatchExpr", "MatchArm"}

SpellTupleIndex(t) ==
    LET base == t.kids[1]
        literal == CHOOSE f \in DOMAIN FloatParts :
                       FloatParts[f] = base.payload.text \o t.payload.text
    IN  IF t.short THEN Operand(base.kids[1], Primary) \o <<".", literal>>
        ELSE Operand(base, Primary) \o <<".">> \o t.payload.text

SpellTensor(t) ==
    <<"tensor">> \o In("[", Commas(SubSeq(t.kids, 1, t.payload.values)) \o <<";">>
                                \o Commas(SubSeq(t.kids, t.payload.values + 1,
                                                 Len(t.kids))), "]")

SpellExpr(t) ==
    LET base == Operand(t.kids[1], Primary)
    IN  CASE t.kind = "BinaryExpr" -> SpellBinary(t)
          [] t.kind = "UnaryExpr" -> <<Op(t)>> \o Operand(t.kids[1], Prefix)
          [] t.kind = "ProjAssignExpr" ->
                 <<"*">> \o AssignTarget(t.kids[1], Prefix) \o <<"=">> \o Spell(t.kids[2])
          [] t.kind = "CallExpr" -> base \o In("(", Commas(t.kids[2].kids), ")")
          [] t.kind \in {"IndexExpr", "TensorIndexExpr"} ->
                 base \o In("[", Commas(Tail(t.kids)), "]")
          [] t.kind = "FieldExpr" -> base \o <<".">> \o t.payload.text
          [] t.kind = "TupleIndexExpr" -> SpellTupleIndex(t)
          [] t.kind = "PropagateExpr" -> base \o <<"?">>
          [] t.kind = "CastExpr" -> base \o <<"as">> \o Spell(t.kids[2])
          [] t.kind = "StructLitExpr" -> t.payload.text \o In("{", Commas(t.kids), "}")
          [] t.kind = "FieldInit" ->
                 t.payload.text \o IF t.short THEN <<>> ELSE Annotated(t.kids)
          [] t.kind = "ArrayLitExpr" -> In("[", Commas(t.kids), "]")
          [] t.kind = "ArrayRepeatExpr" ->
                 In("[", Spell(t.kids[1]) \o <<";">> \o Spell(t.kids[2]), "]")
          [] t.kind = "TensorLitExpr" -> SpellTensor(t)
          [] t.kind = "TupleExpr" ->
                 In("(", Commas(t.kids) \o (IF Len(t.kids) = 1 THEN <<",">> ELSE <<>>), ")")

Leaves == {"IdentExpr", "PathExpr", "LitExpr", "NamedType", "LiteralPat", "IdentPat",
           "DocComment", "FileDocComment"}

Spell(t) ==
    CASE t.kind = "SourceFile" -> All(t.kids)
      [] t.kind = "Error" -> <<"error">>
      [] t.kind \in Leaves -> t.payload.text
      [] t.kind \in Decls -> SpellDecl(t)
      [] t.kind \in Parts -> SpellPart(t)
      [] t.kind \in Stmts -> SpellStmt(t)
      [] OTHER -> SpellExpr(t)

-----------------------------------------------------------------------------
(* What tokens say: a float literal behind a dot is its parts, each behind *)
(* a dot of its own.                                                       *)

PartsHere(toks, i) == i > 1 /\ toks[i - 1] = "." /\ toks[i] \in DOMAIN FloatParts

Said(toks) ==
    FlattenSeq([i \in DOMAIN toks |->
                   IF ~PartsHere(toks, i) THEN <<toks[i]>>
                   ELSE LET parts == FloatParts[toks[i]]
                        IN  IF Len(parts) = 1 THEN parts
                            ELSE <<parts[1], ".", parts[2]>>])
=============================================================================
