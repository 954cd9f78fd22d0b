----------------------------- MODULE NodeKinds -----------------------------
(***************************************************************************)
(* The kinds of nodes and the children each has (NodeKinds.def), which are *)
(* all that a consumer of the tree can rely on: children are found by      *)
(* their position.                                                         *)
(*                                                                         *)
(* The children of a kind are a sequence of slots: the kinds that fit and  *)
(* how often.  Children(kind) is what the table documents; LaidOut(kind)   *)
(* what the parser makes, which for some kinds is something else.          *)
(***************************************************************************)
LOCAL INSTANCE Naturals
LOCAL INSTANCE Sequences

One(kinds) == [kinds |-> kinds, min |-> 1, many |-> FALSE]
Optional(kinds) == [kinds |-> kinds, min |-> 0, many |-> FALSE]
Many(kinds) == [kinds |-> kinds, min |-> 0, many |-> TRUE]
AtLeastOne(kinds) == [kinds |-> kinds, min |-> 1, many |-> TRUE]

\* The kind of a child that is NullNode.
Null == "NullNode"

-----------------------------------------------------------------------------
(* Categories.                                                             *)

TypeKinds == {"NamedType", "ArrayType", "TensorType", "TupleType", "AttrType"}
PatKinds == {"WildcardPat", "LiteralPat", "IdentPat", "StructPat", "TuplePat"}
StmtKinds ==
    {"LetStmt", "ExprStmt", "RetStmt", "ForStmt", "WhileStmt", "BreakStmt", "ContinueStmt"}
ExprKinds ==
    {"UnsafeBlock", "BlockExpr", "IfExpr", "MatchExpr", "BinaryExpr", "UnaryExpr",
     "CastExpr", "ProjAssignExpr", "CallExpr", "IndexExpr", "TensorIndexExpr",
     "FieldExpr", "TupleIndexExpr", "StructLitExpr", "ArrayLitExpr",
     "ArrayRepeatExpr", "TensorLitExpr", "TupleExpr", "IdentExpr", "PathExpr",
     "LitExpr", "PropagateExpr", "GenericArgList"}
VariantKinds == {"EnumVariantUnit", "EnumVariantTuple", "EnumVariantStruct"}
TopLevelDeclKinds ==
    {"FnDecl", "StructDecl", "EnumDecl", "UnionDecl", "ModDecl", "ModDeclFile",
     "UseDecl", "ConstDecl", "TraitDecl", "ImplDecl"}

NodeKind ==
    TypeKinds \cup PatKinds \cup StmtKinds \cup ExprKinds \cup VariantKinds
        \cup TopLevelDeclKinds
        \cup {"Error", "SourceFile", "FileDocComment", "DocComment", "StructField",
              "Param", "ParamList", "GenericParam", "GenericParamList", "ArgList",
              "MatchArm", "FieldInit", "FieldPat"}

AType == One(TypeKinds)
AnExpr == One(ExprKinds)
ABlock == One({"BlockExpr"})
DocsFirst == Many({"DocComment"})
StmtsAndTail == <<Many(StmtKinds), Optional(ExprKinds)>>

-----------------------------------------------------------------------------
(* The children the table documents.                                       *)

LeafKinds ==
    {"FileDocComment", "DocComment", "BreakStmt", "ContinueStmt", "IdentExpr",
     "PathExpr", "LitExpr", "NamedType", "WildcardPat", "LiteralPat", "IdentPat"}

DeclChildren(kind) ==
    CASE kind = "SourceFile" -> <<Many({"FileDocComment"}), Many(TopLevelDeclKinds)>>
      [] kind = "FnDecl" ->
             <<DocsFirst, One({"ParamList"}), Optional(TypeKinds), ABlock>>
      [] kind \in {"StructDecl", "UnionDecl"} -> <<DocsFirst, Many({"StructField"})>>
      [] kind = "EnumDecl" -> <<DocsFirst, Many(VariantKinds)>>
      [] kind = "ModDecl" -> <<DocsFirst, Many(TopLevelDeclKinds)>>
      [] kind \in {"ModDeclFile", "UseDecl"} -> <<DocsFirst>>
      [] kind = "ConstDecl" -> <<DocsFirst, AType, AnExpr>>
      [] kind = "TraitDecl" -> <<DocsFirst, Many({"FnDecl"})>>
      [] kind = "ImplDecl" ->
             <<DocsFirst, One(TypeKinds \cup {Null}), AType, Many({"FnDecl"})>>
      [] kind \in {"StructField", "Param"} -> <<AType>>
      [] kind = "EnumVariantUnit" -> <<Optional(ExprKinds)>>
      [] kind = "EnumVariantTuple" -> <<Many(TypeKinds)>>
      [] kind = "EnumVariantStruct" -> <<Many({"StructField"})>>
      [] kind = "ParamList" -> <<Many({"Param"})>>
      [] kind = "GenericParam" -> <<One(TypeKinds \cup {Null})>>
      [] kind = "GenericParamList" -> <<Many({"GenericParam"})>>

StmtChildren(kind) ==
    CASE kind = "LetStmt" -> <<Optional(TypeKinds), Optional(ExprKinds)>>
      [] kind = "ExprStmt" -> <<AnExpr>>
      [] kind = "RetStmt" -> <<Optional(ExprKinds)>>
      [] kind \in {"ForStmt", "WhileStmt"} -> <<AnExpr, ABlock>>

ExprChildren(kind) ==
    CASE kind \in {"UnsafeBlock", "BlockExpr"} -> StmtsAndTail
      [] kind = "IfExpr" -> <<AnExpr, ABlock, Optional({"BlockExpr", "IfExpr"})>>
      [] kind = "MatchExpr" -> <<AnExpr, Many({"MatchArm"})>>
      [] kind = "MatchArm" -> <<One(PatKinds), AnExpr>>
      [] kind \in {"BinaryExpr", "ProjAssignExpr", "IndexExpr", "ArrayRepeatExpr"} ->
             <<AnExpr, AnExpr>>
      [] kind \in {"UnaryExpr", "FieldExpr", "TupleIndexExpr", "FieldInit",
                   "PropagateExpr"} -> <<AnExpr>>
      [] kind = "CastExpr" -> <<AnExpr, AType>>
      [] kind = "CallExpr" -> <<AnExpr, One({"ArgList"})>>
      [] kind = "TensorIndexExpr" -> <<AnExpr, AnExpr, AtLeastOne(ExprKinds)>>
      [] kind = "StructLitExpr" -> <<Many({"FieldInit"})>>
      [] kind \in {"ArgList", "ArrayLitExpr", "TupleExpr"} -> <<Many(ExprKinds)>>
      [] kind = "GenericArgList" -> <<Many(TypeKinds)>>
      [] kind = "TensorLitExpr" -> <<AtLeastOne(ExprKinds), AtLeastOne(ExprKinds)>>

TypeChildren(kind) ==
    CASE kind = "ArrayType" -> <<AType, AnExpr>>
      [] kind = "AttrType" -> <<AType>>
      [] kind = "TensorType" -> <<AType, AtLeastOne(ExprKinds)>>
      [] kind = "TupleType" -> <<Many(TypeKinds)>>

PatChildren(kind) ==
    CASE kind = "StructPat" -> <<Many({"FieldPat"})>>
      [] kind = "TuplePat" -> <<Many(PatKinds)>>
      [] kind = "FieldPat" -> <<Optional(PatKinds)>>

Children(kind) ==
    CASE kind \in LeafKinds -> <<>>
      [] kind \in StmtKinds \ LeafKinds -> StmtChildren(kind)
      [] kind \in (ExprKinds \ LeafKinds)
                      \cup {"ArgList", "MatchArm", "FieldInit"} -> ExprChildren(kind)
      [] kind \in TypeKinds \ LeafKinds -> TypeChildren(kind)
      [] kind \in (PatKinds \ LeafKinds) \cup {"FieldPat"} -> PatChildren(kind)
      [] OTHER -> DeclChildren(kind)

-----------------------------------------------------------------------------
(* The children the parser lays out.                                       *)

\* Generic parameters stand behind the doc comments.
WithGenerics(slots) ==
    <<Head(slots), Optional({"GenericParamList"})>> \o Tail(slots)

\* `while` starts an expression.
WithWhile(slot) ==
    IF ExprKinds \subseteq slot.kinds
    THEN [slot EXCEPT !.kinds = @ \cup {"WhileStmt"}]
    ELSE slot

\* Expressions are statements as they are, the last one among them; a method of a
\* trait has no body; `ret` has an expression always.
Layout(kind) ==
    CASE kind = "FnDecl" ->
             WithGenerics(<<DocsFirst, One({"ParamList"}), Optional(TypeKinds),
                            One({"BlockExpr", Null})>>)
      [] kind \in {"StructDecl", "UnionDecl", "EnumDecl", "TraitDecl", "ImplDecl"} ->
             WithGenerics(Children(kind))
      [] kind = "RetStmt" -> <<AnExpr>>
      [] kind \in {"BlockExpr", "UnsafeBlock"} -> <<Many(StmtKinds \cup ExprKinds)>>
      [] OTHER -> Children(kind)

LaidOut(kind) == [n \in DOMAIN Layout(kind) |-> WithWhile(Layout(kind)[n])]

\* Whether the slots can take the kinds, in their order.
Fit(kinds, slots) ==
    LET fits[k \in 1..(Len(kinds) + 1), n \in 1..(Len(slots) + 1)] ==
            IF n > Len(slots) THEN k > Len(kinds)
            ELSE \/ slots[n].min = 0 /\ fits[k, n + 1]
                 \/ /\ k <= Len(kinds)
                    /\ kinds[k] \in slots[n].kinds
                    /\ \/ fits[k + 1, n + 1]
                       \/ slots[n].many /\ fits[k + 1, n]
    IN  fits[1, 1]
=============================================================================
