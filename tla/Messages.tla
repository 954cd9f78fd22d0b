------------------------------ MODULE Messages ------------------------------
(***************************************************************************)
(* The messages of the parser's diagnostics: their templates               *)
(* (ParserDiagnostics.def) and how placeholders are filled                 *)
(* (PhaseDiagnostic.cpp).                                                  *)
(*                                                                         *)
(* A template is a sequence of symbols: `{`, `}`, the name of an argument  *)
(* between them, and the text around, of which only the braces matter.  A  *)
(* template without a brace is one symbol, its DiagID.  The arguments of a *)
(* diagnostic are a function from their names to their values.             *)
(***************************************************************************)
LOCAL INSTANCE Naturals
LOCAL INSTANCE Sequences

DiagID ==
    {"ID", "ExpectedTopLevelDecl", "ExpectedStmt", "ExpectedExpr",
     "ExpectedPattern", "ExpectedRegime", "ExpectedName", "ExpectedKeyword",
     "ExpectedIdentifier", "ExpectedTypeName", "ExpectedToken",
     "ExpectedTokenAfter", "ExpectedPathSegment", "RedundantPathSeparator",
     "ExpectedOpen", "ExpectedClose", "ExpectedSemi", "ExpectedColon", "ExpectedEq",
     "ExpectedArgListClose", "ExpectedParenExprClose", "ExpectedTupleExprClose",
     "ExpectedFieldName", "ExpectedFieldInitName", "ExpectedStructLitClose",
     "ExpectedArrayLitClose", "ExpectedTensorIndexClose", "ExpectedTensorLitDim",
     "ExpectedTensorLitClose", "ExpectedRSquare", "ExpectedTupleTypeClose",
     "ExpectedArrayTypeSemi", "ExpectedArrayTypeClose", "ExpectedTensorTypeSemi",
     "ExpectedTensorTypeClose", "ExpectedTensorOpen", "ExpectedFatArrow",
     "ExpectedTuplePatClose", "ExpectedStructPatClose", "ExpectedFieldPatName",
     "ExpectedModOpenOrSemi", "ExpectedForInImpl", "ExpectedTraitFnSemi",
     "ExpectedReturnTypeColon", "ExpectedBreakOrContinueSemi", "ExpectedLessThan",
     "ExpectedGreaterThan", "ExpectedTypeParam", "ExpectedCommaOrGreater",
     "ExpectedModKeyword", "ExpectedModName", "ExpectedUseItem",
     "ExpectedUseItemOrGlob", "ExpectedAsAlias", "DocCommentNotAllowed"}

Placeholder(name) == <<"{", name, "}">>
InContext(what) == <<"expected">> \o what \o Placeholder("context")
                       \o <<", found">> \o Placeholder("found")

messageFor(diag) ==
    CASE diag = "ExpectedName" ->
             <<"expected">> \o Placeholder("construct") \o <<"name, found">>
                 \o Placeholder("found")
      [] diag = "ExpectedKeyword" ->
             <<"expected">> \o Placeholder("keyword") \o <<", found">>
                 \o Placeholder("found")
      [] diag = "ExpectedIdentifier" -> InContext(<<"identifier">>)
      [] diag = "ExpectedToken" -> <<"expected">> \o Placeholder("tok")
      [] diag = "ExpectedTokenAfter" ->
             <<"expected">> \o Placeholder("tok") \o <<"after">> \o Placeholder("after")
      [] diag \in {"ExpectedOpen", "ExpectedClose"} -> InContext(Placeholder("tok"))
      [] diag = "ExpectedSemi" -> InContext(<<";">>)
      [] diag = "ExpectedColon" -> InContext(<<":">>)
      [] diag = "ExpectedEq" -> InContext(<<"=">>)
      [] diag \in {"ExpectedStructLitClose", "ExpectedStructPatClose"} ->
             <<"expected", "}", "to close">>
      [] diag = "ExpectedModOpenOrSemi" -> <<"expected", "{", "{", "or ;">>
      [] diag = "ExpectedReturnTypeColon" ->
             <<"expected : for return type, found">> \o Placeholder("found")
      [] OTHER -> <<diag>>

\* What has no argument stays as it is, and so does the rest behind a `{` that is
\* not closed; the name of a placeholder is everything up to the next `}`.
renderMessage(template, args) ==
    LET Close(i) == CHOOSE c \in (i + 1)..Len(template) :
                        /\ template[c] = "}"
                        /\ \A d \in (i + 1)..(c - 1) : template[d] # "}"
        Closed(i) == \E c \in (i + 1)..Len(template) : template[c] = "}"
        Name(i) == SubSeq(template, i + 1, Close(i) - 1)
        Has(i) == Len(Name(i)) = 1 /\ Name(i)[1] \in DOMAIN args
        from[i \in 1..(Len(template) + 1)] ==
            CASE i > Len(template) -> <<>>
              [] i <= Len(template) /\ template[i] # "{" ->
                     <<template[i]>> \o from[i + 1]
              [] i <= Len(template) /\ template[i] = "{" /\ ~Closed(i) ->
                     SubSeq(template, i, Len(template))
              [] OTHER ->
                     (IF Has(i) THEN <<args[Name(i)[1]]>>
                      ELSE SubSeq(template, i, Close(i))) \o from[Close(i) + 1]
    IN  from[1]

Rendered(err) == renderMessage(messageFor(err.id), err.args)
=============================================================================
