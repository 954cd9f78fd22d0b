------------------------------- MODULE Parser -------------------------------
(***************************************************************************)
(* Parser::parseSourceFile over every token sequence of Inputs: the file's *)
(* doc comments, one top-level declaration after another, the root node.   *)
(***************************************************************************)
EXTENDS ParserGrammar

CONSTANT
    Inputs      \* the token sequences to parse, by what is known of them:
                \* "program": they spell one, without a superfluous token
                \* "member": one statement or member may be malformed
                \* "any": nothing

ASSUME InputsAssumption ==
    \A k \in DOMAIN Inputs : \A toks \in Inputs[k] :
        /\ toks \in Seq(Token)
        /\ \A i \in DOMAIN toks :
               Kind(toks[i]) = "float_literal" => toks[i] \in DOMAIN TupleIndexes

VARIABLES st,       \* the parser state (ParserBase)
          phase,    \* where parseSourceFile is: "docs", "decls" or "done"
          known     \* what is known of the input

vars == <<st, phase, known>>

Init ==
    /\ phase = "docs"
    /\ known \in DOMAIN Inputs
    /\ \E toks \in Inputs[known] : st = Start(toks)

ParseFileDocs ==
    /\ phase = "docs"
    /\ st' = FileDocComments(st)
    /\ phase' = "decls"
    /\ UNCHANGED known

ParseDecl ==
    /\ phase = "decls"
    /\ ~AtEof(st)
    /\ st' = ParseTopLevelDecl(st)
    /\ UNCHANGED <<phase, known>>

FinishFile ==
    /\ phase = "decls"
    /\ AtEof(st)
    /\ st' = Make(st, 0, "SourceFile", <<1, Before(st)>>, Nothing)
    /\ phase' = "done"
    /\ UNCHANGED known

Next == ParseFileDocs \/ ParseDecl \/ FinishFile

Spec == Init /\ [][Next]_vars /\ WF_vars(Next)

-----------------------------------------------------------------------------
(* Properties.                                                             *)

Indices == 1..(PoolSize(st.pool) - 1)
Kids(i) == ChildrenOf(st.pool, i)
KindOf(i) == NodeAt(st.pool, i).kind

\* The cursor stays inside the file; every value an active production holds and
\* every child of a node is a node made before (Parser.cpp, NodePool.cpp).
TypeOK ==
    /\ phase \in {"docs", "decls", "done"}
    /\ st.pos \in 0..Len(st.toks)
    /\ \A v \in DOMAIN st.vals : st.vals[v] \in Indices
    /\ \A i \in Indices : \A k \in DOMAIN Kids(i) :
           Kids(i)[k] \in 1..(i - 1) \cup {NullNode}
    /\ st.allow \in BOOLEAN

Source == SubSeq(st.toks, 1, Len(st.toks) - 1) \* the tokens of the file, without eof
Done == phase = "done"
Accepted == Done /\ st.errs = <<>>
Root == PoolSize(st.pool) - 1

\* Every loop of every production ends on every input: each round consumes a
\* token, in whatever state of confusion the rounds before left the parser; and so
\* does the recursion, no more than two calls deep for every token (parseSourceFile,
\* parseBlockExpr, synchronize, the lists, the recursive descent).
LoopsEnd == ~st.stuck

\* parseTopLevelDecl consumes a token even where nothing it knows begins, so
\* parseSourceFile comes to the end of the file (Parser.cpp:56-58).
DeclConsumes == [][phase' = "decls" /\ phase = "decls" => st'.pos > st.pos]_vars

\* No node is the child of two others, or twice of one, whatever is parsed and
\* however often it is dropped, wrapped or taken over.
NoneShared ==
    \A i, j \in Indices : \A k \in DOMAIN Kids(i), l \in DOMAIN Kids(j) :
        Kids(i)[k] = Kids(j)[l] /\ Kids(i)[k] # NullNode => i = j /\ k = l

\* And none is lost: in an accepted program every node but the root, which is the
\* last one made, is the child of another, and none of them is an error.  (The
\* number of the children of a node is kept in 16 bits, so a list as long as that
\* does lose some.)
NoneLost ==
    Accepted /\ Len(st.pool.children) < CountLimit =>
        \A i \in Indices :
            /\ KindOf(i) # "Error"
            /\ i = Root <=> \A j \in Indices : \A k \in DOMAIN Kids(j) : Kids(j)[k] # i

\* The pool holds a tree: what is dropped, wrapped or taken over on the way, on the
\* error paths too, leaves neither two parents nor, in an accepted program, none.
OneParent == NoneShared /\ NoneLost

\* The span of a node covers those of its children, which follow one another
\* without overlap; only doc comments stand before the declaration they are
\* attached to.  With diagnostics a span that runs from peekToken to previous may be
\* inverted, though never by more than the token that was not consumed, and all
\* stay within the file or stand at its end (ParseDecl.cpp:293-332).
Real(i) == SelectSeq(Kids(i), LAMBDA k : k # NullNode /\ KindOf(k) # "DocComment")
SpansNest ==
    Done => \A i \in Indices :
        LET span(n) == SpanOf(st.pool, n)
        IN  /\ 1 <= span(i)[1] /\ span(i)[1] <= span(i)[2] + 1
            /\ span(i)[2] <= Len(st.toks) + 1
            /\ st.errs = <<>> =>
                   /\ span(i)[1] <= span(i)[2] \/ Source = <<>>
                   /\ \A k \in DOMAIN Real(i) :
                          /\ span(i)[1] <= span(Real(i)[k])[1]
                          /\ span(Real(i)[k])[2] <= span(i)[2]
                          /\ k > 1 => span(Real(i)[k - 1])[2] < span(Real(i)[k])[1]

\* A malformed statement costs at most itself: once its semicolon has been
\* reached, the block goes on, ends at its own brace, and the declaration behind
\* it is found (ParseExpr.cpp:169-181, Parser.cpp:209-252).
Name(i) == NodeAt(st.pool, i).payload.text
LastKid(i) == Kids(i)[Len(Kids(i))]
NextDeclSurvives ==
    Done /\ known = "member" =>
        KindOf(LastKid(Root)) = "FnDecl" /\ Name(LastKid(Root)) = <<"g">>

\* A malformed member of a struct or an enum costs at most itself: behind the
\* next comma the list goes on (Parser.cpp:156-161).  (What stands behind a
\* well-formed member where a comma is missing is no member: it ends the list,
\* and the first diagnostic is the one for the brace.)
MembersSurvive ==
    /\ Done
    /\ known = "member"
    /\ KindOf(Kids(Root)[1]) \in {"StructDecl", "EnumDecl"}
    /\ st.errs = <<>> \/ Head(st.errs).id # "ExpectedClose"
    =>  LET last == LastKid(Kids(Root)[1])
        IN  /\ KindOf(last) \in {"StructField", "EnumVariantUnit"}
            /\ Name(last) = <<"y">>

\* Recovery is local: a malformed statement or member costs at most itself.
RecoveryIsLocal == NextDeclSurvives /\ MembersSurvive

\* A consumer finds the children of a node by their position: those of every node
\* of an accepted program are the ones its production lays out, in that order, and
\* what must be there is there.  (Not the ones NodeKinds.def documents, see
\* KidsAsTabulated.)
KindOrNull(i) == IF i = NullNode THEN Null ELSE KindOf(i)
KidKinds(i) == [k \in DOMAIN Kids(i) |-> KindOrNull(Kids(i)[k])]
KidsAsLaidOut == Accepted => \A i \in Indices : Fit(KidKinds(i), LaidOut(KindOf(i)))

\* A diagnostic brings a value for every placeholder of its message: the table of
\* templates and the some hundred places that report are kept together by hand,
\* and renderMessage prints what has no value as it stands.  (Not for an unsafe
\* block without its brace.)
Placeholders == {"tok", "keyword", "found", "context", "construct", "after"}
Unfilled(err) == {Rendered(err)[k] : k \in DOMAIN Rendered(err)} \cap Placeholders
MessagesFilled ==
    \A e \in DOMAIN st.errs :
        Unfilled(st.errs[e]) = IF "unsafe" \in {Source[k] : k \in DOMAIN Source}
                                    /\ st.errs[e].id = "ExpectedOpen"
                                    /\ "keyword" \notin DOMAIN st.errs[e].args
                               THEN {"found"} ELSE {}

-----------------------------------------------------------------------------
(* What the comments and the documentation say, and the code does not do.  *)

\* ParseExpr.cpp:170-172: structural boundaries are left "in the stream" so that
\* "the enclosing block / statement list" recovers "to the next `;` or `}`": a
\* block that ends in a malformed statement ends at its brace all the same.
BlockEndsAtBrace == NextDeclSurvives

\* NodeKinds.def:170-172 and 201-202: an expression "used as a statement" is the
\* child of an ExprStmt, "wrapped in ExprStmt", and :206: a block's children are
\* "[Stmt*, Expr?]": no two expressions are children of one block.
KidsAsTabulated == Accepted => \A i \in Indices : Fit(KidKinds(i), Children(KindOf(i)))
=============================================================================
