----------------------------- MODULE ParserText -----------------------------
(***************************************************************************)
(* What the parser makes of a program, against what the program says: the  *)
(* tree in the pool is spelled (ProgramText) and compared with the tokens. *)
(***************************************************************************)
EXTENDS Parser, ProgramText

\* What ProgramText writes, the parser understands: it accepts it, and the tree it
\* builds spells the same text.  So operators bind and associate as the table in
\* Parser.h:218-240 says, every construct takes part in every other, and no
\* declaration, statement, flag or regime is lost.  (That is the documented syntax
\* without what the parser rejects of it: ProgramText lists that.)
RoundTrip ==
    Done /\ known = "program" =>
        st.errs = <<>> /\ Spell(Tree(st.pool, Root)) = Said(Source)

\* No text is dropped or invented: what a program accepted without a diagnostic
\* says, but for parentheses, commas and semicolons, its tree says in the
\* same order.  (Not where a float literal behind a dot has an `f` at its end or
\* other than digits behind its dot: these are dropped, ParseExpr.cpp:217-232.)
Significant(toks) == SelectSeq(toks, LAMBDA t : t \notin {"(", ")", ",", ";"})
SaysItsSource == Significant(Spell(Tree(st.pool, Root))) = Significant(Said(Source))
Cut(toks) ==
    {i \in DOMAIN toks : PartsHere(toks, i) /\ TupleIndexes[toks[i]] # FloatParts[toks[i]]}
SpellsBack == Accepted /\ Cut(Source) = {} => SaysItsSource

-----------------------------------------------------------------------------
(* What the comments and the documentation say, and the code does not do.  *)

\* ParseExpr.cpp:213: "Extract each integer part as a separate tuple index.": the
\* tree of a chain of tuple indexes says every index that is written.
EachPartIndexes == Accepted => SaysItsSource
=============================================================================
