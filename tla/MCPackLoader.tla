---------------------------- MODULE MCPackLoader ----------------------------
(***************************************************************************)
(* Two directories, two module names.  The root is main.et; a.et, b.et and *)
(* a/mod.et are next to it, a/b.et below; "none" stands for every path     *)
(* where no disk has a file.                                               *)
(***************************************************************************)
EXTENDS PackLoader, TLC

MCPath == {"main", "a", "b", "amod", "ab", "none"}
MCModName == {"a", "b"}

InSubdir(p) == p \in {"amod", "ab"}

MCFileDotEt == [pn \in MCPath \X MCModName |->
    CASE pn[2] = "a" /\ ~InSubdir(pn[1]) -> "a"
      [] pn[2] = "b" /\ ~InSubdir(pn[1]) -> "b"
      [] pn[2] = "b" /\ InSubdir(pn[1]) -> "ab"
      [] OTHER -> "none"]

MCModDotEt == [pn \in MCPath \X MCModName |->
    IF pn[2] = "a" /\ ~InSubdir(pn[1]) THEN "amod" ELSE "none"]

Mod(n) == [name |-> n, nested |-> FALSE]
Nested(n) == [name |-> n, nested |-> TRUE]

\* What a file may declare.
MCDecls ==
    [main |-> {<<Mod("a")>>, <<Mod("b"), Mod("a")>>, <<Mod("a"), Mod("a")>>,
               <<Nested("b"), Mod("a")>>},
     a    |-> {<<>>, <<Mod("b")>>, <<Mod("b"), Mod("a")>>},
     b    |-> {<<>>, <<Mod("a")>>},
     amod |-> {<<>>, <<Mod("b")>>},
     ab   |-> {<<>>, <<Mod("b")>>}]

\* Which of the small set of paths are absent, or present and unreadable.
MCStates ==
    [main |-> {"ok"}, a |-> {"ok", "absent", "unreadable"}, b |-> {"ok", "absent"},
     amod |-> {"ok", "absent"}, ab |-> {"ok", "unreadable"}, none |-> {"absent"}]

\* Lexer errors in a.et and main.et, parser errors in a.et and b.et.
FileOf(p, st, its) ==
    [exists |-> st # "absent", opens |-> st = "ok", items |-> its,
     lexErrors |-> p \in {"main", "a"}, parseErrors |-> p \in {"a", "b"}]

MCFiles(p) ==
    {FileOf(p, "ok", its) : its \in IF "ok" \in MCStates[p] THEN MCDecls[p] ELSE {}}
        \cup {FileOf(p, st, <<>>) : st \in MCStates[p] \ {"ok"}}

MCDisks ==
    [main : MCFiles("main"), a : MCFiles("a"), b : MCFiles("b"),
     amod : MCFiles("amod"), ab : MCFiles("ab"), none : MCFiles("none")]
=============================================================================
