------------------------------ MODULE MCEterc ------------------------------
(***************************************************************************)
(* Every command line of up to MaxArgs arguments over an alphabet with one *)
(* argument of each kind (two input files), and a disk where main.et       *)
(* declares `mod a;` and a.et is there, absent, or declares itself.        *)
(***************************************************************************)
EXTENDS Eterc

CONSTANTS MaxArgs

MCPath == {"main", "a", "", "none"}
MCModName == {"a"}
MCFileDotEt == [pn \in MCPath \X MCModName |-> "a"]
MCModDotEt == [pn \in MCPath \X MCModName |-> "none"]

Present(its) == [exists |-> TRUE, opens |-> TRUE, items |-> its,
                 lexErrors |-> FALSE, parseErrors |-> FALSE]
Absent == [exists |-> FALSE, opens |-> FALSE, items |-> <<>>,
           lexErrors |-> FALSE, parseErrors |-> FALSE]
ModA == [name |-> "a", nested |-> FALSE]

MCDisks ==
    [main : {Present(<<ModA>>)}, a : {Present(<<>>), Present(<<ModA>>), Absent}]
MCDiskOf(d) == [p \in MCPath |-> IF p \in DOMAIN d THEN d[p] ELSE Absent]
MCAllDisks == {MCDiskOf(d) : d \in MCDisks}

Arg(kind, text) == [kind |-> kind, text |-> text]

MCArguments ==
    {Arg("version", "--version"), Arg("help", "-h"),
     Arg("debug", "--debug"), Arg("debugOnly", "driver"),
     Arg("O0", "-O0"), Arg("o", "-o"), Arg("unknown", "-x"),
     Arg("empty", ""), Arg("input", "main"), Arg("input", "a")}

MCCommandLines == UNION {[1..n -> MCArguments] : n \in 0..MaxArgs}
=============================================================================
