----------------------------- MODULE PackGraph -----------------------------
(***************************************************************************)
(* The file graph of a pack: which file a `mod name;` declaration refers   *)
(* to, which files a root reaches, and what makes a pack defective.        *)
(*                                                                         *)
(* A disk is a function from paths to file records                         *)
(*                                                                         *)
(*   exists       std::filesystem::exists answers true                     *)
(*   opens        SourceBuffer::makeFromFileName succeeds                  *)
(*   items        the module declarations of the file, in source order;    *)
(*                "nested" ones stand inside an inline `mod m { ... }` and *)
(*                so are not children of the SourceFile node               *)
(*   lexErrors    lexing the file yields at least one LexerError           *)
(*   parseErrors  parsing the file yields at least one PhaseDiagnostic     *)
(*                                                                         *)
(* A path can exist and yet not open (a directory, no permission, removed  *)
(* between the two calls); `exists` is never consulted for the root.       *)
(***************************************************************************)
EXTENDS Integers, Sequences

CONSTANTS
    Path,       \* the paths the driver may build
    ModName,    \* the names `mod name;` may declare
    FileDotEt,  \* FileDotEt[p, n]: Dir / (n + ".et"), Dir the parent of p
    ModDotEt,   \* ModDotEt[p, n]:  Dir / n / "mod.et"
    NoPath,     \* "neither candidate exists"
    Disks       \* the file systems considered

Item == [name : ModName, nested : BOOLEAN]

File == [exists : BOOLEAN, opens : BOOLEAN, items : Seq(Item),
         lexErrors : BOOLEAN, parseErrors : BOOLEAN]

ASSUME PathAssumption ==
    /\ NoPath \notin Path
    /\ FileDotEt \in [Path \X ModName -> Path]
    /\ ModDotEt \in [Path \X ModName -> Path]

ASSUME DisksAssumption == \A d \in Disks : d \in [Path -> File]

-----------------------------------------------------------------------------
\* foo.et wins over foo/mod.et, and only existence is looked at: a foo.et that
\* cannot be opened is not skipped in favour of foo/mod.et.
Locate(d, p, n) ==
    IF d[FileDotEt[p, n]].exists THEN FileDotEt[p, n]
    ELSE IF d[ModDotEt[p, n]].exists THEN ModDotEt[p, n]
    ELSE NoPath

\* The positions of a file's ModDeclFile nodes among its declarations: the
\* children of the root node, without what is nested in inline modules.
FileMods(d, p) == {i \in DOMAIN d[p].items : ~d[p].items[i].nested}

ChildAt(d, p, i) == Locate(d, p, d[p].items[i].name)

Children(d, p) == {ChildAt(d, p, i) : i \in FileMods(d, p)}

\* Nothing about the file itself stops it from being loaded.
Loadable(d, p) == d[p].opens /\ NoPath \notin Children(d, p)

\* S holds the children of each of its members.
ClosedSet(d, S) == \A p \in S : Children(d, p) \ {NoPath} \subseteq S

\* The files of the pack rooted at r: the least closed set that contains r.
Reach(d, r) ==
    {p \in Path : \A S \in SUBSET Path : r \in S /\ ClosedSet(d, S) => p \in S}

\* No cycle within S: every non-empty part of S has a member without a child
\* in that part.
WellFounded(d, S) ==
    \A T \in SUBSET S : T # {} => \E p \in T : Children(d, p) \cap T = {}

\* A pack that can be built: every file it reaches loads and none reaches itself.
WellFormed(d, r) ==
    /\ \A p \in Reach(d, r) : Loadable(d, p)
    /\ WellFounded(d, Reach(d, r))
=============================================================================
