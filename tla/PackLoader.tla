----------------------------- MODULE PackLoader -----------------------------
(***************************************************************************)
(* Driver::compilePack and the recursive Driver::parseFile.                *)
(*                                                                         *)
(* The C++ call stack is explicit: one frame per active parseFile that has *)
(* entered the walk over its declarations, `arg` for the argument of the   *)
(* activation that has not got there yet, `rc` for the value being         *)
(* returned.  `phase` says where the program is:                           *)
(*                                                                         *)
(*   "idle"    no pack yet              "walk"    in the loop over the     *)
(*   "call"    entering parseFile(arg)            children of the top frame*)
(*   "lexed"   TokenStream built        "return"  parseFile returns rc     *)
(*   "parsed"  Parser::parse returned   "done"    compilePack returned rc  *)
(***************************************************************************)
EXTENDS PackGraph

VARIABLES
    disk,         \* the file system, fixed
    root,         \* RootFile of the current pack
    phase,
    arg,          \* Path of the activation being entered
    stack,        \* frames [path, next]: next is the loop's position
    inProgress,   \* InProgress
    results,      \* the keys of Session.Results
    rc,           \* the value returned
    tsLexErrors,  \* TS.lexErrors() is not empty
    parsed,       \* files handed to Parser::parse, in order (history)
    printed       \* diagnostics printed: [path, kind] (history)

vars == <<disk, root, phase, arg, stack, inProgress, results, rc,
          tsLexErrors, parsed, printed>>

Frame == [path : Path, next : Nat \ {0}]

TypeOK ==
    /\ disk \in Disks
    /\ root \in Path \cup {NoPath}
    /\ phase \in {"idle", "call", "lexed", "parsed", "walk", "return", "done"}
    /\ arg \in Path \cup {NoPath}
    /\ stack \in Seq(Frame)
    /\ inProgress \in SUBSET Path
    /\ results \in SUBSET Path
    /\ rc \in {0, 1}
    /\ tsLexErrors \in BOOLEAN
    /\ parsed \in Seq(Path)
    /\ printed \in Seq([path : Path, kind : {"lex", "parse"}])

Init ==
    /\ disk \in Disks
    /\ root = NoPath
    /\ phase = "idle"
    /\ arg = NoPath
    /\ stack = <<>>
    /\ inProgress = {}
    /\ results = {}
    /\ rc = 0
    /\ tsLexErrors = FALSE
    /\ parsed = <<>>
    /\ printed = <<>>

-----------------------------------------------------------------------------
Top == stack[Len(stack)]
Popped == SubSeq(stack, 1, Len(stack) - 1)
TopItem == disk[Top.path].items[Top.next]
AtItem == phase = "walk" /\ Top.next \in DOMAIN disk[Top.path].items

\* compilePack: a fresh PackSession and an empty InProgress for every pack.
CompilePack(r) ==
    /\ phase \in {"idle", "done"}
    /\ root' = r
    /\ arg' = r
    /\ phase' = "call"
    /\ results' = {}
    /\ inProgress' = {}
    /\ parsed' = <<>>
    /\ printed' = <<>>
    /\ UNCHANGED <<disk, stack, rc, tsLexErrors>>

Return(code) ==
    /\ phase' = "return"
    /\ rc' = code

AlreadyParsed ==
    /\ phase = "call"
    /\ arg \in results
    /\ Return(0)
    /\ UNCHANGED <<disk, root, arg, stack, inProgress, results, tsLexErrors,
                   parsed, printed>>

\* Mistake: a file in progress is taken for one that is done.
InProgressIsDone ==
    /\ phase = "call"
    /\ arg \notin results
    /\ arg \in inProgress
    /\ Return(0)
    /\ UNCHANGED <<disk, root, arg, stack, inProgress, results, tsLexErrors,
                   parsed, printed>>

CircularDependency ==
    /\ phase = "call"
    /\ arg \notin results
    /\ arg \in inProgress
    /\ Return(1)
    /\ UNCHANGED <<disk, root, arg, stack, inProgress, results, tsLexErrors,
                   parsed, printed>>

CannotOpen ==
    /\ phase = "call"
    /\ arg \notin results \cup inProgress
    /\ ~disk[arg].opens
    /\ Return(1)
    /\ UNCHANGED <<disk, root, arg, stack, inProgress, results, tsLexErrors,
                   parsed, printed>>

\* The file is loaded and lexed; TokenStream keeps the lexer errors apart.
LexFile ==
    /\ phase = "call"
    /\ arg \notin results \cup inProgress
    /\ disk[arg].opens
    /\ phase' = "lexed"
    /\ tsLexErrors' = disk[arg].lexErrors
    /\ UNCHANGED <<disk, root, arg, stack, inProgress, results, rc, parsed,
                   printed>>

\* Parser::parse takes the stream by value: TS is moved from, and a moved-from
\* vector of errors is empty.
ParseBuffer ==
    /\ phase = "lexed"
    /\ phase' = "parsed"
    /\ tsLexErrors' = FALSE
    /\ parsed' = Append(parsed, arg)
    /\ UNCHANGED <<disk, root, arg, stack, inProgress, results, rc, printed>>

\* Mistake: only the loop over the lexer errors is there.
ReportLexOnly(present, kind) ==
    IF present /\ kind = "lex" THEN <<[path |-> arg, kind |-> kind]>> ELSE <<>>

Report(present, kind) ==
    IF present THEN <<[path |-> arg, kind |-> kind]>> ELSE <<>>

\* Mistake: the result is stored before the children, which read as done.
StoreBeforeChildren ==
    /\ phase = "parsed"
    /\ printed' = printed \o Report(tsLexErrors, "lex")
                          \o Report(disk[arg].parseErrors, "parse")
    /\ inProgress' = inProgress \cup {arg}
    /\ results' = results \cup {arg}
    /\ stack' = Append(stack, [path |-> arg, next |-> 1])
    /\ phase' = "walk"
    /\ UNCHANGED <<disk, root, arg, rc, tsLexErrors, parsed>>

\* Both loops over the errors and DE.printAll, then InProgress.insert and the
\* start of the loop over the children of the root node.  No diagnostic stops
\* the walk or changes the value returned.
EmitDiagnostics ==
    /\ phase = "parsed"
    /\ printed' = printed \o Report(tsLexErrors, "lex")
                          \o Report(disk[arg].parseErrors, "parse")
    /\ inProgress' = inProgress \cup {arg}
    /\ stack' = Append(stack, [path |-> arg, next |-> 1])
    /\ phase' = "walk"
    /\ UNCHANGED <<disk, root, arg, results, rc, tsLexErrors, parsed>>

\* A declaration that is no ModDeclFile child of the root node: what it
\* contains is not looked at.
SkipDecl ==
    /\ AtItem
    /\ TopItem.nested
    /\ stack' = [stack EXCEPT ![Len(stack)].next = @ + 1]
    /\ UNCHANGED <<disk, root, phase, arg, inProgress, results, rc,
                   tsLexErrors, parsed, printed>>

Descend ==
    /\ AtItem
    /\ ~TopItem.nested
    /\ Locate(disk, Top.path, TopItem.name) # NoPath
    /\ arg' = Locate(disk, Top.path, TopItem.name)
    /\ phase' = "call"
    /\ UNCHANGED <<disk, root, stack, inProgress, results, rc, tsLexErrors,
                   parsed, printed>>

\* Mistake: no scope_exit, the path stays in InProgress.
LeaveInProgress ==
    /\ inProgress' = inProgress
    /\ stack' = Popped

\* scope_exit Cleanup: however parseFile is left, its path leaves InProgress.
Cleanup ==
    /\ inProgress' = inProgress \ {Top.path}
    /\ stack' = Popped

\* Mistake: only name.et is tried.
OnlyDotEt ==
    /\ AtItem
    /\ ~TopItem.nested
    /\ ~disk[FileDotEt[Top.path, TopItem.name]].exists
    /\ Return(1)
    /\ Cleanup
    /\ UNCHANGED <<disk, root, arg, results, tsLexErrors, parsed, printed>>

ModuleNotFound ==
    /\ AtItem
    /\ ~TopItem.nested
    /\ Locate(disk, Top.path, TopItem.name) = NoPath
    /\ Return(1)
    /\ Cleanup
    /\ UNCHANGED <<disk, root, arg, results, tsLexErrors, parsed, printed>>

\* Mistake: the result is not stored.
FinishWithoutStoring ==
    /\ phase = "walk"
    /\ ~AtItem
    /\ Return(0)
    /\ Cleanup
    /\ UNCHANGED <<disk, root, arg, results, tsLexErrors, parsed, printed>>

\* The loop is over: the result is stored only now, after all the children.
FinishFile ==
    /\ phase = "walk"
    /\ ~AtItem
    /\ results' = results \cup {Top.path}
    /\ Return(0)
    /\ Cleanup
    /\ UNCHANGED <<disk, root, arg, tsLexErrors, parsed, printed>>

\* Mistake: the loop does not move on.
SameChildAgain ==
    /\ phase = "return"
    /\ stack # <<>>
    /\ rc = 0
    /\ phase' = "walk"
    /\ UNCHANGED <<disk, root, arg, stack, inProgress, results, rc, tsLexErrors,
                   parsed, printed>>

\* Back in the caller's loop after a child that succeeded.
NextChild ==
    /\ phase = "return"
    /\ stack # <<>>
    /\ rc = 0
    /\ stack' = [stack EXCEPT ![Len(stack)].next = @ + 1]
    /\ phase' = "walk"
    /\ UNCHANGED <<disk, root, arg, inProgress, results, rc, tsLexErrors,
                   parsed, printed>>

\* Mistake: the child's failure is swallowed.
SwallowFailure ==
    /\ phase = "return"
    /\ stack # <<>>
    /\ rc # 0
    /\ Return(0)
    /\ Cleanup
    /\ UNCHANGED <<disk, root, arg, results, tsLexErrors, parsed, printed>>

\* Back in the caller's loop after a child that failed: the caller fails too.
Unwind ==
    /\ phase = "return"
    /\ stack # <<>>
    /\ rc # 0
    /\ Cleanup
    /\ UNCHANGED <<disk, root, phase, arg, results, rc, tsLexErrors, parsed,
                   printed>>

PackReturns ==
    /\ phase = "return"
    /\ stack = <<>>
    /\ phase' = "done"
    /\ UNCHANGED <<disk, root, arg, stack, inProgress, results, rc,
                   tsLexErrors, parsed, printed>>

\* The steps of one compilePack.
Step ==
    \/ AlreadyParsed \/ CircularDependency \/ CannotOpen
    \/ LexFile \/ ParseBuffer \/ EmitDiagnostics
    \/ SkipDecl \/ Descend \/ ModuleNotFound \/ FinishFile
    \/ NextChild \/ Unwind \/ PackReturns

Next == Step \/ \E r \in Path : CompilePack(r)

Spec == Init /\ [][Next]_vars

\* A single-threaded program keeps executing its next instruction.
FairSpec == Spec /\ WF_vars(Step)

-----------------------------------------------------------------------------
\* InProgress is exactly the set of files on the call stack and no file is on
\* it twice: the insert before the loop and the erase of scope_exit keep pace
\* with the recursion on every way out of parseFile (Driver.cpp:192).
InProgressIsStack ==
    /\ inProgress = {stack[i].path : i \in DOMAIN stack}
    /\ \A i, j \in DOMAIN stack : stack[i].path = stack[j].path => i = j

\* Session.Results only ever holds finished files: each of them opened, all its
\* `mod` files are there too, none is still in progress (Driver.cpp:222).
ResultsAreFinished ==
    /\ \A p \in results : Loadable(disk, p) /\ Children(disk, p) \subseteq results
    /\ results \cap inProgress = {}

Done(code) == phase = "done" /\ rc = code

\* compilePack answers 0 only for a pack without defect, and then Results holds
\* every file that the root reaches by declarations at the top level of files and
\* nothing else (Driver.cpp:195).  The files that declarations in inline modules
\* name are not loaded: see DiscoversAll.
SuccessIsComplete ==
    Done(0) => results = Reach(disk, root) /\ WellFormed(disk, root)

\* compilePack answers non-zero only for a cycle, a file that does not open or a
\* module without a file: a file shared by several parents, or declared twice,
\* is not mistaken for a cycle.
FailureHasCause == Done(1) => ~WellFormed(disk, root)

\* One file is parsed at most once per pack, however many declarations lead to
\* it (Driver.cpp:134), so its diagnostics are printed at most once.
ParsedOnce ==
    /\ \A i, j \in DOMAIN parsed : parsed[i] = parsed[j] => i = j
    /\ \A i, j \in DOMAIN printed : printed[i] = printed[j] => i = j

\* Every parser error of a file that made it into Results was printed.
ParseErrorsReported ==
    \A p \in results :
        disk[p].parseErrors => \E i \in DOMAIN printed :
                                  printed[i] = [path |-> p, kind |-> "parse"]

\* The recursion ends, whatever the files declare: cycles are cut.
PackTerminates == phase = "call" ~> phase = "done"

\* The driver implements the abstract build of a pack: Results grows one
\* finished file at a time and the outcome is the one the file graph dictates.
Abstract ==
    INSTANCE PackBuild WITH
        loaded <- results,
        outcome <- CASE phase = "idle" -> "idle"
                     [] phase = "done" /\ rc = 0 -> "ok"
                     [] phase = "done" /\ rc # 0 -> "error"
                     [] OTHER -> "building"

BuildsPack == Abstract!Spec

-----------------------------------------------------------------------------
\* Driver.cpp:159 "Lex errors must be captured before TokenStream is moved into
\* parse()", TokenStream.h:69 "emitted by the Driver": a file whose walk has
\* begun has had its lexer errors printed.
LexErrorsReported ==
    \A i \in DOMAIN stack :
        disk[stack[i].path].lexErrors =>
            \E j \in DOMAIN printed :
                printed[j] = [path |-> stack[i].path, kind |-> "lex"]

\* The files that `mod n;` may mean, in whatever directory they are looked for.
FilesOf(n) == {FileDotEt[p, n] : p \in Path} \cup {ModDotEt[p, n] : p \in Path}

\* Driver.h:52 compilePack "Discovers all reachable source files via `mod foo;`
\* declarations": when it has answered 0, a module that a loaded file declares is
\* loaded too if it has a file that loads, also one declared in an inline module.
DiscoversAll ==
    Done(0) =>
        \A p \in results :
            \A i \in DOMAIN disk[p].items :
                LET there == {q \in FilesOf(disk[p].items[i].name) : Loadable(disk, q)}
                IN  there # {} => there \cap results # {}

-----------------------------------------------------------------------------
\* The inductive invariant behind the safety properties above.
Entering == phase \in {"call", "lexed", "parsed"}

\* Frame i stands at a `mod` declaration that leads to p.
PointsTo(i, p) ==
    /\ stack[i].next \in FileMods(disk, stack[i].path)
    /\ ChildAt(disk, stack[i].path, stack[i].next) = p

ShapeInv ==
    /\ phase \in {"idle", "done"} => stack = <<>>
    /\ phase = "walk" => stack # <<>>
    /\ phase # "idle" => root \in Path /\ arg \in Path
    /\ phase \in {"lexed", "parsed"} =>
           arg \notin results \cup inProgress /\ disk[arg].opens
    /\ phase = "parsed" => ~tsLexErrors

\* The stack is a path of the file graph that starts at the root and leads to
\* the file being entered.
ChainInv ==
    /\ stack # <<>> => stack[1].path = root
    /\ \A i \in 1..(Len(stack) - 1) : PointsTo(i, stack[i + 1].path)
    /\ Entering => IF stack = <<>> THEN arg = root ELSE PointsTo(Len(stack), arg)

\* What a frame has walked over is in Results; a child that returned 0 too.
WalkInv ==
    /\ \A i \in DOMAIN stack :
           /\ disk[stack[i].path].opens
           /\ \A j \in FileMods(disk, stack[i].path) :
                  j < stack[i].next => ChildAt(disk, stack[i].path, j) \in results
    /\ phase \in {"return", "done"} /\ rc = 0 =>
           IF stack = <<>> THEN root \in results
           ELSE \E p \in results : PointsTo(Len(stack), p)

\* The driver never leaves the pack, what it finished has no cycle, and it
\* fails for a reason.
PackInv ==
    /\ results \cup inProgress \subseteq Reach(disk, root)
    /\ Entering => arg \in Reach(disk, root)
    /\ WellFounded(disk, results)
    /\ phase \in {"return", "done"} /\ rc = 1 => ~WellFormed(disk, root)

\* The histories name files that are finished or in progress, until the pack
\* has failed.
HistoryInv ==
    LET known == results \cup inProgress
    IN  (phase \in {"return", "done"} => rc = 0) =>
            /\ \A i \in DOMAIN parsed :
                   parsed[i] \in known \cup (IF phase = "parsed" THEN {arg} ELSE {})
            /\ \A i \in DOMAIN printed : printed[i].path \in known

ReportInv ==
    \A p \in results \cup inProgress :
        disk[p].parseErrors => \E i \in DOMAIN printed :
                                  printed[i] = [path |-> p, kind |-> "parse"]

Inv ==
    /\ TypeOK
    /\ InProgressIsStack
    /\ ShapeInv
    /\ ChainInv
    /\ WalkInv
    /\ ResultsAreFinished
    /\ PackInv
    /\ ParsedOnce
    /\ HistoryInv
    /\ ReportInv
=============================================================================
