------------------------------- MODULE Eterc -------------------------------
(***************************************************************************)
(* The program: main, Driver::parseCommandLine, Driver::run and the packs  *)
(* it compiles one after the other (PackLoader).                           *)
(*                                                                         *)
(* An argument is a record [kind, text]: `kind` is what the comparisons of *)
(* parseCommandLine make of it, `text` what is stored (a file name, the    *)
(* type of --debug-only=, anything at all as the operand of -o).           *)
(***************************************************************************)
EXTENDS Integers, Sequences, FiniteSets

CONSTANTS
    Path, ModName, FileDotEt, ModDotEt, NoPath, Disks,  \* see PackGraph
    CommandLines    \* the argument vectors, without the program's name

VARIABLES
    args,       \* Argv, fixed
    i,          \* the loop's position in it
    stage,      \* "parse", "run", "pack", "exited", "aborted"
    opts,       \* Options, DebugFlag and CurrentDebugType
    next,       \* position in InputFiles of the loop in run
    code,       \* the exit code
    disk, root, phase, arg, stack, inProgress, results, rc, tsLexErrors,
    parsed, printed

packVars == <<disk, root, phase, arg, stack, inProgress, results, rc,
              tsLexErrors, parsed, printed>>
vars == <<args, i, stage, opts, next, code, packVars>>

Pack == INSTANCE PackLoader

ASSUME PackAssumption ==
    /\ NoPath \notin Path
    /\ FileDotEt \in [Path \X ModName -> Path]
    /\ ModDotEt \in [Path \X ModName -> Path]
    /\ \A d \in Disks : d \in [Path -> Pack!File]

\* An argument that is no option is a path.
ArgKind == {"version", "help", "debug", "debugOnly", "O0", "o", "unknown",
            "empty", "input"}
Argument == [kind : ArgKind, text : STRING]

ASSUME LineAssumption ==
    \A line \in CommandLines :
        /\ line \in Seq(Argument)
        /\ \A p \in DOMAIN line :
               line[p].kind \in {"input", "empty"} => line[p].text \in Path

NoOptions == [version |-> FALSE, help |-> FALSE, debug |-> FALSE,
              debugType |-> "", output |-> "", inputs |-> <<>>]

Init ==
    /\ args \in CommandLines
    /\ i = 1
    /\ stage = "parse"
    /\ opts = NoOptions
    /\ next = 1
    /\ code = 0
    /\ Pack!Init

-----------------------------------------------------------------------------
(* parseCommandLine.                                                       *)

At(kind) == stage = "parse" /\ i <= Len(args) /\ args[i].kind = kind

NextArgument(o, taken) ==
    /\ opts' = o
    /\ i' = i + taken
    /\ UNCHANGED <<args, stage, next, code, packVars>>

Exit(c) ==
    /\ stage' = "exited"
    /\ code' = c
    /\ UNCHANGED <<args, i, opts, next, packVars>>

StartRun(o) ==
    /\ stage' = "run"
    /\ opts' = o
    /\ UNCHANGED <<args, i, next, code, packVars>>

\* --version and --help accept the command line at once: what stands to the
\* right of them is not looked at.
Version == At("version") /\ StartRun([opts EXCEPT !.version = TRUE])
Help    == At("help") /\ StartRun([opts EXCEPT !.help = TRUE])

Debug == At("debug") /\ NextArgument([opts EXCEPT !.debug = TRUE], 1)

DebugOnly ==
    /\ At("debugOnly")
    /\ NextArgument([opts EXCEPT !.debug = TRUE, !.debugType = args[i].text], 1)

\* OptimizationLevel is 0 already.
OptimizeNot == At("O0") /\ NextArgument(opts, 1)

\* Mistake: the operand is read again as an argument.
OutputKeepsOperand ==
    /\ At("o")
    /\ i < Len(args)
    /\ NextArgument([opts EXCEPT !.output = args[i + 1].text], 1)

\* Mistake: the operand is read and the loop does not move on.
OutputStays ==
    /\ At("o")
    /\ i < Len(args)
    /\ NextArgument([opts EXCEPT !.output = args[i + 1].text], 0)

\* -o takes the next argument, whatever it looks like.
Output ==
    /\ At("o")
    /\ i < Len(args)
    /\ NextArgument([opts EXCEPT !.output = args[i + 1].text], 2)

\* Arg[0] of the empty argument: an assertion of StringRef in builds that have
\* them, the terminating NUL, so an input file, in those that do not.
InputFile ==
    /\ At("input") \/ At("empty")
    /\ NextArgument([opts EXCEPT !.inputs = Append(@, args[i].text)], 1)

EmptyArgumentAborts ==
    /\ At("empty")
    /\ stage' = "aborted"
    /\ UNCHANGED <<args, i, opts, next, code, packVars>>

\* Anything else that begins with '-', and a -o without operand.
UnknownOption ==
    /\ At("unknown") \/ (At("o") /\ i = Len(args))
    /\ Exit(1)

AtEnd == stage = "parse" /\ i > Len(args)

\* No argument at all, or no input file among them.
NoInputFile == AtEnd /\ opts.inputs = <<>> /\ Exit(1)

OneInputFile == AtEnd /\ Len(opts.inputs) = 1 /\ StartRun(opts)

\* "only one input file is supported" is printed, and `return 1` of a function
\* that returns bool is true: main goes on.
SeveralInputFiles == AtEnd /\ Len(opts.inputs) > 1 /\ StartRun(opts)

ParseCommandLine ==
    \/ Version \/ Help \/ Debug \/ DebugOnly \/ OptimizeNot \/ Output
    \/ InputFile \/ EmptyArgumentAborts \/ UnknownOption
    \/ NoInputFile \/ OneInputFile \/ SeveralInputFiles

-----------------------------------------------------------------------------
(* run.                                                                    *)

Info == opts.version \/ opts.help

PrintInfo == stage = "run" /\ Info /\ Exit(0)

CompileNext ==
    /\ stage = "run"
    /\ ~Info
    /\ next <= Len(opts.inputs)
    /\ stage' = "pack"
    /\ Pack!CompilePack(opts.inputs[next])
    /\ UNCHANGED <<args, i, opts, next, code>>

CompileStep ==
    /\ stage = "pack"
    /\ Pack!Step
    /\ UNCHANGED <<args, i, stage, opts, next, code>>

\* Mistake: the loop goes on after a pack that failed.
PackCompiledAnyhow ==
    /\ stage = "pack"
    /\ phase = "done"
    /\ stage' = "run"
    /\ next' = next + 1
    /\ UNCHANGED <<args, i, opts, code, packVars>>

PackCompiled ==
    /\ stage = "pack"
    /\ phase = "done"
    /\ rc = 0
    /\ stage' = "run"
    /\ next' = next + 1
    /\ UNCHANGED <<args, i, opts, code, packVars>>

\* Mistake: the result of the pack is dropped.
PackFailedQuietly == stage = "pack" /\ phase = "done" /\ rc # 0 /\ Exit(0)

PackFailed == stage = "pack" /\ phase = "done" /\ rc # 0 /\ Exit(rc)

AllCompiled == stage = "run" /\ ~Info /\ next > Len(opts.inputs) /\ Exit(0)

Run == \/ PrintInfo \/ CompileNext \/ CompileStep
       \/ PackCompiled \/ PackFailed \/ AllCompiled

Next == ParseCommandLine \/ Run

\* One thread, which keeps executing.
Spec == Init /\ [][Next]_vars /\ WF_vars(Next)

-----------------------------------------------------------------------------
(* What a command line means, said without the loop.                       *)

\* Position p is the operand of -o: the unbroken run of -o's that ends right
\* before it has odd length, each odd one of them taking its successor.
IsOperand(p) ==
    \E n \in 1..(p - 1) :
        /\ n % 2 = 1
        /\ \A q \in (p - n)..(p - 1) : args[q].kind = "o"
        /\ p - n = 1 \/ args[p - n - 1].kind # "o"

Arguments(kinds) == {p \in DOMAIN args : args[p].kind \in kinds /\ ~IsOperand(p)}

\* Where the line is decided before its end: help, version, or an error.
Decisive ==
    Arguments({"version", "help", "unknown"})
        \cup {p \in Arguments({"o"}) : p = Len(args)}

First(S) == CHOOSE p \in S : \A q \in S : p <= q
Last(S) == CHOOSE p \in S : \A q \in S : q <= p

Inputs == {p \in Arguments({"input", "empty"}) :
               Decisive = {} \/ p < First(Decisive)}

AsksForInfo == Decisive # {} /\ args[First(Decisive)].kind \in {"version", "help"}

TypeOK ==
    /\ Pack!TypeOK
    /\ args \in CommandLines
    /\ i \in 1..(Len(args) + 1)
    /\ stage \in {"parse", "run", "pack", "exited", "aborted"}
    /\ next \in 1..(Len(opts.inputs) + 1)
    /\ code \in {0, 1}

\* The options of an accepted line are what the line says (Driver.cpp:48): an
\* operand of -o is never an input file nor an option, the last -o wins, the
\* input files keep their order, and nothing right of --version or --help counts.
OptionsAreTheLine ==
    stage \in {"run", "pack"} =>
        LET operands == {p \in DOMAIN args : IsOperand(p) /\ p < i} IN
        /\ Info <=> AsksForInfo
        /\ ~Info => Decisive = {}
        /\ opts.output = IF operands = {} THEN "" ELSE args[Last(operands)].text
        /\ Len(opts.inputs) = Cardinality(Inputs)
        /\ \A p \in Inputs :
               opts.inputs[Cardinality({q \in Inputs : q <= p})] = args[p].text

\* run stops at the first pack that fails (Driver.cpp:107): whenever a pack is
\* being compiled, all those before it are well formed.
EarlierPacksBuilt ==
    stage \in {"run", "pack"} =>
        \A n \in 1..(next - 1) : Pack!WellFormed(disk, opts.inputs[n])

\* The exit code is 0 exactly for help, version, and a line without error whose
\* input files are all roots of well-formed packs (eter.cpp:20).
ExitCode ==
    stage = "exited" =>
        (code = 0 <=>
            \/ AsksForInfo
            \/ /\ Decisive = {}
               /\ Inputs # {}
               /\ \A p \in Inputs : Pack!WellFormed(disk, args[p].text))

\* Every command line and every disk bring the program to an end.
ProgramEnds == <>(stage \in {"exited", "aborted"})
=============================================================================
