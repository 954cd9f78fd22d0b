# Eter front end: a TLA+ verification project

Eter is a compiler front end in C++.  The driver loads a *pack* (a root `.et`
file and every file it reaches through `mod name;`), lexes and parses each file
into a flat AST, and prints diagnostics.  It is single threaded; what is hard
about it is recursion over input nobody controls, state shared across that
recursion, and error recovery: every path through the program that gives up on
something has to leave the rest of the state as if nothing had happened.

All paths below are relative to the repository (`src/`).

## Inventory

| component | source | state | operations | correct when |
|---|---|---|---|---|
| Command line | `lib/Driver/Driver.cpp` `parseCommandLine`, `run`; `tools/eter` | `Options`, position in the arguments | one per form of argument; one pack per input file | the options are what the line says; an option's operand is never an input; the exit code is 0 exactly when every pack is well formed |
| Pack loading | `lib/Driver/Driver.cpp` `compilePack`, `parseFile` | call stack, `InProgress`, `Session.Results` | recursive `parseFile` | terminates; answers 0 exactly for a pack without defect, and then all its files are there, in post-order, parsed once |
| String interner | `lib/Base/StringInterner.cpp` | `Table`, `Strings` | `intern`, `get`, `size` | ids are stable and injective for the whole session |
| Node pool | `lib/Parser/NodePool.cpp` | `Nodes`, `Children`, `Spans` | `alloc`, `childrenOf`, the payload codecs | every node reads back as what it was made from |
| Token stream | `lib/Parser/TokenStream.cpp` | `Tokens`, `LexErrors`, `Cursor` | construction; `peek`, `advance`, `consume`, `previous` | the cursor stays inside the file and never goes back |
| Parser | `lib/Parser/Parse*.cpp` | stream, pool, `Errors`, `StructLitAllowed` | one function per production, `synchronize` | ends on every input; accepts and understands every well-formed program; reports whatever it drops; recovery is local |
| Lexer | `lib/Lexer/Lexer.cpp` | position in the buffer | `lex` | every byte is covered; spans are in order |
| Source manager | `lib/Base/SourceManager.cpp` | buffer, `LineStarts`, location cache | construction, `getLocation` | line and column agree with the text, also from the cache |
| Diagnostic engine | `lib/Base/DiagnosticEngine.cpp` | the lists `Diagnostics` of the two engines; the locals of `printSnippet` | the builder, `withSourceManager`, `printAll`, `print`, `printSnippet` | what is reported is printed, once and in order; the lines shown are the lines of the span, and the marks stand under it |
| Message rendering | `lib/Base/PhaseDiagnostic.cpp`, `Parser/ParserDiagnostics.def` | none | `renderMessage` | every placeholder is filled |
| Node kinds | `Parser/NodeKinds.def` | none: a table of layouts | none | every node has the children its kind promises, in their places |
| Name resolution | `include/eter/NameResolution/DefIndex.h` | `DefIndex` | none yet | not implemented yet |

How they interact.  `main` calls `parseCommandLine` and `run`; `run` calls
`compilePack` for one input file after the other; `compilePack` makes a
`PackSession` and calls `parseFile`, which for each file calls the lexer, wraps
its items in a `TokenStream`, moves that into `Parser::parse`, prints the
diagnostics, and calls itself for each `mod name;` it finds among the children
of the root node.  The interner is shared by all files of a session; the pool
belongs to one file.  The parser reaches the pool by `alloc` and the interner by
`intern` only.  A diagnostic is reported to one of two engines: to the simple
one before there is a source manager, and to the full one after; the simple
engine's list is handed over when the file has been read.  The parser's
diagnostics are an identifier and arguments, which `renderMessage` puts into a
template on the way to the engine.  There are no threads and no callbacks across
these boundaries.

Which behaviour is hard, line by line, is the list of hazards in `PROJECT.json`.

## Modules

| module | models | notes |
|---|---|---|
| `PackGraph` | which file a declaration leads to, reachability, what a well-formed pack is | operators only; the file system is a constant |
| `PackBuild` | *abstract specification* of compiling a pack | no recursion, no stack: a file becomes available once all it declares are |
| `PackLoader` | `compilePack`, `parseFile` | the call stack is a variable; implements `PackBuild` |
| `Eterc` | `main`, `parseCommandLine`, `run` | composes with `PackLoader` by INSTANCE: while a pack is compiled, the loader takes the steps |
| `Lexer` | `Lexer::lex`, the constructor of `TokenStream` | a state machine over every buffer of a set; lexes a buffer, then makes the stream or lexes a part again |
| `SourceStrings` | the strings of a source | a constant with its assumption |
| `StringInterner` | `StringInterner` | |
| `NodePool` | `NodePool` as a value and operators on it | used by `FlatAst` and by the parser |
| `FlatAst` | the AST of a pack: several pools over one interner | composes `NodePool` and `StringInterner` |
| `ParserBase` | `TokenStream`'s cursor; `expect`, lists, paths, `synchronize`, doc comments | operators from parser state to parser state |
| `ParserGrammar` | the productions | one operator per production; the recursive function `parse` ties those that contain one another into one recursion |
| `Parser` | `parseSourceFile` | the state machine, over every input of a set |
| `ParserText` | none: two properties of `Parser` | compares the tree with the tokens, by `ProgramText` |
| `ProgramText` | what a tree spells: the syntax given in `NodeKinds.def`, as far as the parser accepts it, and the precedences | the reference the parser is checked against; shares no definition with the productions |
| `NodeKinds` | the kinds of nodes and the children of each, as the table documents them and as the parser lays them out | used by the properties `KidsAsLaidOut` and `KidsAsTabulated` of `Parser` |
| `Messages` | the templates of the diagnostics and `renderMessage` | operators only; used by `Parser` |
| `SourceManager` | the constructor's index of lines, `getLocation`, the cache | extended by `DiagnosticEngine`, which asks it for locations |
| `DiagnosticEngine` | both engines, the builder, `print`, `printSnippet` | a state machine over every script of a set |
| `PackLoader_proofs`, `StringInterner_proofs`, `FlatAst_proofs`, `Eterc_proofs`, `Lexer_proofs`, `Parser_proofs`, `DiagnosticEngine_proofs`, `DiagnosticOutput_proofs` | theorems | the last two are both about `DiagnosticEngine`, the first of them about `SourceManager` too |
| `MC*` | instances for TLC | `MCParserInputs` puts together the inputs of the parser, from trees (`MCParserExprs`, `MCParserDecls`) and from words of tokens (`MCParser`) |

### Correspondence

**PackLoader.**  `stack` holds one frame per activation of `parseFile` that has
entered the loop over the root's children (`next` is the loop's position);
`arg` is the argument of the one that has not got there yet, `rc` the value
being returned, `phase` the place in the code.  `inProgress` and `results` are
`InProgress` and the keys of `Session.Results`.  `tsLexErrors` says whether
`TS.lexErrors()` is non-empty: `ParseBuffer` clears it, because the stream is
moved from there.  `parsed` and `printed` are histories.  The scope guard is the
operator `Cleanup`, part of every action that leaves a frame (`ModuleNotFound`,
`FinishFile`, `Unwind`).

**Eterc.**  One action per branch of the argument loop.  An argument is what the
comparisons make of it, plus its text.  An empty argument reads `Arg[0]` of an
empty string: an assertion in builds that have them, an input file in those that
do not, so both are possible.

**StringInterner, NodePool, FlatAst.**  `CountLimit` is 2^16 and `NameLimit`
2^30; `flat_ast` brings them down to 2 and 3, so that the limits of the encoding
are passed: a list of two children, an id of 3.  Nothing in the code keeps a
session below them but an assertion in `makePayload`, which the model leaves out;
what does not fit is cut, as a release build does.  `kind` in `FlatAst` only says
how a payload word is to be read; `made` is a history of what each node was made
from.

**Lexer.**  `cur` is `CurPtr`, `first` and `last` the span to lex; a pointer is
the number of bytes before it.  One action per branch of the loop of `lex`.  A
string, a character literal or a block comment is entered by one action and then
takes a step per round of its own loop (`routine`, `tokStart`, `depth`,
`charCount`); the loops that only skip (names, digits, line comments, white
space) are operators, `SkipOver` and `SkipUntil`.  The constructor of
`TokenStream` takes one item per step (`BuildStream`, `TakeItem`, `EndStream`);
`Relex` is another call of `lex` on a part of the same
buffer.  `heads` (where the loop began its rounds) and `whole` (what the first
call returned) are histories.  Bytes are strings of one character, bytes of a
UTF-8 sequence their hexadecimal value; all symbols are one kind, because a
token's text is what its span covers.

**Parser.**  The parser is sequential and its calls are nested, so a production
is an operator that takes the parser state at its first token to the one it
leaves: cursor, pool, diagnostics, `StructLitAllowed`, and the node indices that
the active productions hold in local variables (`vals`).  Diagnostics are their
`DiagID` and arguments, names are the texts they are interned from, tokens their
text, spans pairs of token positions.  `While` is a loop of the code: a round
that consumes no token leaves the parser where it was, so it would repeat for
ever, and the flag `stuck` records it.  A production reaches those inside it
through its argument `P`, a function of calls (which rule, which binding power, in
which state); `parse[n]` is that function when calls may be nested `n` deep, and a
call that is deeper is stuck as well.  `MaxNesting` allows twice as many as there are
tokens.  Behind a dot a float literal is split into tuple indexes, by the digits of its
text: `TupleIndexes` says which (two for `0.1`, one for `0.1_2`, none for `1f`), and
`FloatParts`, for the properties, what is written.  `parseGenericArgs` is called from nowhere and is left out.

**NodeKinds.**  A layout is a sequence of slots: which kinds fit, and how often
(`One`, `Optional`, `Many`, `AtLeastOne`).  `Children` is the table in
`NodeKinds.def`.  `LaidOut` is what the parser makes, which differs in these kinds:
generic parameters stand behind the doc comments of a declaration, a method of a
trait has `NullNode` for its body, `ret` always has an expression, a block's
expressions are its children as they are (no `ExprStmt`) and any of them may be
one, and `while` may be an operand.

**Messages.**  A template is a sequence of symbols, the arguments of a diagnostic
a function from names to values; only the braces of the text matter.

**SourceManager.**  `LineStarts` is built by one step per character (`scanned` is
the loop's position), `Cache` is the cache, from offsets to pairs of line and
column.  A buffer is a sequence of characters of which only `\n` differs from the
others.

**DiagnosticEngine.**  A `script` is what the phases report, to the simple
engine and then to the full one.  `phase` is the place in the code: `simple`,
`index` (the source manager is made), `engine`, then for each diagnostic
`title`, `main` (the snippet of its location), `lines` (the loop of
`printSnippet`, one action per round) and `labels`, last `done`.  `sn` holds the
locals of `printSnippet`, `out` the rows printed.  `Radix` is the base line
numbers are printed in.

## Runs

| run | question | size |
|---|---|---|
| `pack_loader` | does loading end, answer what the file graph dictates, and implement `PackBuild`? | 6 paths in two directories, two module names, 540 disks |
| `flat_ast` | does every node read back, across files and names and past the limits, and every id? | 2 files, 3 strings, 2 nodes, limits of 2 and 3, 210000 states |
| `lexer` | does `lex` return, lose nothing, keep the order, and agree with itself on parts? | some 8500 buffers, 300000 states |
| `command_line` | is every line understood as what it says, and the exit code right? | 10 arguments in up to 3 places, 3 disks |
| `parser` | does parsing end, understand what is well formed, report and locate what it drops, in filled messages, build trees of the layouts that consumers rely on, and lose no more than the malformed declaration, statement or member? | some 52000 token sequences, 250000 states |
| `diagnostics` | are the lines, marks, captions and diagnostics printed those of the file and the reports? | some 5000 scripts, 110000 states |
| `lex_errors_lost`, `nested_mod`, `lexer_error_span`, `brace_swallowed`, `kids_tabulated`, `index_dropped` | *violations*: what a comment or the documentation says and the code does not do | |

Bounds, and why they are enough.

* `pack_loader`: the disks contain every shape the recursion tells apart: a
  module declared twice, two files that share a module (a diamond), a cycle of
  two files, one through a file that has siblings left to walk, a file that is
  absent, unreadable, or found only as `name/mod.et`, a nested declaration;
  lexer and parser errors in files that are and are not the root.  Every path
  can be the root.
* `flat_ast`: with two nodes the second slice begins behind the first.  With three
  strings and `NameLimit = 3` one name does not fit into the word, and with two
  children and `CountLimit = 2` one list does not fit its count, in the same and in
  another file than nodes that fit.  `MaxNodes` is the bound on nodes.
* `lexer`: all words of up to four bytes (`MaxLength`) over the bytes that one
  routine tells apart, behind the opening it needs: numbers, strings, `\u{`,
  characters with a two-byte sequence, line and block comments, symbols, names.
  Four bytes cut off everything that can be cut off at every place, nest a
  comment, and put a token behind one that ended early.  The second call is
  given every pair of places where the loop has been, in either order.
* `command_line`: three arguments let `-o` stand before another option, before
  `-o`, and last; two inputs with a failing first, last, or both.
* `parser`: trees are nested two deep everywhere, three for operators (every
  pair of neighbouring operators at different, equal and right-associative
  precedence), which is where precedence and the flag `StructLitAllowed` can go
  wrong.  The trees are spelled with the parentheses they need and no others. To
  these come all words of up to four tokens over the seven to nine tokens that
  matter at the place, in ten places: statements, patterns, tensor literals, the
  top level, members, generic parameters, `impl` heads, `use`, unsafe blocks; and
  words of up to three behind a dot, with every form of float literal.
  Every production that can fail does in some of them.  Last, declarations and
  bodies with a malformed part between well-formed ones.
* `diagnostics`: every buffer of up to four characters, that is up to five
  lines, empty ones included; in them every span, with a label at every place
  behind its end, which is where the parser puts labels, and spans that no token
  has: inverted, or behind the end.  Two labels in all buffers of three
  characters and in one of three lines and five characters.  The buffer of ten
  lines makes line numbers of different widths.  Diagnostics of every level,
  with and without a location, in both engines.
* `parser`, `diagnostics` and `command_line` stop where the program stops: there
  `CHECK_DEADLOCK` is off.  So it is in `lexer`, which stops when the call has
  returned, and in `flat_ast`, which stops at its bound.

Fairness.  The program is one thread that keeps executing, so `Next` is weakly
fair in `PackLoader`, `Eterc`, `Lexer`, `Parser` and `DiagnosticEngine`.
`PackTerminates`, `ProgramEnds`, `LexEnds` and `PrintingEnds` need it; a loader
that only runs while the program does is fair as part of it.

### What the runs show

*Pack loading.*  `InProgress` is the set of the files on the call stack, and
`Results` holds only finished files: these two make the cycle check right.
Diamonds compile and cycles do not; no file is parsed or reported twice;
`compilePack` answers 0 exactly for the packs that can be built from the
declarations at the top level of files.  Two things are not as one might expect:
parser errors do not change the exit code, and a file module inside an inline module
is never loaded, although `Driver.h:52` says that all reachable files are discovered
(`Driver.cpp:195` looks at the children of the root only).  The model follows the
code in both; `SuccessIsComplete` is about top-level declarations, and `nested_mod`
shows a pack compiled without a module that a nested declaration names.

*Lexer errors* are never printed (`lex_errors_lost`): the stream is moved from
before they are read.

*Lexer.*  Every byte that is not white space is in a token or an error, the
stream is in order, a call always returns, and lexing a part between two tokens
yields the part of the whole.  One case is an exception to all of it: at a second
underscore in a row `lexNumericLiteral` returns before it has set the span, so
the error and its unknown token are at (0, 0) and nothing covers the digits
(`lexer_error_span`).  The other properties leave out buffers where this happens
(`Misplaced`).  An error inside a literal is reported before the literal and
leaves an unknown token in front of it, so the spans of the stream overlap there;
`StreamInOrder` says that they do nowhere else.

*Storage.*  Every node reads back as it was made if its name has an id of 30 bits
and it has fewer than 2^16 children.  Past these limits nothing stops: `ReadsBack`
says that then the name, or the last of the children, is what gets lost, and
nothing else of the node or of any other; `SlicesTile` that the slices never overlap,
and `SameNameSameId` that nodes made from names that fit hold equal ids exactly for
equal names.

*Command line.*  Several input files are diagnosed as unsupported (`Driver.cpp:86`;
the comment at `:84` says "we support only one input file") and compiled all the
same: `return 1` in a function that returns `bool` is true.  `ExitCode` takes them
as the code does.

*Parser.*  It ends (on every input, see *Proofs*); it understands every well-formed
program of the run; what it drops is reported, with the exception below.  The
well-formed programs are those of the documented syntax that the parser accepts: what
it rejects or reads otherwise is listed under the differences, and `ProgramText`
never writes it.  Of a float literal behind a dot, `a.0.1_2`, what stands behind its
dot is lost without a diagnostic when it is not all digits (`index_dropped`); a
suffix `f` is dropped too, which the code does on purpose.  `SpellsBack` leaves out
these literals, and nothing else.  Recovery is local as long as the malformed
statement has its semicolon; if the block's brace comes first, the brace is skipped
and the rest of the file is read as the inside of the function (`brace_swallowed`).
The children of a node are those its production lays out (`KidsAsLaidOut`), which are
not those of the table `NodeKinds.def` (`kids_tabulated`).  Error messages have all
their placeholders filled, except that of an unsafe block without its brace, which
shows `{found}` to the user (`ParseStmt.cpp:254` gives no such argument, against
`ParserDiagnostics.def:12`): `MessagesFilled` says exactly that.  The pool holds a tree (`OneParent`): error paths may leave
orphans, but no node has two parents, and an accepted program has neither orphans nor
error nodes.  `SpansNest` leaves out doc comments, which the parser makes children of
a declaration that begins behind them; on error paths, where a production may have
consumed nothing, a span may be inverted, by the one token that was not consumed and
no more.

*Diagnostics.*  The lines shown for a span are its lines and one of context on
either side, under their own numbers, and the marks stand under the span.  Each
diagnostic is printed once, in the order reported.  What the properties except is
what the code leaves out or gets wrong: the first help is lost when the location
is not a span, and it and all captions when the buffer is empty
(`SaysEverything`); a label that begins before the line its snippet skips and
reaches that line gets its second row of marks under its first
(`MarksUnderText`).  The latter needs a label of several lines
that begins on the span's last line; the parser labels single tokens.

*Differences met that no run shows:*

* The layout of `FnDecl` in `ASTNodes.h:52-56` has the return type, or
  `NullNode`, at a fixed place; the parser leaves it out when there is none and
  puts doc comments and generic parameters first.  A trait method without a body
  has a `NullNode` there that `NodeKinds.def` does not mention; a `ForStmt`'s
  payload is a name with a regime.
* The last expression of a block needs a semicolon: `{ x * 2 + 1 }` is rejected
  (`ParseStmt.cpp:75-86`, with a note that says so), though `NodeKinds.def:194-207`,
  `ASTNodes.h:195-203` and `docs/src/statements-and-expressions.md:328-352` have a
  block end in an expression that is its value.
* `**p = q` is the dereference of an assignment through `p`: the inner `*` takes the
  `=`, though `NodeKinds.def:238` and the comment at `ParseExpr.cpp:157` call
  `*lhs = rhs` an assignment.  `ProgramText` writes `*(*p) = q`.
* `ret ;` is rejected, and a test asserts that, though `NodeKinds.def:174` and
  `ASTNodes.h:186` make the value optional.
* `match` as a statement needs a semicolon that
  `docs/src/statements-and-expressions.md:85` calls optional, and `if` and
  blocks must not have it.
* The dimensions of a tensor literal do not restore `StructLitAllowed`
  (`ParseExpr.cpp:450`), although `Parser.h:443` lists `[...]` among the places
  that do.
* The message of `ExpectedModOpenOrSemi` has `{{`, which `renderMessage` does
  not take for an escape: both braces are printed.
* What was reported to the simple engine is not printed when the file cannot be
  opened: `parseFile` returns before it hands over to the full engine.

## Proofs

Everything in `*_proofs` is checked by TLAPS, for every value of the constants.
The sets of paths, strings, buffers and command lines may be infinite.  The
assumptions on the constants are named where these are declared:

* `PackGraph`: `PathAssumption`, `DisksAssumption`: the path functions are
  total, and `NoPath` is no path.
* `Eterc`: `PackAssumption` (a file system is one of those), `LineAssumption` (a
  line is a sequence of arguments, and an argument that is no option is a path).
* `SourceStrings`: `StrAssumption`: the empty string is a string.
* `NodePool`: `LimitAssumption`: the limits are positive, and that on counts
  does not exceed that on names.  `FlatAst`: `KidAssumption`, `OpAssumption`,
  `FileAssumption`: children are indices or `NullNode`, an operator fits its
  field, and `NullNode` is no file.
* `Lexer`, `SourceManager`: `BufferAssumption`: a buffer is a sequence of
  characters.  `Lexer`: `LetterAssumption`: no letter is a digit, a quote or a
  slash.  `DiagnosticEngine`: `ScriptAssumption`: a script is two lists of
  diagnostics and one of the buffers; `RadixAssumption`: numbers are written in a
  base of at least 2.

* `ParserBase`: `VocabularyAssumption`: a literal has the kind of one, a float
  literal behind a dot makes no tuple index, one or two, and no text is that of the
  end of the file.  `NodeKinds`, `Messages`: none.  `Parser`: `InputsAssumption`: an input is
  a sequence of tokens, and it is known which indices its float literals stand for.

Where a module has proofs its type invariant is a theorem (`Types`, `PoolTypes`,
`TypeCorrect`, part of `Invariance`), and the runs check what is harder to get right.

*PackLoader.*  None of the safety properties is inductive.  `Inv` adds to them
what makes them so:

* `ShapeInv`: what each `phase` says of the stack and the arguments.
* `ChainInv`: the stack is a path of the file graph from the root to the file
  being entered.  A file found in `InProgress` therefore closes a cycle, and a
  failure has a cause (`CircularIsDefect`).
* `WalkInv`: what a frame has walked over is in `Results`; a child that returned 0
  is too.  At the end of the walk all children are, so storing the file keeps
  `ResultsAreFinished`.
* `PackInv`: everything stays within what the root reaches, and `Results` is free
  of cycles.  The latter is kept because a file is stored after its children:
  adding one whose children are in a closed acyclic set keeps it acyclic
  (`WellFoundedExtends`).
* `HistoryInv`, `ReportInv`: the files parsed and reported on are those finished
  or in progress, so a file entered now is new to them.

`Success` is then a fixed-point argument: `Results` contains the root and is
closed, so it contains the least closed set, and `PackInv` is the other
inclusion.  `Refinement` maps `results` and the outcome to `PackBuild`:
`FinishFile` is `Load`, `PackReturns` is `Succeed` or `Fail`, everything else
stutters.

*StringInterner.*  `Canonical` with the types is inductive.  `Stable` follows from
what one insertion does (`NewString`), where `Canonical` gives that the new string
was not there.

*FlatAst.*  A session drives its interner by `intern` alone (`UsesInterner`, a
refinement proved step by step), so both theorems of `StringInterner` carry over
to the interner that all files share (`SessionCanonical`, `SessionStable`).  For
the nodes, `PoolsInv` gives the types, and `DataInv` says of every file that the
slices of its nodes tile the array of children and that each node, decoded with
the table of names as it is now, is what it was made from.  That the interner
never changes an id is what keeps `DataInv` when another file interns
(`FileNames`); `FileStep` is one `alloc`.  A name or a list of children past its limit
is part of it: `NodeHolds` says what the record of a node holds of both, and
`CountTold`, `AttrRead` and `KidsRead` what can be read of that.  So `NodesReadBack`, `SlicesStayTiled` and `SameNames` hold
without a hypothesis.

*Lexer.*  `Inv` makes `NothingSkipped` inductive: `Window` (the position
stays between the ends of the span to lex), `Reading` (a literal or comment
being read begins in the span and before the position), `ItemsBehind` (no item
ends behind the position), `InOrder` (a token ends before the next item begins,
unless an error was misplaced) and `NoneLost` (every byte before the literal or
comment being read, or else before the position, is white space or in an item,
unless an error was misplaced).  Each action emits items, goes on, or enters a
routine, and there is a lemma for each (`InvEmit`, `InvGoOn`, `InvEnter`).  That
the loops that only skip stop somewhere is the well-foundedness of the naturals.
`StreamKeepsOrder` adds `WholeFirst` (a stream is made of the items of the whole
buffer, which end with the only `eof`) and `Built` (every token so far was made of
an item taken, in turn, and there is an error for every unknown one).
`EveryStepConsumes` is the part of `LexEnds` that can be proved: `Left`, a natural
number, decreases with every step of a call (`PointerMoves`: the pointer moves on,
or a literal is left).
`RelexedAlike` compares two calls.  `Round(l, p)` is what a round of the loop (or of
a literal's or comment's own loop) does at the place `p` if the window ends at `l`;
every action is that round (`StepIsRound`), and a round that ends before the end of
a shorter window is the same there (`SameRound`: a byte behind the end decides
nothing that the end of the window would not decide alike).  The first call
therefore leaves a `Course`: the places where it was, in order, each with the number
of items made until then and each the outcome of the round before.  No item lies
across a place where the loop began a round (`Parts`).  The second call begins at one of them, goes from one to the
next (`SecondCallLexes`) and ends at another, so its items are those made between
the two, which are those whose spans lie there.

*SourceManager* (in `DiagnosticEngine_proofs`).  `LocateCorrect`: once the index is complete (`IndexInv`: the
line starts are 0 and places behind line ends, and the k-th of them starts the
k-th line), the binary search finds the line that counting line ends gives.

*DiagnosticEngine.*  `Inv` has a conjunct per stage: the index, what was collected
from the script, the cache (every entry is what the search would answer), what
is being printed, the two cursors of the loop (`LoopInv`: the offset is the start
of the line with the number `line`) and the rows already printed (`RowsShown`).
`LoopInv` is the core: it is established by a search backwards from the span and
kept by a search forwards for the next line end.

*DiagnosticOutput.*  What is on the terminal, for every buffer, script, span (also
an inverted one, or one behind the end) and base.

* `LocalsKept` (`LocalsInv`): the locals of `printSnippet` are those of the span
  being shown: gutter, last line, mark, caption, line left out.  Everything below
  rests on it.
* `GutterNeverShort`: `digitWidth` grows with its argument (`DigitWidthMonotone`),
  and a line printed is not behind the last one.  That the recursive function has
  a value at all is proved by a least counterexample (`WidthsExist`,
  `WidthsUnique`).
* `OrderKept`: `CollectedInv` says where each report is on its way from one engine
  to the other, `TitlesInv` that the titles printed are those of the first ones.
* `SpanIsShown`: `Titled` (what has been printed of a diagnostic is behind the last
  title) and `ShownInv`: in a loop, the lines listed are those up to the one
  before the current; `LoopComplete` is why it may stop where it does.
* `MarksAreUnderText`: `UnderInv` adds that, where a label's snippet will leave out
  the line the main one ended with, the output ends with that line, and marks
  alone behind it.
* `EverythingIsSaid`: `SaidInv` counts the words said so far (`SaidSoFar`) and says
  they are the first ones of `ToBeSaid`; a caption is said in the round of the
  last line of its span, and in no other.

*Eterc.*  `Inv` says what has been collected from the part of the line that is
behind (`Collected`), and ties the program's phases to the loader's.  What an
argument is depends on whether the one before it took it for an operand, which
goes back through any number of `-o`: `Free(i)` says so by counting them.  While a
pack is compiled the loader's invariant holds, and its theorems are used, not
repeated (`LoaderFacts`).

*Parser.*  The invariant is `ParserInv`: the state is `Sound` (the tokens end with
`eof`, the cursor is among them, every slice of children lies inside the array and
holds nodes made before or `NullNode`), every value held is a node, and at the end
the root is the only one.  That a
declaration keeps it is a theorem about seventy operators that call one another,
`OneDeclarationOneNode`, in three steps.

* What a production does is one of a few relations between the state it is called in
  and the one it leaves: `Moves` (no value more), `Yields` (one node more), `Adds`
  (some values more), `Wraps` (the top value replaced by a node around it); all keep
  the values below, never go back, and the pool only grows.  They compose (`ThenYields`, ...),
  and each operator of `ParserBase` is shown to be in one of them.  A loop is, if each
  round is and consumes a token (`WhileRule`, from the least number of rounds for
  which it is not).
* There is a lemma per production: if the calls it makes keep the contract `Keeps` of
  their rule, it does.  The contract of a rule also says in front of which tokens it
  may leave the cursor where it is (`Stays`); this is what makes loops end around
  productions that report an error and consume nothing, and where the code's
  `synchronize` and its `advance` on error paths are needed.
* A call made in a production is made behind the production's first token, except
  that statements and declarations call types and expressions at it.  So
  `Need`, twice the number of tokens left and one or two more, decreases from a call
  to those it makes (`NextServed`), and `parse[n]` serves every call that needs no
  more than `n`.

`MessagesAreFilled` is part of the same invariant: `Sound` says of each report that it
is `Filled`, so a place that reports must give what its template asks for.  What
`renderMessage` makes of a template is proved for every template in which a name
stands between braces (`FilledText`, by induction from the end of the text), then the
templates are shown to be of that form, per shape (`OneBraced`, `TwoBraced`, ...), and
the places that report to use a template only with arguments that have its names
(`BareIDs` those without names, `ExpectIDs` those for `expect`).  The message of an
unsafe block without its brace is the exception, and `UnsafeUnfilled` says exactly
what is left in it.

Recursive functions are unfolded by `ParseLevels` and `LoopRuns`, which first show that
there is a function with the equations of the definition.

`TreeIsWhole` needs two more conjuncts of `Sound`.  `Unshared` says that every node has
one place: it is an entry of the array of children, or a value that waits to become
one, and neither twice.  `Lossless` says that until something is reported every node
has a place and none is an error node.  `make` keeps both because it moves the topmost
values into the array as they are (`Adoption`); `drop` loses nodes, so it may only be
used after a report, and `push` puts a node back that was dropped, once (`DropFacts`,
`PushFacts`): this is what must be seen of each production that replaces an operand by
an error, and of the inherent `impl`, which puts the null node below its type.
`SlicesSound` makes a place in the array a parent: the slices of the nodes are disjoint
and cover it, the latter as long as it has fewer than `CountLimit` entries, since
`NodePool.cpp:46` cuts the count of a longer list.

Only model-checked: liveness (`PackTerminates`, `ProgramEnds`, `LexEnds`,
`PrintingEnds`), which is out of the prover's reach, and, of the parser, what its trees
mean.  `RoundTrip` and `SpellsBack` compare a tree with the text it spells, by a
recursion over the tree (`ProgramText`); `SpansNest`, `KidsAsLaidOut` and
`RecoveryIsLocal` would need the kinds and spans of every production in the contracts.

## Not modelled

The text of help, version and debug output, and the wording of labels, notes and
helps; the AST views (`ASTNodes.h`), whose accessors are declared and defined
nowhere; `DefIndex.h`, which nothing uses yet; `parseGenericArgs`, which nothing
calls; the spelling of paths (two names of one file are two paths); white space
inside a path `a :: b`, which the parser interns with the name; the size of the
stack.

The lexer's items are not fed to the parser's model, which starts from tokens of
its own; `StreamInOrder` is what the one promises the other.  The interner is
checked as part of `flat_ast`: its own theorems hold for every set of strings.
