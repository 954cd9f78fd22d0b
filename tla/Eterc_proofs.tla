---------------------------- MODULE Eterc_proofs ----------------------------
(***************************************************************************)
(* Proofs about the program, for every set of command lines and every      *)
(* disk: the options are what the line says, and the exit code is what the *)
(* packs deserve.                                                          *)
(***************************************************************************)
EXTENDS Eterc, FiniteSetTheorems, TLAPS

Loader == INSTANCE PackLoader_proofs

-----------------------------------------------------------------------------
(* The pack that is being compiled is PackLoader's.                        *)

\* The assumptions of PackLoader are those of the program.
LEMMA LoaderAssumptions ==
    Loader!PathAssumption /\ Loader!DisksAssumption
BY PackAssumption DEF Loader!PathAssumption, Loader!DisksAssumption, Pack!File,
   Pack!Item, Loader!File, Loader!Item

\* The two instances of the file graph are one.
LEMMA SameGraph ==
    /\ \A d, p : Pack!Loadable(d, p) = Loader!Loadable(d, p)
    /\ \A d, r : Pack!Reach(d, r) = Loader!Reach(d, r)
    /\ \A d, S : Pack!WellFounded(d, S) = Loader!WellFounded(d, S)
    /\ \A d, r : Pack!WellFormed(d, r) = Loader!WellFormed(d, r)
<1>1. \A d, p, n : Pack!Locate(d, p, n) = Loader!Locate(d, p, n)
  BY DEF Pack!Locate, Loader!Locate
<1>2. \A d, p : Pack!Children(d, p) = Loader!Children(d, p)
  BY <1>1 DEF Pack!Children, Pack!ChildAt, Pack!FileMods,
     Loader!Children, Loader!ChildAt, Loader!FileMods
<1>3. \A d, p : Pack!Loadable(d, p) = Loader!Loadable(d, p)
  BY <1>2 DEF Pack!Loadable, Loader!Loadable
<1>4. \A d, r : Pack!Reach(d, r) = Loader!Reach(d, r)
  BY <1>2 DEF Pack!Reach, Loader!Reach, Pack!ClosedSet, Loader!ClosedSet
<1>5. \A d, S : Pack!WellFounded(d, S) = Loader!WellFounded(d, S)
  BY <1>2 DEF Pack!WellFounded, Loader!WellFounded
<1>6. \A d, r : Pack!WellFormed(d, r) = Loader!WellFormed(d, r)
  BY <1>3, <1>4, <1>5 DEF Pack!WellFormed, Loader!WellFormed
<1> QED
  BY <1>3, <1>4, <1>5, <1>6

\* A step of a pack, or a new one, is a step of PackLoader.
LEMMA SameLoader ==
    /\ Pack!Init => Loader!Init
    /\ Pack!Step => Loader!Next
    /\ \A r \in Path : Pack!CompilePack(r) => Loader!Next
    /\ UNCHANGED packVars => UNCHANGED Loader!vars
    /\ Loader!TypeOK => Pack!TypeOK
<1>1. \A d, p, n : Pack!Locate(d, p, n) = Loader!Locate(d, p, n)
  BY DEF Pack!Locate, Loader!Locate
<1>2. Pack!Step => Loader!Step
  <2>1. /\ Pack!AlreadyParsed => Loader!AlreadyParsed
        /\ Pack!CircularDependency => Loader!CircularDependency
        /\ Pack!CannotOpen => Loader!CannotOpen
        /\ Pack!LexFile => Loader!LexFile
        /\ Pack!ParseBuffer => Loader!ParseBuffer
        /\ Pack!EmitDiagnostics => Loader!EmitDiagnostics
    BY DEF Pack!AlreadyParsed, Pack!CircularDependency, Pack!CannotOpen,
       Pack!LexFile, Pack!ParseBuffer, Pack!EmitDiagnostics, Pack!Return, Pack!Report,
       Loader!AlreadyParsed, Loader!CircularDependency, Loader!CannotOpen,
       Loader!LexFile, Loader!ParseBuffer, Loader!EmitDiagnostics, Loader!Return,
       Loader!Report
  <2>2. /\ Pack!SkipDecl => Loader!SkipDecl
        /\ Pack!Descend => Loader!Descend
        /\ Pack!ModuleNotFound => Loader!ModuleNotFound
        /\ Pack!FinishFile => Loader!FinishFile
    BY <1>1 DEF Pack!SkipDecl, Pack!Descend, Pack!ModuleNotFound, Pack!FinishFile,
       Pack!Return, Pack!Cleanup, Pack!AtItem, Pack!TopItem, Pack!Top, Pack!Popped,
       Loader!SkipDecl, Loader!Descend, Loader!ModuleNotFound, Loader!FinishFile,
       Loader!Return, Loader!Cleanup, Loader!AtItem, Loader!TopItem, Loader!Top,
       Loader!Popped
  <2>3. /\ Pack!NextChild => Loader!NextChild
        /\ Pack!Unwind => Loader!Unwind
        /\ Pack!PackReturns => Loader!PackReturns
    BY DEF Pack!NextChild, Pack!Unwind, Pack!PackReturns, Pack!Cleanup, Pack!Top,
       Pack!Popped, Loader!NextChild, Loader!Unwind, Loader!PackReturns,
       Loader!Cleanup, Loader!Top, Loader!Popped
  <2> QED
    BY <2>1, <2>2, <2>3 DEF Pack!Step, Loader!Step
<1>3. Pack!Init => Loader!Init
  BY DEF Pack!Init, Loader!Init
<1>4. \A r \in Path : Pack!CompilePack(r) => Loader!CompilePack(r)
  BY DEF Pack!CompilePack, Loader!CompilePack
<1>5. UNCHANGED packVars => UNCHANGED Loader!vars
  BY DEF packVars, Loader!vars
<1>6. Loader!TypeOK => Pack!TypeOK
  BY DEF Pack!TypeOK, Loader!TypeOK, Pack!Frame, Loader!Frame
<1> QED
  BY <1>2, <1>3, <1>4, <1>5, <1>6 DEF Loader!Next

\* What PackLoader_proofs says of the pack being compiled.
LEMMA LoaderFacts ==
    /\ Pack!Init => Loader!Inv
    /\ Loader!Inv /\ Pack!Step => Loader!Inv'
    /\ \A r \in Path : Loader!Inv /\ Pack!CompilePack(r) => Loader!Inv'
    /\ Loader!Inv /\ UNCHANGED packVars => Loader!Inv'
    /\ Loader!Inv => Pack!TypeOK
    /\ Loader!Inv /\ phase = "done" => (rc = 0 <=> Pack!WellFormed(disk, root))
<1>1. Loader!Init => Loader!Inv
  BY LoaderAssumptions, Loader!InitInv
<1>2. Loader!Inv /\ [Loader!Next]_(Loader!vars) => Loader!Inv'
  BY LoaderAssumptions, Loader!InvStep
<1>3. /\ Loader!Inv => Loader!SuccessIsComplete
      /\ Loader!Inv => Loader!FailureHasCause
  BY LoaderAssumptions, Loader!InvSuccess, Loader!InvFailure
<1>4. Loader!Inv => Pack!TypeOK /\ rc \in {0, 1}
  BY SameLoader DEF Loader!Inv, Loader!TypeOK
<1>5. Loader!Inv /\ phase = "done" => (rc = 0 <=> Pack!WellFormed(disk, root))
  BY <1>3, <1>4, SameGraph DEF Loader!SuccessIsComplete, Loader!FailureHasCause, Loader!Done
<1> QED
  BY <1>1, <1>2, <1>4, <1>5, SameLoader

-----------------------------------------------------------------------------
(* Operands.                                                               *)

LEMMA ArgsFacts ==
    ASSUME args \in CommandLines
    PROVE  /\ Len(args) \in Nat
           /\ DOMAIN args = 1..Len(args)
           /\ \A p \in 1..Len(args) : args[p].kind \in ArgKind
           /\ \A p \in 1..Len(args) :
                  args[p].kind \in {"input", "empty"} => args[p].text \in Path
<1>1. args \in Seq(Argument)
  BY LineAssumption
<1>2. DOMAIN args = 1..Len(args) /\ Len(args) \in Nat
  BY <1>1
<1>3. \A p \in 1..Len(args) : args[p] \in Argument
  BY <1>1
<1>4. \A p \in 1..Len(args) : args[p].kind \in ArgKind
  BY <1>3 DEF Argument
<1> QED
  BY <1>2, <1>4, LineAssumption

\* An even number of -o's stands before p: it is not the operand of one.
FreeFrom(s, p) ==
    /\ (p - s) % 2 = 0
    /\ \A q \in s..(p - 1) : args[q].kind = "o"
    /\ s = 1 \/ args[s - 1].kind # "o"
Free(p) == \E s \in 1..p : FreeFrom(s, p)

LEMMA FreeIsNoOperand ==
    ASSUME NEW p \in Nat \ {0}, Free(p)
    PROVE  ~IsOperand(p)
<1> SUFFICES ASSUME IsOperand(p) PROVE FALSE
  OBVIOUS
<1>1. PICK s \in 1..p : FreeFrom(s, p)
  BY DEF Free
<1>2. PICK n \in 1..(p - 1) :
          /\ n % 2 = 1
          /\ \A q \in (p - n)..(p - 1) : args[q].kind = "o"
          /\ p - n = 1 \/ args[p - n - 1].kind # "o"
  BY DEF IsOperand
<1>3. ~(p - n < s)
  <2> SUFFICES ASSUME p - n < s PROVE FALSE
    OBVIOUS
  <2>1. s - 1 \in (p - n)..(p - 1) /\ s # 1
    BY <1>2
  <2> QED
    BY <2>1, <1>1, <1>2 DEF FreeFrom
<1>4. ~(s < p - n)
  <2> SUFFICES ASSUME s < p - n PROVE FALSE
    OBVIOUS
  <2>1. p - n - 1 \in s..(p - 1) /\ p - n # 1
    BY <1>2
  <2> QED
    BY <2>1, <1>1, <1>2 DEF FreeFrom
<1>5. p - s = n
  BY <1>2, <1>3, <1>4
<1> QED
  BY <1>1, <1>2, <1>5 DEF FreeFrom

LEMMA FreeNext ==
    ASSUME NEW p \in Nat \ {0}, args[p].kind # "o"
    PROVE  Free(p + 1)
<1>1. FreeFrom(p + 1, p + 1)
  BY DEF FreeFrom
<1> QED
  BY <1>1 DEF Free

\* What stands behind a free -o is its operand, and what stands behind that is free.
LEMMA BehindO ==
    ASSUME NEW p \in Nat \ {0}, Free(p), args[p].kind = "o"
    PROVE  /\ IsOperand(p + 1)
           /\ Free(p + 2)
<1>1. PICK s \in 1..p : FreeFrom(s, p)
  BY DEF Free
<1>2. IsOperand(p + 1)
  <2> DEFINE n == p + 1 - s
  <2>1. n \in 1..((p + 1) - 1) /\ n % 2 = 1
    BY <1>1 DEF FreeFrom
  <2>2. \A q \in ((p + 1) - n)..((p + 1) - 1) : args[q].kind = "o"
    BY <1>1 DEF FreeFrom
  <2>3. (p + 1) - n = 1 \/ args[(p + 1) - n - 1].kind # "o"
    BY <1>1 DEF FreeFrom
  <2> QED
    BY <2>1, <2>2, <2>3 DEF IsOperand
<1>3. CASE args[p + 1].kind = "o"
  <2>1. FreeFrom(s, p + 2)
    BY <1>1, <1>3 DEF FreeFrom
  <2> QED
    BY <1>2, <2>1 DEF Free
<1>4. CASE args[p + 1].kind # "o"
  BY <1>2, <1>4, FreeNext
<1> QED
  BY <1>3, <1>4

-----------------------------------------------------------------------------
(* What the arguments before the loop's position say.                      *)

\* What an option may hold: nothing, or what an argument says.
Text == {""} \cup UNION {{line[p].text : p \in DOMAIN line} : line \in CommandLines}

Options == [version : BOOLEAN, help : BOOLEAN, debug : BOOLEAN,
            debugType : Text, output : Text, inputs : Seq(Path)]

Before(k) == {p \in Arguments({"input", "empty"}) : p < k}
Operands(k) == {p \in DOMAIN args : IsOperand(p) /\ p < k}
Position(S, p) == Cardinality({q \in S : q <= p})

\* What holds of the inputs collected from the positions in S.
CollectedFrom(S, inputs) ==
    /\ Len(inputs) = Cardinality(S)
    /\ \A p \in S : inputs[Position(S, p)] = args[p].text
    /\ \A n \in DOMAIN inputs : \E p \in S : inputs[n] = args[p].text

OutputFrom(S) == IF S = {} THEN "" ELSE args[Last(S)].text

LEMMA PositionInSet ==
    ASSUME NEW S \in SUBSET Nat, IsFiniteSet(S), NEW p \in S
    PROVE  Position(S, p) \in 1..Cardinality(S)
<1> DEFINE T == {q \in S : q <= p}
<1>1. IsFiniteSet(T) /\ Cardinality(T) \in Nat /\ Cardinality(T) <= Cardinality(S)
  BY FS_Subset, FS_CardinalityType
<1>2. p \in T
  OBVIOUS
<1>3. Cardinality(T) # 0
  BY <1>1, <1>2, FS_EmptySet
<1>4. Cardinality(S) \in Nat
  BY FS_CardinalityType
<1> QED
  BY <1>1, <1>3, <1>4 DEF Position

LEMMA BeforeFinite ==
    ASSUME args \in CommandLines, NEW k
    PROVE  /\ Before(k) \in SUBSET Nat
           /\ IsFiniteSet(Before(k))
           /\ Cardinality(Before(k)) \in Nat
<1>1. Before(k) \subseteq 1..Len(args)
  BY ArgsFacts DEF Before, Arguments
<1>2. IsFiniteSet(1..Len(args))
  BY ArgsFacts, FS_Interval
<1> QED
  BY <1>1, <1>2, ArgsFacts, FS_Subset, FS_CardinalityType

\* One more input behind all the others.
LEMMA CollectOne ==
    ASSUME NEW S \in SUBSET Nat, IsFiniteSet(S), NEW inputs \in Seq(Path),
           CollectedFrom(S, inputs), NEW p \in Nat, \A q \in S : q < p,
           args[p].text \in Path
    PROVE  CollectedFrom(S \cup {p}, Append(inputs, args[p].text))
<1> DEFINE T == S \cup {p}
           new == Append(inputs, args[p].text)
<1>0. p \notin S /\ Cardinality(S) \in Nat
  BY FS_CardinalityType
<1>1. Cardinality(T) = Cardinality(S) + 1
  BY <1>0, FS_AddElement
<1>2. Len(new) = Cardinality(T)
  BY <1>1 DEF CollectedFrom
<1>3. ASSUME NEW q \in T
      PROVE  new[Position(T, q)] = args[q].text
  <2>1. CASE q = p
    <3>0. \A r \in T : r <= q
      BY <2>1
    <3>1. {r \in T : r <= q} = T
      BY <3>0
    <3>2. Position(T, q) = Len(inputs) + 1
      BY <3>1, <1>1 DEF Position, CollectedFrom
    <3> QED
      BY <3>2, <2>1
  <2>2. CASE q # p
    <3>1. q \in S
      BY <2>2
    <3>2. {r \in T : r <= q} = {r \in S : r <= q}
      BY <3>1
    <3>3. Position(T, q) = Position(S, q)
      BY <3>2 DEF Position
    <3>4. Position(S, q) \in 1..Len(inputs)
      BY <3>1, PositionInSet DEF CollectedFrom
    <3>5. inputs[Position(S, q)] = args[q].text
      BY <3>1 DEF CollectedFrom
    <3> QED
      BY <3>3, <3>4, <3>5
  <2> QED
    BY <2>1, <2>2
<1>4. ASSUME NEW n \in DOMAIN new
      PROVE  \E q \in T : new[n] = args[q].text
  <2>1. CASE n = Len(inputs) + 1
    BY <2>1
  <2>2. CASE n \in DOMAIN inputs
    <3>1. new[n] = inputs[n]
      BY <2>2
    <3> QED
      BY <2>2, <3>1 DEF CollectedFrom
  <2> QED
    BY <2>1, <2>2
<1> QED
  BY <1>2, <1>3, <1>4 DEF CollectedFrom

-----------------------------------------------------------------------------
(* Past one argument.                                                      *)

\* No argument before k decides the line.
Undecided(k) == \A p \in Decisive : k <= p

LEMMA PastOther ==
    ASSUME args \in CommandLines, NEW k \in 1..Len(args), Free(k), Undecided(k),
           args[k].kind \notin {"o", "version", "help", "unknown"}
    PROVE  /\ Free(k + 1)
           /\ Undecided(k + 1)
           /\ Operands(k + 1) = Operands(k)
           /\ Before(k + 1) = IF args[k].kind \in {"input", "empty"}
                              THEN Before(k) \cup {k} ELSE Before(k)
<1>1. ~IsOperand(k)
  BY FreeIsNoOperand
<1>2. Free(k + 1)
  BY FreeNext
<1>3. k \notin Decisive
  BY DEF Decisive, Arguments
<1>4. \A p \in Decisive : p \in Nat
  BY ArgsFacts DEF Decisive, Arguments
<1>5. Undecided(k + 1)
  BY <1>3, <1>4 DEF Undecided
<1>6. Operands(k + 1) = Operands(k)
  BY <1>1, ArgsFacts DEF Operands
<1>7. Before(k + 1) = IF args[k].kind \in {"input", "empty"}
                      THEN Before(k) \cup {k} ELSE Before(k)
  BY <1>1, ArgsFacts DEF Before, Arguments
<1> QED
  BY <1>2, <1>5, <1>6, <1>7

LEMMA PastOutput ==
    ASSUME args \in CommandLines, NEW k \in 1..(Len(args) - 1), Free(k), Undecided(k),
           args[k].kind = "o"
    PROVE  /\ Free(k + 2)
           /\ Undecided(k + 2)
           /\ OutputFrom(Operands(k + 2)) = args[k + 1].text
           /\ Before(k + 2) = Before(k)
<1>0. Len(args) \in Nat /\ DOMAIN args = 1..Len(args)
  BY ArgsFacts
<1>1. ~IsOperand(k) /\ IsOperand(k + 1) /\ Free(k + 2)
  BY FreeIsNoOperand, BehindO
<1>2. k \notin Decisive /\ k + 1 \notin Decisive
  <2>1. k # Len(args) /\ k \notin Arguments({"version", "help", "unknown"})
    BY <1>0 DEF Arguments
  <2>2. k + 1 \notin Arguments({"version", "help", "unknown"}) \cup Arguments({"o"})
    BY <1>1 DEF Arguments
  <2> QED
    BY <2>1, <2>2 DEF Decisive
<1>3. \A p \in Decisive : p \in Nat
  BY <1>0 DEF Decisive, Arguments
<1>4. Undecided(k + 2)
  BY <1>2, <1>3 DEF Undecided
<1>5. Before(k + 2) = Before(k)
  BY <1>0, <1>1 DEF Before, Arguments
<1>6. k + 1 \in Operands(k + 2)
  BY <1>0, <1>1 DEF Operands
<1>7. \A q \in Operands(k + 2) : q \in Nat /\ q <= k + 1
  BY <1>0 DEF Operands
<1>8. Last(Operands(k + 2)) = k + 1
  BY <1>6, <1>7 DEF Last
<1> QED
  BY <1>1, <1>4, <1>5, <1>6, <1>8 DEF OutputFrom

-----------------------------------------------------------------------------
(* The inductive invariant.                                                *)

LineTypes ==
    /\ args \in CommandLines
    /\ i \in 1..(Len(args) + 1)
    /\ stage \in {"parse", "run", "pack", "exited", "aborted"}
    /\ opts \in Options
    /\ next \in 1..(Len(opts.inputs) + 1)
    /\ code \in {0, 1}

\* The options are what the arguments read so far say.
Collected ==
    /\ CollectedFrom(Before(i), opts.inputs)
    /\ opts.output = OutputFrom(Operands(i))

Parsing == stage = "parse" => Free(i) /\ Undecided(i) /\ ~Info /\ next = 1

\* The line has been read to its end, or to the argument that decides it.
Understood ==
    stage \in {"run", "pack"} =>
        IF Info
        THEN i \in Decisive /\ args[i].kind \in {"version", "help"} /\ Undecided(i)
        ELSE i = Len(args) + 1 /\ Decisive = {} /\ opts.inputs # <<>>

\* The pack being compiled is that of the next input file.
Compiling ==
    stage = "pack" =>
        ~Info /\ next \in DOMAIN opts.inputs /\ root = opts.inputs[next]

Inv == /\ LineTypes
       /\ Loader!Inv
       /\ Collected
       /\ Parsing
       /\ Understood
       /\ Compiling
       /\ EarlierPacksBuilt
       /\ ExitCode

-----------------------------------------------------------------------------
(* What the line says does not change.                                     *)

LEMMA SameArgs ==
    ASSUME args' = args
    PROVE  /\ \A k : Before(k)' = Before(k)
           /\ \A k : Operands(k)' = Operands(k)
           /\ \A k : Free(k)' <=> Free(k)
           /\ \A k : Undecided(k)' <=> Undecided(k)
           /\ \A S, s : CollectedFrom(S, s)' <=> CollectedFrom(S, s)
           /\ \A S : OutputFrom(S)' = OutputFrom(S)
           /\ Decisive' = Decisive
           /\ Inputs' = Inputs
           /\ AsksForInfo' <=> AsksForInfo
<1>1. \A p : IsOperand(p)' <=> IsOperand(p)
  BY DEF IsOperand
<1>2. \A kinds : Arguments(kinds)' = Arguments(kinds)
  BY <1>1 DEF Arguments
<1>3. Decisive' = Decisive
  BY <1>2 DEF Decisive
<1>4. Inputs' = Inputs
  BY <1>2, <1>3 DEF Inputs
<1>5. AsksForInfo' <=> AsksForInfo
  BY <1>3 DEF AsksForInfo
<1>6. \A k : Before(k)' = Before(k)
  BY <1>2 DEF Before
<1>7. \A k : Operands(k)' = Operands(k)
  BY <1>1 DEF Operands
<1>8. \A k : Free(k)' <=> Free(k)
  BY DEF Free, FreeFrom
<1>9. \A k : Undecided(k)' <=> Undecided(k)
  BY <1>3 DEF Undecided
<1>10. \A S, s : CollectedFrom(S, s)' <=> CollectedFrom(S, s)
  BY DEF CollectedFrom
<1>11. \A S : OutputFrom(S)' = OutputFrom(S)
  BY DEF OutputFrom
<1> QED
  BY <1>3, <1>4, <1>5, <1>6, <1>7, <1>8, <1>9, <1>10, <1>11

LEMMA SameLine ==
    ASSUME args' = args, i' = i, opts' = opts
    PROVE  /\ Collected' <=> Collected
           /\ Info' <=> Info
           /\ Undecided(i)' <=> Undecided(i)
           /\ Free(i)' <=> Free(i)
BY SameArgs DEF Collected, Info

\* When the line has been understood, its first decision is the one met.
LEMMA FirstDecision ==
    ASSUME args \in CommandLines, i \in Decisive, Undecided(i)
    PROVE  First(Decisive) = i
<1>1. \A p \in Decisive : p \in Nat
  BY ArgsFacts DEF Decisive, Arguments
<1> QED
  BY <1>1 DEF First, Undecided

LEMMA InputsRead ==
    ASSUME LineTypes, Understood, stage \in {"run", "pack"}
    PROVE  /\ Inputs = Before(i)
           /\ Info <=> AsksForInfo
           /\ ~Info => Decisive = {}
<1>0. Len(args) \in Nat /\ DOMAIN args = 1..Len(args) /\ args \in CommandLines
  BY ArgsFacts DEF LineTypes
<1>1. CASE Info
  <2>1. /\ i \in Decisive /\ Undecided(i)
        /\ args[i].kind \in {"version", "help"}
    BY <1>1 DEF Understood
  <2>2. First(Decisive) = i
    BY <2>1, <1>0, FirstDecision
  <2> QED
    BY <1>1, <2>1, <2>2 DEF Inputs, Before, AsksForInfo
<1>2. CASE ~Info
  <2>1. i = Len(args) + 1 /\ Decisive = {}
    BY <1>2 DEF Understood
  <2>2. \A p \in Arguments({"input", "empty"}) : p < i
    BY <1>0, <2>1 DEF Arguments
  <2> QED
    BY <1>2, <2>1, <2>2 DEF Inputs, Before, AsksForInfo
<1> QED
  BY <1>1, <1>2

\* The options of an accepted line are what it says.
LEMMA OptionsFollow ==
    Inv => OptionsAreTheLine
<1> SUFFICES ASSUME Inv, stage \in {"run", "pack"}
             PROVE  OptionsAreTheLine
  BY DEF OptionsAreTheLine
<1>1. LineTypes /\ Understood /\ Collected
  BY DEF Inv
<1>2. /\ Inputs = Before(i)
      /\ Info <=> AsksForInfo
      /\ ~Info => Decisive = {}
  BY <1>1, InputsRead
<1> QED
  BY <1>1, <1>2 DEF OptionsAreTheLine, Collected, CollectedFrom, OutputFrom, Operands,
     Position

-----------------------------------------------------------------------------
(* The invariant holds at the beginning.                                   *)

LEMMA InvInit == Init => Inv
<1> SUFFICES ASSUME Init PROVE Inv
  OBVIOUS
<1>0. args \in CommandLines /\ i = 1 /\ stage = "parse" /\ next = 1 /\ code = 0
  BY DEF Init
<1>0a. Len(args) \in Nat /\ DOMAIN args = 1..Len(args)
  BY <1>0, ArgsFacts
<1>1. opts = NoOptions /\ opts.inputs = <<>> /\ opts.output = "" /\ ~Info
  BY DEF Init, NoOptions, Info
<1>2. opts \in Options
  <2>1. <<>> \in Seq(Path) /\ "" \in Text
    BY DEF Text
  <2> QED
    BY <1>1, <2>1 DEF NoOptions, Options
<1>3. LineTypes
  <2>1. next \in 1..(Len(opts.inputs) + 1)
    <3>1. Len(<<>>) = 0
      OBVIOUS
    <3>2. Len(opts.inputs) = 0
      BY <1>1, <3>1, Zenon
    <3> QED
      BY <1>0, <3>2
  <2> QED
    BY <1>0, <1>0a, <1>2, <2>1 DEF LineTypes
<1>4. Loader!Inv
  BY LoaderFacts DEF Init
<1>5. Collected
  <2>1. Before(i) = {} /\ Operands(i) = {}
    BY <1>0, <1>0a DEF Before, Operands, Arguments
  <2>2. Cardinality({}) = 0
    BY FS_EmptySet
  <2>3. Len(opts.inputs) = 0 /\ DOMAIN opts.inputs = {}
    <3>1. Len(<<>>) = 0 /\ DOMAIN <<>> = {}
      OBVIOUS
    <3> QED
      BY <1>1, <3>1, Zenon
  <2> QED
    BY <1>1, <2>1, <2>2, <2>3 DEF Collected, CollectedFrom, OutputFrom
<1>6. Parsing
  <2>1. FreeFrom(1, 1)
    BY DEF FreeFrom
  <2>2. Free(i)
    BY <1>0, <2>1 DEF Free
  <2>3. Undecided(i)
    BY <1>0, <1>0a DEF Undecided, Decisive, Arguments
  <2> QED
    BY <1>0, <1>1, <2>2, <2>3 DEF Parsing
<1>7. Understood /\ Compiling /\ EarlierPacksBuilt /\ ExitCode
  BY <1>0 DEF Understood, Compiling, EarlierPacksBuilt, ExitCode
<1> QED
  BY <1>3, <1>4, <1>5, <1>6, <1>7 DEF Inv

-----------------------------------------------------------------------------
(* Reading the line keeps it.                                              *)

\* The invariant again, while the line is being read.
LEMMA InvParsing ==
    ASSUME Inv, stage = "parse", stage' = "parse",
           UNCHANGED <<args, next, code, packVars>>, i' \in 1..(Len(args) + 1),
           opts' \in Options, ~Info', Free(i'), Undecided(i'),
           CollectedFrom(Before(i'), opts'.inputs),
           opts'.output = OutputFrom(Operands(i'))
    PROVE  Inv'
<1>1. Loader!Inv'
  BY LoaderFacts DEF Inv
<1>2. next = 1
  BY DEF Inv, Parsing
<1>3. LineTypes'
  BY <1>2 DEF Inv, LineTypes, Options
<1>4. Collected'
  BY SameArgs DEF Collected
<1>5. Parsing'
  BY <1>2, SameArgs DEF Parsing
<1>6. Understood' /\ Compiling' /\ EarlierPacksBuilt' /\ ExitCode'
  BY DEF Understood, Compiling, EarlierPacksBuilt, ExitCode
<1> QED
  BY <1>1, <1>3, <1>4, <1>5, <1>6 DEF Inv

LEMMA ParsingFacts ==
    ASSUME Inv, stage = "parse"
    PROVE  /\ args \in CommandLines
           /\ Len(args) \in Nat /\ DOMAIN args = 1..Len(args)
           /\ i \in 1..(Len(args) + 1)
           /\ opts \in Options /\ opts.inputs \in Seq(Path)
           /\ opts.version = FALSE /\ opts.help = FALSE
           /\ Free(i) /\ Undecided(i) /\ next = 1 /\ code \in {0, 1}
           /\ CollectedFrom(Before(i), opts.inputs)
           /\ opts.output = OutputFrom(Operands(i))
BY ArgsFacts DEF Inv, LineTypes, Parsing, Collected, Info, Options

LEMMA TextType ==
    ASSUME args \in CommandLines, NEW p \in 1..Len(args)
    PROVE  args[p].text \in Text
<1>1. args[p].text \in {args[q].text : q \in DOMAIN args}
  BY ArgsFacts
<1> QED
  BY <1>1 DEF Text

\* Options without an operand, and input files.
LEMMA InvArgument ==
    ASSUME Inv, Debug \/ DebugOnly \/ OptimizeNot \/ InputFile
    PROVE  Inv'
<1> USE DEF At, NextArgument
<1>0. /\ stage = "parse" /\ i \in 1..Len(args)
      /\ args[i].kind \in {"debug", "debugOnly", "O0", "input", "empty"}
  <2>1. /\ stage = "parse" /\ i <= Len(args)
        /\ args[i].kind \in {"debug", "debugOnly", "O0", "input", "empty"}
    BY DEF Debug, DebugOnly, OptimizeNot, InputFile
  <2> QED
    BY <2>1, ParsingFacts
<1>1. /\ Free(i + 1) /\ Undecided(i + 1) /\ Operands(i + 1) = Operands(i)
      /\ Before(i + 1) = IF args[i].kind \in {"input", "empty"}
                         THEN Before(i) \cup {i} ELSE Before(i)
  BY <1>0, ParsingFacts, PastOther
<1>2. /\ i' = i + 1 /\ i' \in 1..(Len(args) + 1) /\ stage' = "parse"
      /\ UNCHANGED <<args, next, code, packVars>>
  BY <1>0, ParsingFacts DEF Debug, DebugOnly, OptimizeNot, InputFile
<1>3. args[i].text \in Text
  BY <1>0, ParsingFacts, TextType
<1>4. /\ opts' \in Options /\ ~Info' /\ opts'.output = opts.output
      /\ opts'.inputs = IF args[i].kind \in {"input", "empty"}
                        THEN Append(opts.inputs, args[i].text) ELSE opts.inputs
  <2>1. CASE Debug
    BY <1>0, <2>1, ParsingFacts DEF Debug, Options, Info
  <2>2. CASE DebugOnly
    BY <1>0, <1>3, <2>2, ParsingFacts DEF DebugOnly, Options, Info
  <2>3. CASE OptimizeNot
    BY <1>0, <2>3, ParsingFacts DEF OptimizeNot, Options, Info
  <2>4. CASE InputFile
    <3>1. args[i].kind \in {"input", "empty"} /\ args[i].text \in Path
      BY <1>0, <2>4, ParsingFacts, ArgsFacts DEF InputFile
    <3>2. Append(opts.inputs, args[i].text) \in Seq(Path)
      <4>1. opts.inputs \in Seq(Path)
        BY <1>0, ParsingFacts
      <4> QED
        BY <3>1, <4>1
    <3> QED
      BY <1>0, <2>4, <3>1, <3>2, ParsingFacts DEF InputFile, Options, Info
  <2> QED
    BY <2>1, <2>2, <2>3, <2>4
<1>5. CollectedFrom(Before(i'), opts'.inputs)
  <2>1. CASE args[i].kind \in {"input", "empty"}
    <3>1. /\ Before(i) \in SUBSET Nat /\ IsFiniteSet(Before(i))
          /\ \A q \in Before(i) : q < i
      BY ParsingFacts, <1>0, BeforeFinite DEF Before
    <3>2. args[i].text \in Path
      BY <1>0, <2>1, ParsingFacts, ArgsFacts
    <3>3. CollectedFrom(Before(i) \cup {i}, Append(opts.inputs, args[i].text))
      <4>1. /\ opts.inputs \in Seq(Path) /\ i \in Nat
            /\ CollectedFrom(Before(i), opts.inputs)
        BY <1>0, ParsingFacts
      <4> QED
        BY <3>1, <3>2, <4>1, CollectOne
    <3> QED
      BY <1>1, <1>2, <1>4, <2>1, <3>3
  <2>2. CASE args[i].kind \notin {"input", "empty"}
    BY <1>0, <1>1, <1>2, <1>4, <2>2, ParsingFacts
  <2> QED
    BY <2>1, <2>2
<1>6. opts'.output = OutputFrom(Operands(i'))
  BY <1>0, <1>1, <1>2, <1>4, ParsingFacts
<1> QED
  BY <1>0, <1>1, <1>2, <1>4, <1>5, <1>6, InvParsing

\* -o with its operand.
LEMMA InvOutput ==
    ASSUME Inv, Output
    PROVE  Inv'
<1> USE DEF At, NextArgument, Output
<1>1. /\ stage = "parse" /\ i \in 1..(Len(args) - 1) /\ args[i].kind = "o"
  BY ParsingFacts
<1>2. /\ i' = i + 2 /\ i' \in 1..(Len(args) + 1) /\ stage' = "parse"
      /\ UNCHANGED <<args, next, code, packVars>>
  BY <1>1, ParsingFacts
<1>3. /\ Free(i + 2) /\ Undecided(i + 2) /\ Before(i + 2) = Before(i)
      /\ OutputFrom(Operands(i + 2)) = args[i + 1].text
  BY <1>1, ParsingFacts, PastOutput
<1>4. args[i + 1].text \in Text
  BY <1>1, ParsingFacts, TextType
<1>5. /\ opts' \in Options /\ ~Info' /\ opts'.inputs = opts.inputs
      /\ opts'.output = args[i + 1].text
  BY <1>1, <1>4, ParsingFacts DEF Options, Info
<1> QED
  BY <1>1, <1>2, <1>3, <1>5, ParsingFacts, InvParsing

-----------------------------------------------------------------------------
(* Accepting the line, and leaving the program.                            *)

\* What the facts about a pack say when a new one is begun or the old one kept.
LEMMA SamePack ==
    ASSUME Inv, UNCHANGED packVars
    PROVE  Loader!Inv' /\ disk' = disk /\ root' = root
BY LoaderFacts DEF Inv, packVars

\* Once the program has exited only the exit code matters.
LEMMA InvExit ==
    ASSUME Inv, NEW c \in {0, 1}, Exit(c),
           c = 0 <=> \/ AsksForInfo
                     \/ /\ Decisive = {}
                        /\ Inputs # {}
                        /\ \A p \in Inputs : Pack!WellFormed(disk, args[p].text)
    PROVE  Inv'
<1>1. /\ stage' = "exited" /\ code' = c /\ UNCHANGED <<args, i, opts, next, packVars>>
  BY DEF Exit
<1>2. Loader!Inv' /\ disk' = disk
  BY <1>1, SamePack
<1>3. LineTypes'
  BY <1>1 DEF Inv, LineTypes, Options
<1>4. Collected'
  BY <1>1, SameLine DEF Inv
<1>5. Parsing' /\ Understood' /\ Compiling' /\ EarlierPacksBuilt'
  BY <1>1 DEF Parsing, Understood, Compiling, EarlierPacksBuilt
<1>6. ExitCode'
  BY <1>1, <1>2, SameArgs DEF ExitCode
<1> QED
  BY <1>2, <1>3, <1>4, <1>5, <1>6 DEF Inv

LEMMA InvStartRun ==
    ASSUME Inv, stage = "parse", NEW o \in Options, StartRun(o),
           o.inputs = opts.inputs, o.output = opts.output,
           IF o.version \/ o.help
           THEN i \in Decisive /\ args[i].kind \in {"version", "help"}
           ELSE i = Len(args) + 1 /\ o.inputs # <<>>
    PROVE  Inv'
<1>1. /\ stage' = "run" /\ opts' = o /\ UNCHANGED <<args, i, next, code, packVars>>
  BY DEF StartRun
<1>2. Loader!Inv' /\ disk' = disk
  BY <1>1, SamePack
<1>3. next = 1 /\ Undecided(i) /\ args \in CommandLines
  BY ParsingFacts
<1>4. LineTypes'
  BY <1>1 DEF Inv, LineTypes
<1>5. Collected'
  BY <1>1, SameArgs DEF Inv, Collected
<1>6. Parsing' /\ Compiling' /\ ExitCode'
  BY <1>1 DEF Parsing, Compiling, ExitCode
<1>7. EarlierPacksBuilt'
  BY <1>1, <1>3 DEF EarlierPacksBuilt
<1>8. Understood'
  <2>1. CASE o.version \/ o.help
    BY <1>1, <1>3, <2>1, SameArgs DEF Understood, Info
  <2>2. CASE ~(o.version \/ o.help)
    <3>1. Decisive = {}
      BY <1>3, <2>2, ArgsFacts DEF Undecided, Decisive, Arguments
    <3> QED
      BY <1>1, <2>2, <3>1, SameArgs DEF Understood, Info
  <2> QED
    BY <2>1, <2>2
<1> QED
  BY <1>2, <1>4, <1>5, <1>6, <1>7, <1>8 DEF Inv

LEMMA InvAccept ==
    ASSUME Inv, Version \/ Help \/ OneInputFile \/ SeveralInputFiles
    PROVE  Inv'
<1>1. CASE Version \/ Help
  <2>1. /\ stage = "parse" /\ i <= Len(args)
        /\ args[i].kind \in {"version", "help"}
    BY <1>1 DEF Version, Help, At
  <2>2. i \in Decisive
    <3>1. ~IsOperand(i) /\ i \in DOMAIN args
      BY <2>1, ParsingFacts, FreeIsNoOperand
    <3> QED
      BY <2>1, <3>1 DEF Decisive, Arguments
  <2>3. CASE Version
    <3> DEFINE o == [opts EXCEPT !.version = TRUE]
    <3>1. /\ o \in Options /\ o.version
          /\ o.inputs = opts.inputs /\ o.output = opts.output
      BY <2>1, ParsingFacts DEF Options
    <3>2. StartRun(o)
      BY <2>3 DEF Version
    <3> HIDE DEF o
    <3> QED
      BY <2>1, <2>2, <3>1, <3>2, InvStartRun
  <2>4. CASE Help
    <3> DEFINE o == [opts EXCEPT !.help = TRUE]
    <3>1. /\ o \in Options /\ o.help
          /\ o.inputs = opts.inputs /\ o.output = opts.output
      BY <2>1, ParsingFacts DEF Options
    <3>2. StartRun(o)
      BY <2>4 DEF Help
    <3> HIDE DEF o
    <3> QED
      BY <2>1, <2>2, <3>1, <3>2, InvStartRun
  <2> QED
    BY <1>1, <2>3, <2>4
<1>2. CASE OneInputFile \/ SeveralInputFiles
  <2>1. stage = "parse" /\ i > Len(args) /\ Len(opts.inputs) >= 1 /\ StartRun(opts)
    BY <1>2, ParsingFacts DEF OneInputFile, SeveralInputFiles, AtEnd
  <2>2. opts.inputs # <<>> /\ i = Len(args) + 1 /\ opts \in Options
    BY <2>1, ParsingFacts
  <2>3. ~(opts.version \/ opts.help)
    BY <2>1, ParsingFacts
  <2> QED
    BY <2>1, <2>2, <2>3, InvStartRun
<1> QED
  BY <1>1, <1>2

\* A line that is refused, and one without an input file.
LEMMA InvRefuse ==
    ASSUME Inv, UnknownOption \/ NoInputFile
    PROVE  Inv'
<1>1. CASE UnknownOption
  <2>1. /\ stage = "parse" /\ i \in 1..Len(args)
        /\ args[i].kind = "unknown" \/ (args[i].kind = "o" /\ i = Len(args))
        /\ Exit(1)
    <3>1. /\ stage = "parse" /\ i <= Len(args) /\ Exit(1)
          /\ args[i].kind = "unknown" \/ (args[i].kind = "o" /\ i = Len(args))
      BY <1>1 DEF UnknownOption, At
    <3>2. i \in 1..Len(args)
      BY <3>1, ParsingFacts
    <3> QED
      BY <3>1, <3>2
  <2>2. i \in Decisive
    <3>p. stage = "parse"
      BY <2>1
    <3>0. Free(i) /\ i \in Nat \ {0} /\ DOMAIN args = 1..Len(args)
      BY <3>p, ParsingFacts
    <3>1. ~IsOperand(i) /\ i \in DOMAIN args
      BY <2>1, <3>0, FreeIsNoOperand
    <3> QED
      BY <2>1, <3>1 DEF Decisive, Arguments
  <2>3. First(Decisive) = i
    BY <2>1, <2>2, ParsingFacts, FirstDecision
  <2>4. ~AsksForInfo /\ Decisive # {}
    BY <2>1, <2>2, <2>3 DEF AsksForInfo
  <2> QED
    BY <2>1, <2>4, InvExit
<1>2. CASE NoInputFile
  <2>1. stage = "parse" /\ i > Len(args) /\ opts.inputs = <<>> /\ Exit(1)
    BY <1>2 DEF NoInputFile, AtEnd
  <2>2. Decisive = {}
    BY <2>1, ParsingFacts DEF Undecided, Decisive, Arguments
  <2>3. Before(i) = {}
    <3>1. IsFiniteSet(Before(i)) /\ Cardinality(Before(i)) = 0
      BY <2>1, ParsingFacts, BeforeFinite DEF CollectedFrom
    <3> QED
      BY <3>1, FS_EmptySet
  <2>4. Inputs = {}
    BY <2>1, <2>2, <2>3, ParsingFacts DEF Inputs, Before, Arguments
  <2> QED
    BY <2>1, <2>2, <2>4, InvExit DEF AsksForInfo
<1> QED
  BY <1>1, <1>2

LEMMA InvAbort ==
    ASSUME Inv, EmptyArgumentAborts
    PROVE  Inv'
<1>1. stage' = "aborted" /\ UNCHANGED <<args, i, opts, next, code, packVars>>
  BY DEF EmptyArgumentAborts
<1>2. Loader!Inv'
  BY <1>1, SamePack
<1>3. LineTypes'
  BY <1>1 DEF Inv, LineTypes, Options
<1>4. Collected'
  BY <1>1, SameLine DEF Inv
<1>5. Parsing' /\ Understood' /\ Compiling' /\ EarlierPacksBuilt' /\ ExitCode'
  BY <1>1 DEF Parsing, Understood, Compiling, EarlierPacksBuilt, ExitCode
<1> QED
  BY <1>2, <1>3, <1>4, <1>5 DEF Inv

-----------------------------------------------------------------------------
(* Compiling the packs.                                                    *)

LEMMA StepKeepsRoot ==
    ASSUME Pack!Step
    PROVE  disk' = disk /\ root' = root
<1>1. \/ Pack!AlreadyParsed \/ Pack!CircularDependency \/ Pack!CannotOpen
      \/ Pack!LexFile \/ Pack!ParseBuffer \/ Pack!EmitDiagnostics
      => disk' = disk /\ root' = root
  BY DEF Pack!AlreadyParsed, Pack!CircularDependency, Pack!CannotOpen,
     Pack!LexFile, Pack!ParseBuffer, Pack!EmitDiagnostics
<1>2. Pack!SkipDecl \/ Pack!Descend \/ Pack!ModuleNotFound \/ Pack!FinishFile
      => disk' = disk /\ root' = root
  BY DEF Pack!SkipDecl, Pack!Descend, Pack!ModuleNotFound, Pack!FinishFile
<1>3. Pack!NextChild \/ Pack!Unwind \/ Pack!PackReturns
      => disk' = disk /\ root' = root
  BY DEF Pack!NextChild, Pack!Unwind, Pack!PackReturns
<1> QED
  BY <1>1, <1>2, <1>3 DEF Pack!Step

\* The packs already built, when neither they nor the disk change.
LEMMA SameBuilt ==
    ASSUME disk' = disk, opts' = opts
    PROVE  \A n : Pack!WellFormed(disk, opts.inputs[n])'
                      <=> Pack!WellFormed(disk, opts.inputs[n])
BY DEF Pack!WellFormed

LEMMA InvCompile ==
    ASSUME Inv, CompileNext \/ CompileStep
    PROVE  Inv'
<1>1. CASE CompileNext
  <2>1. /\ stage = "run" /\ ~Info /\ next <= Len(opts.inputs) /\ stage' = "pack"
        /\ Pack!CompilePack(opts.inputs[next])
        /\ UNCHANGED <<args, i, opts, next, code>>
    BY <1>1 DEF CompileNext
  <2>2. next \in DOMAIN opts.inputs /\ opts.inputs[next] \in Path
    BY <2>1 DEF Inv, LineTypes, Options
  <2>3. Loader!Inv'
    BY <2>1, <2>2, LoaderFacts DEF Inv
  <2>4. disk' = disk /\ root' = opts.inputs[next]
    BY <2>1 DEF Pack!CompilePack
  <2>5. LineTypes'
    BY <2>1 DEF Inv, LineTypes, Options
  <2>6. Collected' /\ (Info' <=> Info) /\ (Undecided(i)' <=> Undecided(i))
    BY <2>1, SameLine DEF Inv
  <2>7. Parsing' /\ ExitCode'
    BY <2>1 DEF Parsing, ExitCode
  <2>8. Understood'
    BY <2>1, <2>6, SameArgs DEF Inv, Understood
  <2>9. Compiling'
    BY <2>1, <2>2, <2>4, <2>6 DEF Compiling
  <2>10. EarlierPacksBuilt'
    BY <2>1, <2>4, SameBuilt DEF Inv, EarlierPacksBuilt
  <2> QED
    BY <2>3, <2>5, <2>6, <2>7, <2>8, <2>9, <2>10 DEF Inv
<1>2. CASE CompileStep
  <2>1. /\ stage = "pack" /\ Pack!Step
        /\ UNCHANGED <<args, i, stage, opts, next, code>>
    BY <1>2 DEF CompileStep
  <2>2. Loader!Inv' /\ disk' = disk /\ root' = root
    BY <2>1, LoaderFacts, StepKeepsRoot DEF Inv
  <2>3. LineTypes'
    BY <2>1 DEF Inv, LineTypes, Options
  <2>4. Collected' /\ (Info' <=> Info) /\ (Undecided(i)' <=> Undecided(i))
    BY <2>1, SameLine DEF Inv
  <2>5. Parsing' /\ ExitCode'
    BY <2>1 DEF Parsing, ExitCode
  <2>6. Understood'
    BY <2>1, <2>4, SameArgs DEF Inv, Understood
  <2>7. Compiling'
    BY <2>1, <2>2, <2>4 DEF Inv, Compiling
  <2>8. EarlierPacksBuilt'
    BY <2>1, <2>2, SameBuilt DEF Inv, EarlierPacksBuilt
  <2> QED
    BY <2>2, <2>3, <2>4, <2>5, <2>6, <2>7, <2>8 DEF Inv
<1> QED
  BY <1>1, <1>2

\* A pack that succeeds joins the packs that are well formed.
LEMMA InvCompiled ==
    ASSUME Inv, PackCompiled
    PROVE  Inv'
<1>1. /\ stage = "pack" /\ phase = "done" /\ rc = 0 /\ stage' = "run"
      /\ next' = next + 1 /\ UNCHANGED <<args, i, opts, code, packVars>>
  BY DEF PackCompiled
<1>2. Loader!Inv' /\ disk' = disk /\ root' = root
  BY <1>1, SamePack
<1>3. ~Info /\ next \in DOMAIN opts.inputs /\ root = opts.inputs[next]
  BY <1>1 DEF Inv, Compiling
<1>4. Pack!WellFormed(disk, opts.inputs[next])
  BY <1>1, <1>3, LoaderFacts DEF Inv
<1>5. LineTypes'
  <2>1. next + 1 \in 1..(Len(opts.inputs) + 1)
    BY <1>3 DEF Inv, LineTypes, Options
  <2> QED
    BY <1>1, <2>1 DEF Inv, LineTypes, Options
<1>6. Collected' /\ (Info' <=> Info) /\ (Undecided(i)' <=> Undecided(i))
  BY <1>1, SameLine DEF Inv
<1>7. Parsing' /\ Compiling' /\ ExitCode'
  BY <1>1 DEF Parsing, Compiling, ExitCode
<1>8. Understood'
  BY <1>1, <1>6, SameArgs DEF Inv, Understood
<1>9. EarlierPacksBuilt'
  <2>1. next \in Nat /\ \A n \in 1..(next - 1) : Pack!WellFormed(disk, opts.inputs[n])
    BY <1>1 DEF Inv, LineTypes, EarlierPacksBuilt
  <2>2. \A n \in 1..((next + 1) - 1) : Pack!WellFormed(disk, opts.inputs[n])
    BY <2>1, <1>4
  <2> QED
    BY <1>1, <1>2, <2>2, SameBuilt DEF EarlierPacksBuilt
<1> QED
  BY <1>2, <1>5, <1>6, <1>7, <1>8, <1>9 DEF Inv

\* The three ways out of run.
LEMMA InvLeave ==
    ASSUME Inv, PrintInfo \/ PackFailed \/ AllCompiled
    PROVE  Inv'
<1>0. stage \in {"run", "pack"}
  BY DEF PrintInfo, PackFailed, AllCompiled
<1>1. /\ Inputs = Before(i) /\ (Info <=> AsksForInfo)
      /\ ~Info => Decisive = {}
  BY <1>0, InputsRead DEF Inv
<1>2. /\ args \in CommandLines /\ opts.inputs \in Seq(Path)
      /\ next \in 1..(Len(opts.inputs) + 1)
      /\ Len(opts.inputs) = Cardinality(Inputs)
      /\ \A p \in Inputs : opts.inputs[Position(Inputs, p)] = args[p].text
      /\ \A n \in DOMAIN opts.inputs : \E p \in Inputs : opts.inputs[n] = args[p].text
  BY <1>1 DEF Inv, LineTypes, Options, Collected, CollectedFrom
<1>3. CASE PrintInfo
  <2>1. Info /\ Exit(0)
    BY <1>3 DEF PrintInfo
  <2> QED
    BY <1>1, <2>1, InvExit
<1>4. CASE PackFailed
  <2>1. stage = "pack" /\ phase = "done" /\ rc # 0 /\ Exit(rc)
    BY <1>4 DEF PackFailed
  <2>2. ~Info /\ next \in DOMAIN opts.inputs /\ root = opts.inputs[next]
    BY <2>1 DEF Inv, Compiling
  <2>3. rc \in {0, 1} /\ ~Pack!WellFormed(disk, root)
    BY <2>1, LoaderFacts DEF Inv, Loader!Inv, Loader!TypeOK
  <2>4. PICK p \in Inputs : opts.inputs[next] = args[p].text
    BY <1>2, <2>2
  <2>5. ~AsksForInfo /\ ~Pack!WellFormed(disk, args[p].text)
    BY <1>1, <2>2, <2>3, <2>4
  <2> QED
    BY <2>1, <2>3, <2>5, InvExit
<1>5. CASE AllCompiled
  <2>1. stage = "run" /\ ~Info /\ next > Len(opts.inputs) /\ Exit(0)
    BY <1>5 DEF AllCompiled
  <2>2. next - 1 = Len(opts.inputs)
    BY <1>2, <2>1
  <2>3. \A n \in 1..Len(opts.inputs) : Pack!WellFormed(disk, opts.inputs[n])
    BY <2>1, <2>2 DEF Inv, EarlierPacksBuilt
  <2>4. ASSUME NEW p \in Inputs
        PROVE  Pack!WellFormed(disk, args[p].text)
    <3>1. Position(Inputs, p) \in 1..Len(opts.inputs)
      BY <1>1, <1>2, BeforeFinite, PositionInSet
    <3> QED
      BY <1>2, <2>3, <3>1
  <2>5. Inputs # {}
    <3>1. opts.inputs # <<>>
      BY <2>1 DEF Inv, Understood
    <3>2. 1 \in DOMAIN opts.inputs
      BY <1>2, <3>1
    <3> QED
      BY <1>2, <3>2
  <2> QED
    BY <1>1, <2>1, <2>4, <2>5, InvExit
<1> QED
  BY <1>3, <1>4, <1>5

LEMMA InvStutter ==
    ASSUME Inv, UNCHANGED vars
    PROVE  Inv'
<1>1. UNCHANGED <<args, i, stage, opts, next, code, packVars>>
  BY DEF vars
<1>2. Loader!Inv' /\ disk' = disk /\ root' = root
  BY <1>1, SamePack
<1>3. LineTypes'
  BY <1>1 DEF Inv, LineTypes, Options
<1>4. /\ Collected' /\ (Info' <=> Info)
      /\ (Undecided(i)' <=> Undecided(i)) /\ (Free(i)' <=> Free(i))
  BY <1>1, SameLine DEF Inv
<1>5. Parsing' /\ Understood' /\ Compiling'
  BY <1>1, <1>2, <1>4, SameArgs DEF Inv, Parsing, Understood, Compiling
<1>6. EarlierPacksBuilt'
  BY <1>1, <1>2, SameBuilt DEF Inv, EarlierPacksBuilt
<1>7. ExitCode'
  <2>1. ExitCode
    BY DEF Inv
  <2>2. \A p : Pack!WellFormed(disk, args[p].text)' <=> Pack!WellFormed(disk, args[p].text)
    BY <1>1, <1>2 DEF Pack!WellFormed
  <2> QED
    BY <1>1, <1>2, <2>1, <2>2, SameArgs DEF ExitCode
<1> QED
  BY <1>2, <1>3, <1>4, <1>5, <1>6, <1>7 DEF Inv

-----------------------------------------------------------------------------
(* The theorems.                                                           *)

LEMMA InvNext == Inv /\ [Next]_vars => Inv'
<1> SUFFICES ASSUME Inv, [Next]_vars PROVE Inv'
  OBVIOUS
<1>1. CASE ParseCommandLine
  BY <1>1, InvArgument, InvOutput, InvAccept, InvRefuse, InvAbort DEF ParseCommandLine
<1>2. CASE Run
  BY <1>2, InvCompile, InvCompiled, InvLeave DEF Run
<1>3. CASE UNCHANGED vars
  BY <1>3, InvStutter
<1> QED
  BY <1>1, <1>2, <1>3 DEF Next

\* The inductive invariant holds of every run of the program: the loop of
\* parseCommandLine (Driver.cpp:48) has collected what the arguments before its
\* position say, and the pack in hand (Driver.cpp:107) is PackLoader's.
THEOREM Invariance == Spec => []Inv
BY InvInit, InvNext, PTL DEF Spec

\* Every variable of the program keeps its type (Driver.cpp:48, :107).
THEOREM Types == Spec => []TypeOK
<1>1. Inv => TypeOK
  BY LoaderFacts DEF Inv, LineTypes, TypeOK
<1> QED
  BY <1>1, Invariance, PTL

\* Whatever the line, the options of one that is accepted are what it says
\* without the loop: the parity of the -o's decides what is an operand, and
\* nothing right of --version or --help counts (parseCommandLine, Driver.cpp:48).
THEOREM OptionsUnderstood == Spec => []OptionsAreTheLine
BY OptionsFollow, Invariance, PTL

\* While a pack is compiled, all those before it are well formed
\* (Driver::run, Driver.cpp:107).
THEOREM EarlierBuilt == Spec => []EarlierPacksBuilt
<1>1. Inv => EarlierPacksBuilt
  BY DEF Inv
<1> QED
  BY <1>1, Invariance, PTL

\* On every disk the exit code is 0 exactly for help, version, and a line
\* without error whose input files are roots of well-formed packs (eter.cpp:20).
THEOREM ExitCodes == Spec => []ExitCode
<1>1. Inv => ExitCode
  BY DEF Inv
<1> QED
  BY <1>1, Invariance, PTL
=============================================================================
