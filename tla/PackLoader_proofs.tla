-------------------------- MODULE PackLoader_proofs --------------------------
(***************************************************************************)
(* Proofs about PackLoader, for every set of paths, every layout of the    *)
(* directories and every content of the files.                             *)
(***************************************************************************)
EXTENDS PackLoader, SequenceTheorems, TLAPS

-----------------------------------------------------------------------------
(* Facts about the file graph.                                             *)

\* A declaration leads to a path or to NoPath.
LEMMA LocateType ==
    ASSUME NEW d \in [Path -> File], NEW p \in Path, NEW n \in ModName
    PROVE  Locate(d, p, n) \in Path \cup {NoPath}
BY PathAssumption DEF Locate

\* So does every ModDeclFile child of a file.
LEMMA ChildAtType ==
    ASSUME NEW d \in [Path -> File], NEW p \in Path, NEW i \in FileMods(d, p)
    PROVE  ChildAt(d, p, i) \in Path \cup {NoPath}
<1>1. d[p].items \in Seq(Item)
  BY DEF File
<1>2. i \in DOMAIN d[p].items
  BY DEF FileMods
<1>3. d[p].items[i] \in Item
  BY <1>1, <1>2
<1>4. d[p].items[i].name \in ModName
  BY <1>3 DEF Item
<1> QED
  BY <1>4, LocateType DEF ChildAt

\* The root is in its own pack.
LEMMA RootReached ==
    ASSUME NEW d, NEW r \in Path
    PROVE  r \in Reach(d, r)
BY DEF Reach

\* A pack contains the files its files declare.
LEMMA ReachClosed ==
    ASSUME NEW d \in [Path -> File], NEW r, NEW p \in Reach(d, r),
           NEW c \in Children(d, p), c # NoPath
    PROVE  c \in Reach(d, r)
<1>1. p \in Path
  BY DEF Reach
<1>2. c \in Path
  BY <1>1, ChildAtType DEF Children
<1>3. ASSUME NEW S \in SUBSET Path, r \in S, ClosedSet(d, S)
      PROVE  c \in S
  <2>1. p \in S
    BY <1>3 DEF Reach
  <2> QED
    BY <1>3, <2>1 DEF ClosedSet
<1> QED
  BY <1>2, <1>3 DEF Reach

\* It is the least set that does.
LEMMA ReachLeast ==
    ASSUME NEW d, NEW r, NEW S \in SUBSET Path, r \in S, ClosedSet(d, S)
    PROVE  Reach(d, r) \subseteq S
BY DEF Reach

\* Adding a file whose children are all in a closed acyclic set keeps the set
\* acyclic: this is why storing the result after the children matters.
LEMMA WellFoundedExtends ==
    ASSUME NEW d, NEW S, NEW p,
           WellFounded(d, S), p \notin S, Children(d, p) \subseteq S,
           \A q \in S : Children(d, q) \subseteq S
    PROVE  WellFounded(d, S \cup {p})
<1>1. SUFFICES ASSUME NEW T \in SUBSET (S \cup {p}), T # {}
               PROVE  \E q \in T : Children(d, q) \cap T = {}
  BY DEF WellFounded
<1>2. CASE T \ {p} = {}
  <2>1. T = {p}
    BY <1>1, <1>2
  <2>2. Children(d, p) \cap T = {}
    BY <2>1
  <2> QED
    BY <2>1, <2>2
<1>3. CASE T \ {p} # {}
  <2>1. T \ {p} \in SUBSET S
    OBVIOUS
  <2>2. PICK q \in T \ {p} : Children(d, q) \cap (T \ {p}) = {}
    BY <1>3, <2>1 DEF WellFounded
  <2>3. p \notin Children(d, q)
    BY <2>1, <2>2
  <2> QED
    BY <2>2, <2>3
<1> QED
  BY <1>2, <1>3

\* A set each of whose members has a child in it is a cycle no pack may have.
LEMMA CycleIsDefect ==
    ASSUME NEW d, NEW r, NEW T \in SUBSET Reach(d, r), T # {},
           \A q \in T : Children(d, q) \cap T # {}
    PROVE  ~WellFormed(d, r)
BY DEF WellFormed, WellFounded

-----------------------------------------------------------------------------
(* Frames.                                                                 *)

\* Moving a frame to its next declaration changes that frame only.
LEMMA Advance ==
    ASSUME stack \in Seq(Frame), stack # <<>>,
           stack' = [stack EXCEPT ![Len(stack)].next = @ + 1]
    PROVE  /\ stack' \in Seq(Frame)
           /\ Len(stack') = Len(stack)
           /\ DOMAIN stack' = DOMAIN stack
           /\ \A i \in DOMAIN stack : stack'[i].path = stack[i].path
           /\ \A i \in 1..(Len(stack) - 1) : stack'[i] = stack[i]
           /\ stack'[Len(stack)].next = stack[Len(stack)].next + 1
<1>1. Len(stack) \in DOMAIN stack /\ stack[Len(stack)] \in Frame
  OBVIOUS
<1> DEFINE f == [stack[Len(stack)] EXCEPT !.next = @ + 1]
<1>2. f \in Frame /\ f.path = stack[Len(stack)].path
                  /\ f.next = stack[Len(stack)].next + 1
  BY <1>1 DEF Frame
<1>3. stack' = [stack EXCEPT ![Len(stack)] = f]
  OBVIOUS
<1> HIDE DEF f
<1> QED
  BY <1>1, <1>2, <1>3

\* Leaving the top frame keeps the others.
LEMMA Pop ==
    ASSUME stack \in Seq(Frame), stack # <<>>
    PROVE  /\ Popped \in Seq(Frame)
           /\ Top \in Frame
           /\ Len(Popped) = Len(stack) - 1
           /\ DOMAIN Popped = 1..(Len(stack) - 1)
           /\ \A i \in 1..(Len(stack) - 1) : Popped[i] = stack[i]
<1>1. Len(stack) \in Nat \ {0} /\ stack[Len(stack)] \in Frame
  OBVIOUS
<1>2. /\ SubSeq(stack, 1, Len(stack) - 1) \in Seq(Frame)
      /\ Len(SubSeq(stack, 1, Len(stack) - 1)) = Len(stack) - 1
  <2> DEFINE n == Len(stack) - 1
  <2>1. n \in Nat
    BY <1>1
  <2>2. \A i \in 1..n : stack[i] \in Frame
    BY <1>1
  <2> HIDE DEF n
  <2>3. /\ SubSeq(stack, 1, n) \in Seq(Frame)
        /\ Len(SubSeq(stack, 1, n)) = IF 1 <= n THEN n - 1 + 1 ELSE 0
    BY <2>1, <2>2, SubSeqProperties
  <2>4. Len(SubSeq(stack, 1, n)) = n
    BY <2>1, <2>3
  <2> QED
    BY <2>3, <2>4 DEF n
<1>3. \A i \in 1..(Len(stack) - 1) : SubSeq(stack, 1, Len(stack) - 1)[i] = stack[i]
  BY <1>1
<1> QED
  BY <1>1, <1>2, <1>3 DEF Popped, Top

-----------------------------------------------------------------------------
(* The initial states and the steps.                                       *)

LEMMA InitInv == Init => Inv
<1> SUFFICES ASSUME Init PROVE Inv
  OBVIOUS
<1> USE DEF Init
<1>1. TypeOK
  <2>1. stack \in Seq(Frame) /\ parsed \in Seq(Path)
    OBVIOUS
  <2>2. printed \in Seq([path : Path, kind : {"lex", "parse"}])
    OBVIOUS
  <2> QED
    BY <2>1, <2>2, Zenon DEF TypeOK
<1>5. ShapeInv /\ ParsedOnce
  BY DEF ShapeInv, ParsedOnce
<1>2. InProgressIsStack /\ ChainInv /\ WalkInv
  BY DEF InProgressIsStack, ChainInv, WalkInv, Entering
<1>3. ResultsAreFinished /\ PackInv
  BY DEF ResultsAreFinished, PackInv, WellFounded, Entering
<1>4. HistoryInv /\ ReportInv
  BY DEF HistoryInv, ReportInv
<1> QED
  BY <1>1, <1>2, <1>3, <1>4, <1>5 DEF Inv

\* Type correctness.
LEMMA TypeStep == TypeOK /\ ShapeInv /\ Next => TypeOK'
<1> SUFFICES ASSUME TypeOK, ShapeInv, Next PROVE TypeOK'
  OBVIOUS
<1>0. disk \in [Path -> File]
  BY DisksAssumption DEF TypeOK
<1>1. CASE \E r \in Path : CompilePack(r)
  BY <1>1 DEF CompilePack, TypeOK
<1>2. CASE AlreadyParsed \/ CircularDependency \/ CannotOpen \/ PackReturns
  BY <1>2 DEF AlreadyParsed, CircularDependency, CannotOpen, PackReturns, Return, TypeOK
<1>3. CASE LexFile
  <2>1. disk[arg].lexErrors \in BOOLEAN
    BY <1>0, <1>3 DEF LexFile, ShapeInv, File
  <2> QED
    BY <1>3, <2>1 DEF LexFile, TypeOK
<1>4. CASE ParseBuffer
  <2>1. arg \in Path /\ parsed' = Append(parsed, arg)
    BY <1>4 DEF ParseBuffer, ShapeInv
  <2>2. parsed' \in Seq(Path)
    BY <2>1 DEF TypeOK
  <2> QED
    BY <1>4, <2>2 DEF ParseBuffer, TypeOK
<1>5. CASE EmitDiagnostics
  <2>1. arg \in Path
    BY <1>5 DEF EmitDiagnostics, ShapeInv
  <2>2. printed' \in Seq([path : Path, kind : {"lex", "parse"}])
    <3> DEFINE D == [path : Path, kind : {"lex", "parse"}]
    <3>1. ASSUME NEW k \in {"lex", "parse"}, NEW b
          PROVE  Report(b, k) \in Seq(D)
      <4>1. [path |-> arg, kind |-> k] \in D
        BY <2>1
      <4>2. <<[path |-> arg, kind |-> k]>> \in Seq(D)
        BY <4>1
      <4>3. <<>> \in Seq(D)
        OBVIOUS
      <4> QED
        BY <4>2, <4>3, Zenon DEF Report
    <3>2. Report(tsLexErrors, "lex") \in Seq(D)
      BY <3>1
    <3>3. Report(disk[arg].parseErrors, "parse") \in Seq(D)
      BY <3>1
    <3> QED
      BY <1>5, <3>2, <3>3 DEF EmitDiagnostics, TypeOK
  <2>3. [path |-> arg, next |-> 1] \in Frame
    BY <2>1 DEF Frame
  <2>4. stack' \in Seq(Frame)
    BY <1>5, <2>3 DEF EmitDiagnostics, TypeOK
  <2> QED
    BY <1>5, <2>1, <2>2, <2>4 DEF EmitDiagnostics, TypeOK
<1>6. CASE SkipDecl \/ NextChild
  <2>1. stack # <<>>
    BY <1>6 DEF SkipDecl, NextChild, AtItem, ShapeInv
  <2>2. stack' \in Seq(Frame)
    BY <1>6, <2>1, Advance DEF SkipDecl, NextChild, TypeOK
  <2> QED
    BY <1>6, <2>2 DEF SkipDecl, NextChild, TypeOK
<1>7. CASE Descend
  <2>1. Top \in Frame
    BY <1>7 DEF Descend, AtItem, ShapeInv, TypeOK, Top
  <2>2. TopItem \in Item
    BY <1>0, <1>7, <2>1 DEF Descend, AtItem, TopItem, Frame, File
  <2>3. arg' \in Path
    BY <1>0, <1>7, <2>1, <2>2, LocateType DEF Descend, Frame, Item
  <2> QED
    BY <1>7, <2>3 DEF Descend, TypeOK
<1>8. CASE ModuleNotFound \/ FinishFile \/ Unwind
  <2>1. stack # <<>>
    BY <1>8 DEF ModuleNotFound, FinishFile, Unwind, AtItem, ShapeInv
  <2>2. Popped \in Seq(Frame) /\ Top \in Frame
    BY <2>1, Pop DEF TypeOK
  <2> QED
    BY <1>8, <2>2 DEF ModuleNotFound, FinishFile, Unwind, Return, Cleanup, TypeOK, Frame
<1> QED
  BY <1>1, <1>2, <1>3, <1>4, <1>5, <1>6, <1>7, <1>8 DEF Next, Step

\* The stack holds the files in progress, each once.
LEMMA StackStep == Inv /\ Next => InProgressIsStack'
<1> SUFFICES ASSUME Inv, Next PROVE InProgressIsStack'
  OBVIOUS
<1> USE DEF InProgressIsStack
<1>0. /\ stack \in Seq(Frame)
      /\ InProgressIsStack
      /\ ShapeInv
  BY DEF Inv, TypeOK
<1>1. CASE \E r \in Path : CompilePack(r)
  BY <1>0, <1>1 DEF CompilePack, ShapeInv
<1>2. CASE UNCHANGED <<stack, inProgress>>
  BY <1>0, <1>2
<1>3. CASE EmitDiagnostics
  <2>1. stack' = Append(stack, [path |-> arg, next |-> 1])
        /\ inProgress' = inProgress \cup {arg} /\ arg \notin inProgress
    BY <1>0, <1>3 DEF EmitDiagnostics, ShapeInv
  <2>2. /\ DOMAIN stack' = 1..(Len(stack) + 1)
        /\ \A i \in 1..Len(stack) : stack'[i] = stack[i]
        /\ stack'[Len(stack) + 1].path = arg
    BY <1>0, <2>1
  <2> QED
    BY <1>0, <2>1, <2>2
<1>4. CASE SkipDecl \/ NextChild
  <2>1. stack # <<>> /\ inProgress' = inProgress
    BY <1>0, <1>4 DEF SkipDecl, NextChild, AtItem, ShapeInv
  <2>2. /\ DOMAIN stack' = DOMAIN stack
        /\ \A i \in DOMAIN stack : stack'[i].path = stack[i].path
    BY <1>0, <1>4, <2>1, Advance DEF SkipDecl, NextChild
  <2> QED
    BY <1>0, <2>1, <2>2
<1>5. CASE ModuleNotFound \/ FinishFile \/ Unwind
  <2>1. stack # <<>> /\ stack' = Popped /\ inProgress' = inProgress \ {Top.path}
    BY <1>0, <1>5
       DEF ModuleNotFound, FinishFile, Unwind, Cleanup, AtItem, ShapeInv
  <2>2. /\ DOMAIN stack' = 1..(Len(stack) - 1)
        /\ \A i \in 1..(Len(stack) - 1) : stack'[i] = stack[i]
    BY <1>0, <2>1, Pop
  <2>3. DOMAIN stack = 1..Len(stack) /\ Len(stack) \in Nat \ {0}
    BY <1>0, <2>1
  <2>4. \A i, j \in DOMAIN stack' : stack'[i].path = stack'[j].path => i = j
    BY <1>0, <2>2, <2>3
  <2>5. \A i \in 1..(Len(stack) - 1) : stack[i].path # Top.path
    BY <1>0, <2>3 DEF Top
  <2>6. inProgress = {stack[i].path : i \in 1..(Len(stack) - 1)} \cup {Top.path}
    BY <1>0, <2>3 DEF Top
  <2>7. inProgress' = {stack'[i].path : i \in DOMAIN stack'}
    BY <2>1, <2>2, <2>5, <2>6
  <2> QED
    BY <2>4, <2>7
<1> QED
  BY <1>1, <1>2, <1>3, <1>4, <1>5
     DEF Next, Step, AlreadyParsed, CircularDependency, CannotOpen, LexFile,
         ParseBuffer, Descend, PackReturns

\* Where the program is, what is on the stack and what is being entered.
LEMMA ShapeStep == Inv /\ Next => ShapeInv'
<1> SUFFICES ASSUME Inv, Next PROVE ShapeInv'
  OBVIOUS
<1> USE DEF ShapeInv
<1>0. TypeOK /\ TypeOK' /\ ShapeInv
  BY TypeStep DEF Inv
<1>1. CASE \E r \in Path : CompilePack(r)
  BY <1>0, <1>1 DEF CompilePack
<1>2. CASE AlreadyParsed \/ CircularDependency \/ CannotOpen \/ PackReturns
  BY <1>0, <1>2
     DEF AlreadyParsed, CircularDependency, CannotOpen, PackReturns, Return
<1>3. CASE LexFile
  BY <1>0, <1>3 DEF LexFile
<1>4. CASE ParseBuffer
  BY <1>0, <1>4 DEF ParseBuffer
<1>5. CASE EmitDiagnostics
  <2>1. stack' # <<>>
    <3>1. stack' = Append(stack, [path |-> arg, next |-> 1]) /\ stack \in Seq(Frame)
      BY <1>0, <1>5 DEF EmitDiagnostics, TypeOK
    <3>2. Len(stack') = Len(stack) + 1 /\ Len(stack) \in Nat /\ Len(<<>>) = 0
      BY <3>1
    <3>3. Len(stack') # 0
      BY <3>2
    <3> QED
      BY <3>2, <3>3
  <2> QED
    BY <1>0, <1>5, <2>1 DEF EmitDiagnostics
<1>6. CASE SkipDecl \/ NextChild
  <2>1. stack # <<>> /\ stack \in Seq(Frame)
    BY <1>0, <1>6 DEF SkipDecl, NextChild, AtItem, TypeOK
  <2>2. Len(stack') = Len(stack) /\ stack' \in Seq(Frame)
    BY <1>6, <2>1, Advance DEF SkipDecl, NextChild
  <2>3. stack' # <<>>
    <3>1. Len(stack) # 0 /\ Len(<<>>) = 0
      BY <2>1
    <3> QED
      BY <2>2, <3>1
  <2> QED
    BY <1>0, <1>6, <2>3 DEF SkipDecl, NextChild, AtItem
<1>7. CASE Descend
  <2>1. arg' \in Path
    <3>1. arg' \in Path \cup {NoPath} /\ arg' # NoPath
      BY <1>0, <1>7 DEF Descend, TypeOK
    <3> QED
      BY <3>1
  <2> QED
    BY <1>0, <1>7, <2>1 DEF Descend, AtItem
<1>8. CASE ModuleNotFound \/ FinishFile \/ Unwind
  BY <1>0, <1>8 DEF ModuleNotFound, FinishFile, Unwind, Return, Cleanup, AtItem
<1> QED
  BY <1>1, <1>2, <1>3, <1>4, <1>5, <1>6, <1>7, <1>8 DEF Next, Step

\* The stack is a path of the file graph.
LEMMA ChainStep == Inv /\ Next => ChainInv'
<1> SUFFICES ASSUME Inv, Next PROVE ChainInv'
  OBVIOUS
<1>0. TypeOK /\ TypeOK' /\ ShapeInv /\ ChainInv /\ disk' = disk
  BY TypeStep
     DEF Inv, Next, Step, CompilePack, AlreadyParsed, CircularDependency,
         CannotOpen, LexFile, ParseBuffer, EmitDiagnostics, SkipDecl, Descend,
         ModuleNotFound, FinishFile, NextChild, Unwind, PackReturns
<1> stack \in Seq(Frame)
  BY <1>0 DEF TypeOK
<1>1. CASE \E r \in Path : CompilePack(r)
  BY <1>0, <1>1 DEF CompilePack, ShapeInv, ChainInv
<1>2. CASE AlreadyParsed \/ CircularDependency \/ CannotOpen \/ PackReturns
           \/ LexFile \/ ParseBuffer
  BY <1>0, <1>2
     DEF AlreadyParsed, CircularDependency, CannotOpen, PackReturns, LexFile,
         ParseBuffer, Return, ChainInv, PointsTo, Entering
<1>3. CASE EmitDiagnostics
  <2>1. /\ stack' = Append(stack, [path |-> arg, next |-> 1])
        /\ ~Entering' /\ Entering /\ root' = root
    BY <1>3 DEF EmitDiagnostics, Entering
  <2>2. /\ Len(stack') = Len(stack) + 1
        /\ \A i \in 1..Len(stack) : stack'[i] = stack[i]
        /\ stack'[Len(stack) + 1].path = arg
    BY <2>1
  <2>3. stack'[1].path = root
    <3>1. CASE stack = <<>>
      BY <1>0, <2>1, <2>2, <3>1 DEF ChainInv
    <3>2. CASE stack # <<>>
      <4>1. 1 \in 1..Len(stack)
        BY <3>2
      <4> QED
        BY <1>0, <2>2, <3>2, <4>1 DEF ChainInv
    <3> QED
      BY <3>1, <3>2
  <2>4. ASSUME NEW i \in 1..Len(stack)
        PROVE  PointsTo(i, stack'[i + 1].path)
    <3>1. CASE i = Len(stack)
      <4>1. stack # <<>>
        OBVIOUS
      <4> QED
        BY <1>0, <2>1, <2>2, <3>1, <4>1 DEF ChainInv
    <3>2. CASE i # Len(stack)
      <4>1. i \in 1..(Len(stack) - 1) /\ i + 1 \in 1..Len(stack)
        BY <3>2
      <4> QED
        BY <1>0, <2>2, <4>1 DEF ChainInv
    <3> QED
      BY <3>1, <3>2
  <2>5. \A i \in 1..(Len(stack') - 1) : PointsTo(i, stack[i + 1].path)'
    BY <1>0, <2>2, <2>4 DEF PointsTo
  <2> QED
    BY <2>1, <2>3, <2>5 DEF ChainInv
<1>4. CASE SkipDecl \/ NextChild
  <2>1. stack # <<>> /\ ~Entering' /\ root' = root
    BY <1>0, <1>4 DEF SkipDecl, NextChild, AtItem, ShapeInv, Entering
  <2>2. /\ Len(stack') = Len(stack)
        /\ \A i \in DOMAIN stack : stack'[i].path = stack[i].path
        /\ \A i \in 1..(Len(stack) - 1) : stack'[i] = stack[i]
    BY <1>4, <2>1, Advance DEF SkipDecl, NextChild
  <2>3. stack'[1].path = root
    BY <1>0, <2>1, <2>2 DEF ChainInv
  <2>4. \A i \in 1..(Len(stack) - 1) : stack'[i + 1].path = stack[i + 1].path
    BY <2>2
  <2>5. \A i \in 1..(Len(stack) - 1) : PointsTo(i, stack[i + 1].path)'
    BY <1>0, <2>2, <2>4 DEF ChainInv, PointsTo
  <2> QED
    BY <2>1, <2>2, <2>3, <2>5 DEF ChainInv
<1>5. CASE Descend
  <2>1. stack # <<>> /\ stack' = stack /\ root' = root
        /\ arg' = Locate(disk, Top.path, TopItem.name)
        /\ Top.next \in DOMAIN disk[Top.path].items /\ ~TopItem.nested
    BY <1>0, <1>5 DEF Descend, AtItem, ShapeInv
  <2>2. PointsTo(Len(stack), arg')
    BY <2>1 DEF PointsTo, ChildAt, FileMods, Top, TopItem
  <2>3. PointsTo(Len(stack), arg)'
    BY <1>0, <2>1, <2>2 DEF PointsTo
  <2> QED
    BY <1>0, <2>1, <2>3 DEF ChainInv, PointsTo
<1>6. CASE ModuleNotFound \/ FinishFile \/ Unwind
  <2>1. stack # <<>> /\ stack' = Popped /\ ~Entering' /\ root' = root
    BY <1>0, <1>6
       DEF ModuleNotFound, FinishFile, Unwind, Cleanup, AtItem, ShapeInv, Return,
           Entering
  <2>2. /\ Len(stack') = Len(stack) - 1
        /\ \A i \in 1..(Len(stack) - 1) : stack'[i] = stack[i]
        /\ stack' \in Seq(Frame)
    BY <2>1, Pop
  <2>3. stack' # <<>> => stack'[1].path = root
    <3>1. SUFFICES ASSUME stack' # <<>> PROVE stack'[1].path = root
      OBVIOUS
    <3>2. Len(stack') # 0
      BY <2>2, <3>1
    <3>3. 1 \in 1..(Len(stack) - 1)
      BY <2>2, <3>2
    <3> QED
      BY <1>0, <2>1, <2>2, <3>3 DEF ChainInv
  <2>4. \A i \in 1..(Len(stack') - 1) : stack'[i + 1] = stack[i + 1]
    BY <2>2
  <2>5. \A i \in 1..(Len(stack') - 1) : PointsTo(i, stack[i + 1].path)'
    BY <1>0, <2>2, <2>4 DEF ChainInv, PointsTo
  <2> QED
    BY <2>1, <2>3, <2>5 DEF ChainInv
<1> QED
  BY <1>1, <1>2, <1>3, <1>4, <1>5, <1>6 DEF Next, Step

\* What the frames have walked over is in Results.
LEMMA WalkStep == Inv /\ Next => WalkInv'
<1> SUFFICES ASSUME Inv, Next PROVE WalkInv'
  OBVIOUS
<1>0. TypeOK /\ TypeOK' /\ ShapeInv /\ ChainInv /\ WalkInv /\ disk' = disk
  BY TypeStep
     DEF Inv, Next, Step, CompilePack, AlreadyParsed, CircularDependency,
         CannotOpen, LexFile, ParseBuffer, EmitDiagnostics, SkipDecl, Descend,
         ModuleNotFound, FinishFile, NextChild, Unwind, PackReturns
<1> stack \in Seq(Frame)
  BY <1>0 DEF TypeOK
<1> disk \in [Path -> File]
  BY <1>0, DisksAssumption DEF TypeOK
<1>1. CASE \E r \in Path : CompilePack(r)
  BY <1>0, <1>1 DEF CompilePack, ShapeInv, WalkInv
<1>2. CASE CircularDependency \/ CannotOpen \/ LexFile \/ ParseBuffer
           \/ Descend \/ PackReturns
  BY <1>0, <1>2
     DEF CircularDependency, CannotOpen, LexFile, ParseBuffer, Descend,
         PackReturns, Return, WalkInv, PointsTo
<1>3. CASE AlreadyParsed
  <2>1. /\ phase = "call" /\ arg \in results /\ stack' = stack /\ results' = results
        /\ root' = root
    BY <1>3 DEF AlreadyParsed
  <2>2. IF stack = <<>> THEN root \in results
        ELSE \E p \in results : PointsTo(Len(stack), p)
    BY <1>0, <2>1 DEF ChainInv, Entering
  <2>3. (IF stack = <<>> THEN root \in results
         ELSE \E p \in results : PointsTo(Len(stack), p))'
    BY <1>0, <2>1, <2>2 DEF PointsTo
  <2> QED
    BY <1>0, <2>1, <2>3 DEF WalkInv
<1>4. CASE EmitDiagnostics
  <2>1. /\ stack' = Append(stack, [path |-> arg, next |-> 1])
        /\ results' = results /\ phase' = "walk" /\ disk[arg].opens /\ arg \in Path
    BY <1>0, <1>4 DEF EmitDiagnostics, ShapeInv
  <2>2. /\ DOMAIN stack' = 1..(Len(stack) + 1)
        /\ \A i \in 1..Len(stack) : stack'[i] = stack[i]
        /\ stack'[Len(stack) + 1] = [path |-> arg, next |-> 1]
    BY <2>1
  <2>3. FileMods(disk, arg) \subseteq Nat \ {0}
    BY <2>1 DEF FileMods, File
  <2> QED
    BY <1>0, <2>1, <2>2, <2>3 DEF WalkInv
<1>5. CASE SkipDecl \/ NextChild
  <2>1. /\ stack # <<>> /\ phase' = "walk" /\ results' = results
        /\ Len(stack) \in DOMAIN stack
    BY <1>0, <1>5 DEF SkipDecl, NextChild, AtItem, ShapeInv
  <2>2. /\ DOMAIN stack' = DOMAIN stack
        /\ \A i \in DOMAIN stack : stack'[i].path = stack[i].path
        /\ \A i \in 1..(Len(stack) - 1) : stack'[i] = stack[i]
        /\ stack'[Len(stack)].next = Top.next + 1
    BY <1>5, <2>1, Advance DEF SkipDecl, NextChild, Top
  <2>3. Top.next \in FileMods(disk, Top.path) =>
            ChildAt(disk, Top.path, Top.next) \in results
    <3>1. CASE SkipDecl
      BY <3>1 DEF SkipDecl, FileMods, TopItem
    <3>2. CASE NextChild
      BY <1>0, <2>1, <3>2 DEF NextChild, WalkInv, PointsTo, Top
    <3> QED
      BY <1>5, <3>1, <3>2
  <2>4. ASSUME NEW i \in DOMAIN stack, NEW j \in FileMods(disk, stack[i].path),
               j < stack'[i].next
        PROVE  ChildAt(disk, stack[i].path, j) \in results
    <3>1. CASE i = Len(stack)
      <4>1. j \in Int /\ Top.next \in Int
        BY <3>1, Pop, <2>1 DEF FileMods, File, Frame, Top
      <4>2. j < Top.next \/ j = Top.next
        BY <2>2, <2>4, <3>1, <4>1
      <4> QED
        BY <1>0, <2>3, <3>1, <4>2 DEF WalkInv, Top
    <3>2. CASE i # Len(stack)
      <4>1. stack'[i] = stack[i]
        BY <2>2, <3>2
      <4> QED
        BY <1>0, <2>4, <4>1 DEF WalkInv
    <3> QED
      BY <3>1, <3>2
  <2> QED
    BY <1>0, <2>1, <2>2, <2>4 DEF WalkInv
<1>6. CASE ModuleNotFound \/ FinishFile \/ Unwind
  <2>1. stack # <<>> /\ stack' = Popped /\ results \subseteq results' /\ root' = root
    BY <1>0, <1>6
       DEF ModuleNotFound, FinishFile, Unwind, Cleanup, AtItem, ShapeInv
  <2>2. /\ Len(stack') = Len(stack) - 1
        /\ DOMAIN stack' = 1..(Len(stack) - 1)
        /\ \A i \in 1..(Len(stack) - 1) : stack'[i] = stack[i]
    BY <2>1, Pop
  <2>3. ASSUME phase' \in {"return", "done"}, rc' = 0
        PROVE  FinishFile
    BY <1>0, <1>6, <2>3 DEF ModuleNotFound, Unwind, Return
  <2>4. ASSUME FinishFile
        PROVE  IF stack' = <<>> THEN root \in results'
               ELSE \E p \in results' : PointsTo(Len(stack), p)'
    <3>1. Top.path \in results'
      BY <2>4 DEF FinishFile
    <3>2. CASE stack' = <<>>
      <4>1. Len(stack) = 1
        BY <2>2, <3>2
      <4> QED
        BY <1>0, <2>1, <3>1, <3>2, <4>1 DEF ChainInv, Top
    <3>3. CASE stack' # <<>>
      <4>1. Len(stack') \in 1..(Len(stack) - 1)
        <5>1. Len(stack') # 0
          BY <2>1, <3>3, Pop
        <5> QED
          BY <2>2, <5>1
      <4>2. PointsTo(Len(stack) - 1, Top.path)
        BY <1>0, <2>2, <4>1 DEF ChainInv, Top
      <4>3. Len(stack') = Len(stack) - 1 /\ stack'[Len(stack')] = stack[Len(stack) - 1]
        BY <2>2, <4>1
      <4>4. \E p \in results' : PointsTo(Len(stack), p)'
        BY <1>0, <3>1, <4>2, <4>3 DEF PointsTo
      <4> QED
        BY <3>3, <4>4
    <3> QED
      BY <3>2, <3>3
  <2> QED
    BY <1>0, <2>1, <2>2, <2>3, <2>4 DEF WalkInv
<1> QED
  BY <1>1, <1>2, <1>3, <1>4, <1>5, <1>6 DEF Next, Step

\* When the walk over a file is over, all its declarations led to files that
\* are finished.
LEMMA FinishedFile ==
    ASSUME Inv, FinishFile
    PROVE  /\ stack # <<>> /\ Top.path \in Path
           /\ Top.path \in inProgress /\ Top.path \notin results
           /\ Loadable(disk, Top.path)
           /\ Children(disk, Top.path) \subseteq results
<1>0. /\ TypeOK /\ ShapeInv /\ WalkInv /\ InProgressIsStack /\ ResultsAreFinished
      /\ stack \in Seq(Frame) /\ disk \in [Path -> File]
  BY DisksAssumption DEF Inv, TypeOK
<1>1. stack # <<>> /\ Top.next \notin DOMAIN disk[Top.path].items
  BY <1>0 DEF FinishFile, AtItem, ShapeInv
<1>2. Len(stack) \in DOMAIN stack /\ Top = stack[Len(stack)] /\ Top \in Frame
  BY <1>0, <1>1 DEF Top
<1>3. Top.path \in Path /\ Top.next \in Nat \ {0}
  BY <1>2 DEF Frame
<1>4. Top.path \in inProgress
  BY <1>0, <1>2 DEF InProgressIsStack
<1>5. \A j \in FileMods(disk, Top.path) : j < Top.next
  <2>1. disk[Top.path].items \in Seq(Item)
    BY <1>0, <1>3 DEF File
  <2> QED
    BY <1>1, <1>3, <2>1 DEF FileMods
<1>6. Children(disk, Top.path) \subseteq results
  BY <1>0, <1>2, <1>5 DEF WalkInv, Children
<1>7. results \in SUBSET Path /\ NoPath \notin Path
  BY <1>0, PathAssumption DEF TypeOK
<1>8. Loadable(disk, Top.path)
  BY <1>0, <1>2, <1>6, <1>7 DEF WalkInv, Loadable
<1> QED
  BY <1>0, <1>1, <1>3, <1>4, <1>6, <1>8 DEF ResultsAreFinished

\* Results only ever holds finished files.
LEMMA FinishedStep == Inv /\ Next => ResultsAreFinished'
<1> SUFFICES ASSUME Inv, Next PROVE ResultsAreFinished'
  OBVIOUS
<1>0. /\ ResultsAreFinished /\ ShapeInv
      /\ disk' = disk
  BY DEF Inv, Next, Step, CompilePack, AlreadyParsed, CircularDependency,
         CannotOpen, LexFile, ParseBuffer, EmitDiagnostics, SkipDecl, Descend,
         ModuleNotFound, FinishFile, NextChild, Unwind, PackReturns
<1>1. CASE \E r \in Path : CompilePack(r)
  BY <1>1 DEF CompilePack, ResultsAreFinished
<1>2. CASE UNCHANGED <<results, inProgress>>
  BY <1>0, <1>2 DEF ResultsAreFinished
<1>3. CASE EmitDiagnostics
  BY <1>0, <1>3 DEF EmitDiagnostics, ResultsAreFinished, ShapeInv
<1>4. CASE ModuleNotFound \/ Unwind
  BY <1>0, <1>4 DEF ModuleNotFound, Unwind, Cleanup, ResultsAreFinished
<1>5. CASE FinishFile
  <2>1. results' = results \cup {Top.path} /\ inProgress' = inProgress \ {Top.path}
    BY <1>5 DEF FinishFile, Cleanup
  <2> QED
    BY <1>0, <1>5, <2>1, FinishedFile DEF ResultsAreFinished
<1> QED
  BY <1>1, <1>2, <1>3, <1>4, <1>5
     DEF Next, Step, AlreadyParsed, CircularDependency, CannotOpen, LexFile,
         ParseBuffer, SkipDecl, Descend, NextChild, PackReturns

\* A file met again while it is in progress closes a cycle.
LEMMA CircularIsDefect ==
    ASSUME Inv, CircularDependency
    PROVE  ~WellFormed(disk, root)
<1>0. /\ InProgressIsStack /\ ChainInv /\ PackInv
      /\ stack \in Seq(Frame)
      /\ Entering /\ arg \in inProgress
  BY DEF Inv, TypeOK, CircularDependency, Entering
<1>1. PICK k \in DOMAIN stack : stack[k].path = arg
  BY <1>0 DEF InProgressIsStack
<1> DEFINE T == {stack[i].path : i \in k..Len(stack)}
<1>2. /\ k \in 1..Len(stack) /\ DOMAIN stack = 1..Len(stack) /\ Len(stack) \in Nat
      /\ stack # <<>>
  BY <1>0, <1>1
<1>3. T \in SUBSET Reach(disk, root)
  BY <1>0, <1>2 DEF PackInv, InProgressIsStack
<1>4. arg \in T
  BY <1>1, <1>2
<1>5. ASSUME NEW q \in T
      PROVE  Children(disk, q) \cap T # {}
  <2>1. PICK i \in k..Len(stack) : q = stack[i].path
    OBVIOUS
  <2>2. CASE i = Len(stack)
    <3>1. PointsTo(i, arg)
      BY <1>0, <1>2, <2>2 DEF ChainInv
    <3>2. arg \in Children(disk, q)
      BY <2>1, <3>1 DEF PointsTo, Children
    <3> QED
      BY <1>4, <3>2
  <2>3. CASE i # Len(stack)
    <3>0. /\ k \in Int /\ Len(stack) \in Int /\ 1 <= k
          /\ i \in k..Len(stack)
      BY <1>2
    <3>1. i \in 1..(Len(stack) - 1) /\ i + 1 \in k..Len(stack)
      BY <2>3, <3>0
    <3>2. PointsTo(i, stack[i + 1].path)
      BY <1>0, <3>1 DEF ChainInv
    <3>3. stack[i + 1].path \in Children(disk, q)
      BY <2>1, <3>2 DEF PointsTo, Children
    <3>4. stack[i + 1].path \in T
      BY <3>1
    <3> QED
      BY <3>3, <3>4
  <2> QED
    BY <2>2, <2>3
<1> HIDE DEF T
<1> QED
  BY <1>3, <1>4, <1>5, CycleIsDefect

\* The driver stays in the pack, finishes no cycle and fails for a reason.
LEMMA PackStep == Inv /\ Next => PackInv'
<1> SUFFICES ASSUME Inv, Next PROVE PackInv'
  OBVIOUS
<1>0. /\ TypeOK /\ PackInv /\ ShapeInv /\ ChainInv /\ InProgressIsStack
      /\ ResultsAreFinished
      /\ disk' = disk /\ disk \in [Path -> File] /\ stack \in Seq(Frame)
  BY DisksAssumption
     DEF Inv, Next, Step, CompilePack, AlreadyParsed, CircularDependency,
         CannotOpen, LexFile, ParseBuffer, EmitDiagnostics, SkipDecl, Descend,
         ModuleNotFound, FinishFile, NextChild, Unwind, PackReturns, TypeOK
<1>1. CASE \E r \in Path : CompilePack(r)
  BY <1>0, <1>1, RootReached DEF CompilePack, PackInv, Entering, WellFounded
<1>2. CASE LexFile \/ ParseBuffer \/ AlreadyParsed \/ SkipDecl \/ NextChild
           \/ PackReturns
  BY <1>0, <1>2
     DEF LexFile, ParseBuffer, AlreadyParsed, SkipDecl, NextChild, PackReturns,
         Return, PackInv, Entering, AtItem
<1>3. CASE CircularDependency
  <2>1. ~WellFormed(disk, root)
    BY <1>3, CircularIsDefect
  <2> QED
    BY <1>0, <1>3, <2>1 DEF CircularDependency, Return, PackInv, Entering
<1>4. CASE CannotOpen
  <2>1. arg \in Reach(disk, root) /\ ~Loadable(disk, arg)
    BY <1>0, <1>4 DEF CannotOpen, PackInv, Entering, Loadable
  <2>2. ~WellFormed(disk, root)
    BY <2>1 DEF WellFormed
  <2> QED
    BY <1>0, <1>4, <2>2 DEF CannotOpen, Return, PackInv, Entering
<1>5. CASE EmitDiagnostics
  <2>1. arg \in Reach(disk, root)
    BY <1>0, <1>5 DEF EmitDiagnostics, PackInv, Entering
  <2> QED
    BY <1>0, <1>5, <2>1 DEF EmitDiagnostics, PackInv, Entering
<1>6. CASE Descend \/ ModuleNotFound
  <2>1. /\ stack # <<>> /\ Top \in Frame /\ Len(stack) \in DOMAIN stack
        /\ Top = stack[Len(stack)]
    BY <1>0, <1>6 DEF Descend, ModuleNotFound, AtItem, ShapeInv, Top
  <2>2. Top.path \in Reach(disk, root)
    BY <1>0, <2>1 DEF PackInv, InProgressIsStack
  <2>3. Locate(disk, Top.path, TopItem.name) \in Children(disk, Top.path)
    BY <1>6 DEF Descend, ModuleNotFound, AtItem, TopItem, Children, ChildAt, FileMods
  <2>4. CASE Descend
    <3>1. arg' \in Reach(disk, root)
      BY <1>0, <2>2, <2>3, <2>4, ReachClosed DEF Descend
    <3> QED
      BY <1>0, <2>4, <3>1 DEF Descend, PackInv, Entering
  <2>5. CASE ModuleNotFound
    <3>1. ~Loadable(disk, Top.path)
      BY <2>3, <2>5 DEF ModuleNotFound, Loadable
    <3>2. ~WellFormed(disk, root)
      BY <2>2, <3>1 DEF WellFormed
    <3> QED
      BY <1>0, <2>5, <3>2
         DEF ModuleNotFound, Return, Cleanup, PackInv, Entering
  <2> QED
    BY <1>6, <2>4, <2>5
<1>7. CASE FinishFile
  <2>1. WellFounded(disk, results \cup {Top.path})
    BY <1>0, <1>7, FinishedFile, WellFoundedExtends DEF PackInv, ResultsAreFinished
  <2> QED
    BY <1>0, <1>7, <2>1, FinishedFile
       DEF FinishFile, Return, Cleanup, PackInv, Entering
<1>8. CASE Unwind
  <2>1. rc = 1 /\ phase = "return" /\ phase' = phase
    BY <1>0, <1>8 DEF Unwind, TypeOK
  <2> QED
    BY <1>0, <1>8, <2>1 DEF Unwind, Cleanup, PackInv, Entering
<1> QED
  BY <1>1, <1>2, <1>3, <1>4, <1>5, <1>6, <1>7, <1>8 DEF Next, Step

\* What EmitDiagnostics appends: at most the parser errors of the file, since
\* the lexer errors went away with the stream.
LEMMA EmitPrints ==
    ASSUME Inv, EmitDiagnostics
    PROVE  printed' = IF disk[arg].parseErrors
                      THEN Append(printed, [path |-> arg, kind |-> "parse"])
                      ELSE printed
<1>1. /\ printed \in Seq([path : Path, kind : {"lex", "parse"}]) /\ ~tsLexErrors
      /\ arg \in Path
  BY DEF Inv, TypeOK, ShapeInv, EmitDiagnostics
<1>2. printed \o Report(tsLexErrors, "lex") = printed
  BY <1>1 DEF Report
<1> DEFINE d == [path |-> arg, kind |-> "parse"]
<1>3. printed' = printed \o Report(disk[arg].parseErrors, "parse")
  BY <1>2 DEF EmitDiagnostics
<1>4. printed \o <<d>> = Append(printed, d) /\ printed \o <<>> = printed
  BY <1>1
<1> QED
  BY <1>3, <1>4, Zenon DEF Report

\* The histories: no file is parsed twice, and what they name is known.
LEMMA HistoryStep == Inv /\ Next => ParsedOnce' /\ HistoryInv' /\ ReportInv'
<1> SUFFICES ASSUME Inv, Next PROVE ParsedOnce' /\ HistoryInv' /\ ReportInv'
  OBVIOUS
<1>0. /\ TypeOK /\ ShapeInv /\ ParsedOnce /\ HistoryInv /\ ReportInv
      /\ disk' = disk
      /\ parsed \in Seq(Path)
      /\ printed \in Seq([path : Path, kind : {"lex", "parse"}])
  BY DEF Inv, Next, Step, CompilePack, AlreadyParsed, CircularDependency,
         CannotOpen, LexFile, ParseBuffer, EmitDiagnostics, SkipDecl, Descend,
         ModuleNotFound, FinishFile, NextChild, Unwind, PackReturns, TypeOK
<1>1. CASE \E r \in Path : CompilePack(r)
  BY <1>1 DEF CompilePack, ParsedOnce, HistoryInv, ReportInv
<1>2. CASE LexFile \/ AlreadyParsed \/ CircularDependency \/ CannotOpen \/ SkipDecl
           \/ Descend \/ NextChild \/ PackReturns
  <2>1. UNCHANGED <<results, inProgress, parsed, printed, arg>> \/ Descend
    BY <1>2 DEF LexFile, AlreadyParsed, CircularDependency, CannotOpen, SkipDecl,
                Descend, NextChild, PackReturns
  <2>2. UNCHANGED <<results, inProgress, parsed, printed>>
    BY <2>1 DEF Descend
  <2>3. phase # "parsed" /\ phase' # "parsed"
    BY <1>2 DEF LexFile, AlreadyParsed, CircularDependency, CannotOpen, SkipDecl,
                Descend, NextChild, PackReturns, Return, AtItem
  <2>4. (phase' \in {"return", "done"} => rc' = 0)
            => (phase \in {"return", "done"} => rc = 0)
    BY <1>2 DEF LexFile, AlreadyParsed, CircularDependency, CannotOpen, SkipDecl,
                Descend, NextChild, PackReturns, Return, AtItem
  <2>5. ParsedOnce'
    BY <1>0, <2>2 DEF ParsedOnce
  <2>6. HistoryInv'
    BY <1>0, <2>2, <2>3, <2>4 DEF HistoryInv
  <2>7. ReportInv'
    BY <1>0, <2>2 DEF ReportInv
  <2> QED
    BY <2>5, <2>6, <2>7
<1>3. CASE ParseBuffer
  <2>1. /\ parsed' = Append(parsed, arg) /\ arg \notin results \cup inProgress
        /\ UNCHANGED <<results, inProgress, printed, arg>> /\ phase' = "parsed"
        /\ phase = "lexed" /\ arg \in Path
    BY <1>0, <1>3 DEF ParseBuffer, ShapeInv
  <2>2. \A i \in DOMAIN parsed : parsed[i] \in results \cup inProgress
    BY <1>0, <2>1 DEF HistoryInv
  <2>3. /\ DOMAIN parsed' = 1..(Len(parsed) + 1)
        /\ \A i \in 1..Len(parsed) : parsed'[i] = parsed[i]
        /\ parsed'[Len(parsed) + 1] = arg
        /\ DOMAIN parsed = 1..Len(parsed) /\ Len(parsed) \in Nat
    BY <1>0, <2>1
  <2>4. \A i, j \in DOMAIN parsed' : parsed'[i] = parsed'[j] => i = j
    BY <1>0, <2>1, <2>2, <2>3 DEF ParsedOnce
  <2>5. ParsedOnce'
    BY <1>0, <2>1, <2>4 DEF ParsedOnce
  <2>6. HistoryInv'
    BY <1>0, <2>1, <2>2, <2>3 DEF HistoryInv
  <2>7. ReportInv'
    BY <1>0, <2>1 DEF ReportInv
  <2> QED
    BY <2>5, <2>6, <2>7
<1>4. CASE EmitDiagnostics
  <2> DEFINE d == [path |-> arg, kind |-> "parse"]
  <2>1. /\ UNCHANGED <<results, parsed, arg>> /\ inProgress' = inProgress \cup {arg}
        /\ phase = "parsed" /\ phase' = "walk" /\ arg \notin results \cup inProgress
        /\ d \in [path : Path, kind : {"lex", "parse"}] /\ d.path = arg
    BY <1>0, <1>4 DEF EmitDiagnostics, ShapeInv
  <2>2. /\ \A i \in DOMAIN parsed : parsed[i] \in results \cup inProgress \cup {arg}
        /\ \A i \in DOMAIN printed : printed[i].path \in results \cup inProgress
    BY <1>0, <2>1 DEF HistoryInv
  <2>3. printed' = IF disk[arg].parseErrors THEN Append(printed, d) ELSE printed
    BY <1>4, EmitPrints
  <2> HIDE DEF d
  <2>4. /\ DOMAIN printed = 1..Len(printed) /\ Len(printed) \in Nat
        /\ \A i \in 1..Len(printed) : i \in DOMAIN printed' /\ printed'[i] = printed[i]
    BY <1>0, <2>1, <2>3
  <2>5. \/ printed' = printed /\ ~disk[arg].parseErrors
        \/ /\ DOMAIN printed' = 1..(Len(printed) + 1)
           /\ printed'[Len(printed) + 1] = d
    BY <1>0, <2>1, <2>3
  <2>6. \A i, j \in DOMAIN printed' : printed'[i] = printed'[j] => i = j
    <3>1. CASE printed' = printed
      BY <1>0, <3>1 DEF ParsedOnce
    <3>2. CASE DOMAIN printed' = 1..(Len(printed) + 1) /\ printed'[Len(printed) + 1] = d
      <4>1. \A i \in 1..Len(printed) : printed'[i] # d
        BY <2>1, <2>2, <2>4
      <4>2. \A i \in DOMAIN printed' : i \in 1..Len(printed) \/ i = Len(printed) + 1
        BY <2>4, <3>2
      <4> QED
        BY <1>0, <2>4, <3>2, <4>1, <4>2 DEF ParsedOnce
    <3> QED
      BY <2>5, <3>1, <3>2
  <2>7. ParsedOnce'
    BY <1>0, <2>1, <2>6 DEF ParsedOnce
  <2>8. \A i \in DOMAIN printed' : printed'[i].path \in results \cup inProgress'
    BY <2>1, <2>2, <2>4, <2>5
  <2>9. HistoryInv'
    BY <2>1, <2>2, <2>8 DEF HistoryInv
  <2>10. ASSUME NEW p \in results \cup inProgress, disk[p].parseErrors
         PROVE  \E i \in DOMAIN printed' : printed'[i] = [path |-> p, kind |-> "parse"]
    BY <1>0, <2>4, <2>10 DEF ReportInv
  <2>11. ASSUME disk[arg].parseErrors
         PROVE  \E i \in DOMAIN printed' : printed'[i] = d
    BY <2>4, <2>5, <2>11
  <2>12. ReportInv'
    BY <1>0, <2>1, <2>10, <2>11 DEF ReportInv, d
  <2> QED
    BY <2>7, <2>9, <2>12
<1>5. CASE ModuleNotFound \/ FinishFile \/ Unwind
  <2>1. UNCHANGED <<parsed, printed>>
    BY <1>5 DEF ModuleNotFound, FinishFile, Unwind
  <2>2. results' \cup inProgress' \subseteq results \cup inProgress
    BY <1>5, FinishedFile DEF ModuleNotFound, FinishFile, Unwind, Cleanup
  <2>3. ParsedOnce'
    BY <1>0, <2>1 DEF ParsedOnce
  <2>4. ReportInv'
    BY <1>0, <2>1, <2>2 DEF ReportInv
  <2>5. HistoryInv'
    <3>1. CASE FinishFile
      <4>1. results' \cup inProgress' = results \cup inProgress
        BY <3>1, FinishedFile DEF FinishFile, Cleanup
      <4> QED
        BY <1>0, <2>1, <3>1, <4>1 DEF FinishFile, Return, HistoryInv
    <3>2. CASE ModuleNotFound \/ Unwind
      <4>1. rc' # 0 /\ phase' = "return"
        BY <3>2 DEF ModuleNotFound, Unwind, Return
      <4> QED
        BY <4>1 DEF HistoryInv
    <3> QED
      BY <1>5, <3>1, <3>2
  <2> QED
    BY <2>3, <2>4, <2>5
<1> QED
  BY <1>1, <1>2, <1>3, <1>4, <1>5 DEF Next, Step

\* Stuttering.
LEMMA Stutter == Inv /\ UNCHANGED vars => Inv'
BY DEF vars, Inv, TypeOK, InProgressIsStack, ShapeInv, ChainInv, WalkInv,
       ResultsAreFinished, PackInv, ParsedOnce, HistoryInv, ReportInv, PointsTo,
       Entering

-----------------------------------------------------------------------------
(* The theorems.                                                           *)

\* Inv is inductive.
LEMMA InvStep == Inv /\ [Next]_vars => Inv'
<1> SUFFICES ASSUME Inv, [Next]_vars PROVE Inv'
  OBVIOUS
<1>1. CASE Next
  <2>1. TypeOK'
    BY <1>1, TypeStep DEF Inv
  <2> QED
    BY <1>1, <2>1, StackStep, ShapeStep, ChainStep, WalkStep, FinishedStep,
       PackStep, HistoryStep DEF Inv
<1>2. CASE UNCHANGED vars
  BY <1>2, Stutter
<1> QED
  BY <1>1, <1>2

\* The bookkeeping of Driver::parseFile is right at every point of the recursion,
\* on every disk.
THEOREM Invariance == Spec => []Inv
BY InitInv, InvStep, PTL DEF Spec

\* InProgress is exactly the set of files on the call stack, each once.
THEOREM CycleDetectionState == Spec => []InProgressIsStack
<1>1. Inv => InProgressIsStack
  BY DEF Inv
<1> QED
  BY <1>1, Invariance, PTL

\* Session.Results only ever holds finished files.
THEOREM PostOrder == Spec => []ResultsAreFinished
<1>1. Inv => ResultsAreFinished
  BY DEF Inv
<1> QED
  BY <1>1, Invariance, PTL

\* No file is parsed, or reported on, twice in one pack.
THEOREM ParseOnce == Spec => []ParsedOnce
<1>1. Inv => ParsedOnce
  BY DEF Inv
<1> QED
  BY <1>1, Invariance, PTL

\* The parser errors of every file in Results have been printed.
THEOREM Reported == Spec => []ParseErrorsReported
<1>1. Inv => ParseErrorsReported
  BY DEF Inv, ReportInv, ParseErrorsReported
<1> QED
  BY <1>1, Invariance, PTL

\* When compilePack answers 0, Results is the pack and the pack has no defect.
LEMMA InvSuccess == Inv => SuccessIsComplete
<1> SUFFICES ASSUME Inv, Done(0)
             PROVE  results = Reach(disk, root) /\ WellFormed(disk, root)
  BY DEF SuccessIsComplete
<1>1. /\ TypeOK /\ ShapeInv /\ WalkInv /\ ResultsAreFinished /\ PackInv
      /\ phase = "done" /\ rc = 0 /\ stack = <<>>
  BY DEF Inv, Done, ShapeInv
<1>2. root \in results /\ results \in SUBSET Path
  BY <1>1 DEF WalkInv, TypeOK
<1>3. ClosedSet(disk, results)
  BY <1>1 DEF ClosedSet, ResultsAreFinished
<1>4. results = Reach(disk, root)
  BY <1>1, <1>2, <1>3, ReachLeast DEF PackInv
<1>5. WellFormed(disk, root)
  BY <1>1, <1>4 DEF WellFormed, ResultsAreFinished, PackInv
<1> QED
  BY <1>4, <1>5

\* compilePack answers 0 only for a pack without defect, with exactly the files
\* that it reaches by declarations at the top level of files.
THEOREM Success == Spec => []SuccessIsComplete
BY Invariance, InvSuccess, PTL

LEMMA InvFailure == Inv => FailureHasCause
BY DEF Inv, PackInv, FailureHasCause, Done

\* compilePack answers non-zero only for a pack with a defect.
THEOREM Failure == Spec => []FailureHasCause
BY Invariance, InvFailure, PTL

-----------------------------------------------------------------------------
(* The driver implements PackBuild.                                        *)

\* The file graph of the abstract build is that of the driver.
LEMMA SameGraph ==
    /\ \A d, p : Abstract!Children(d, p) = Children(d, p)
    /\ \A d, p : Abstract!Loadable(d, p) = Loadable(d, p)
    /\ \A d, r : Abstract!Reach(d, r) = Reach(d, r)
    /\ \A d, r : Abstract!WellFormed(d, r) = WellFormed(d, r)
<1>1. \A d, p : Abstract!Children(d, p) = Children(d, p)
  BY DEF Abstract!Children, Abstract!ChildAt, Abstract!Locate, Abstract!FileMods,
         Children, ChildAt, Locate, FileMods
<1>2. \A d, p : Abstract!Loadable(d, p) = Loadable(d, p)
  BY <1>1 DEF Abstract!Loadable, Loadable
<1>3. \A d, S : Abstract!ClosedSet(d, S) = ClosedSet(d, S)
  BY <1>1 DEF Abstract!ClosedSet, ClosedSet
<1>4. \A d, r : Abstract!Reach(d, r) = Reach(d, r)
  BY <1>3 DEF Abstract!Reach, Reach
<1>5. \A d, S : Abstract!WellFounded(d, S) = WellFounded(d, S)
  BY <1>1 DEF Abstract!WellFounded, WellFounded
<1>6. \A d, r : Abstract!WellFormed(d, r) = WellFormed(d, r)
  BY <1>2, <1>4, <1>5 DEF Abstract!WellFormed, WellFormed
<1> QED
  BY <1>1, <1>2, <1>4, <1>6

\* The outcome the abstract build sees.
Outcome ==
    CASE phase = "idle" -> "idle"
      [] phase = "done" /\ rc = 0 -> "ok"
      [] phase = "done" /\ rc # 0 -> "error"
      [] OTHER -> "building"

\* Every step of the driver is a step of the abstract build or changes nothing
\* it can see: parsing, walking and unwinding are invisible, storing a result
\* is Load, the last return is Succeed or Fail.
LEMMA RefinementStep ==
    ASSUME Inv, Next
    PROVE  \/ \E r \in Path : Abstract!Start(r)
           \/ \E p \in Path : Abstract!Load(p)
           \/ Abstract!Succeed
           \/ Abstract!Fail
           \/ UNCHANGED <<disk, root, results, Outcome>>
<1>0. disk' = disk /\ rc \in {0, 1}
  BY DEF Inv, Next, Step, CompilePack, AlreadyParsed, CircularDependency,
         CannotOpen, LexFile, ParseBuffer, EmitDiagnostics, SkipDecl, Descend,
         ModuleNotFound, FinishFile, NextChild, Unwind, PackReturns, TypeOK
<1>1. ASSUME NEW r \in Path, CompilePack(r)
      PROVE  Abstract!Start(r)
  BY <1>0, <1>1 DEF CompilePack, Abstract!Start
<1>2. CASE AlreadyParsed \/ CircularDependency \/ CannotOpen \/ LexFile
           \/ ParseBuffer \/ EmitDiagnostics \/ SkipDecl \/ Descend
           \/ ModuleNotFound \/ NextChild \/ Unwind
  <2>1. UNCHANGED <<disk, root, results>>
    BY <1>2
       DEF AlreadyParsed, CircularDependency, CannotOpen, LexFile, ParseBuffer,
           EmitDiagnostics, SkipDecl, Descend, ModuleNotFound, NextChild, Unwind
  <2>2. phase \notin {"idle", "done"} /\ phase' \notin {"idle", "done"}
    BY <1>2
       DEF AlreadyParsed, CircularDependency, CannotOpen, LexFile, ParseBuffer,
           EmitDiagnostics, SkipDecl, Descend, ModuleNotFound, NextChild, Unwind,
           Return, AtItem
  <2> QED
    BY <2>1, <2>2 DEF Outcome
<1>3. CASE FinishFile
  <2>1. /\ Top.path \in inProgress \ results /\ Loadable(disk, Top.path)
        /\ Children(disk, Top.path) \subseteq results /\ Top.path \in Path
        /\ Top.path \in Reach(disk, root)
    BY <1>3, FinishedFile DEF Inv, PackInv
  <2>2. /\ phase = "walk" /\ phase' = "return" /\ results' = results \cup {Top.path}
        /\ UNCHANGED <<disk, root>>
    BY <1>3 DEF FinishFile, Return
  <2>3. Abstract!Load(Top.path)
    BY <2>1, <2>2, SameGraph DEF Abstract!Load
  <2> QED
    BY <2>1, <2>3
<1>4. CASE PackReturns
  <2>1. /\ phase = "return" /\ phase' = "done" /\ stack = <<>>
        /\ UNCHANGED <<disk, root, results, rc>>
    BY <1>4 DEF PackReturns
  <2>2. CASE rc = 0
    <3>1. root \in results /\ results \subseteq Reach(disk, root)
          /\ results \in SUBSET Path /\ ClosedSet(disk, results)
      BY <2>1, <2>2
         DEF Inv, WalkInv, PackInv, ResultsAreFinished, TypeOK, ClosedSet
    <3>2. results = Reach(disk, root)
      BY <3>1, ReachLeast
    <3>3. Abstract!Succeed
      BY <2>1, <2>2, <3>2, SameGraph DEF Abstract!Succeed
    <3> QED
      BY <3>3
  <2>3. CASE rc = 1
    <3>1. ~WellFormed(disk, root)
      BY <2>1, <2>3 DEF Inv, PackInv
    <3>2. Abstract!Fail
      BY <2>1, <2>3, <3>1, SameGraph DEF Abstract!Fail
    <3> QED
      BY <3>2
  <2> QED
    BY <1>0, <2>2, <2>3
<1> QED
  BY <1>1, <1>2, <1>3, <1>4 DEF Next, Step

\* Driver::compilePack implements the abstract build of a pack.
THEOREM Refinement == Spec => BuildsPack
<1>1. Init => Abstract!Init
  BY DEF Init, Abstract!Init
<1>2. Inv /\ [Next]_vars => [Abstract!Next]_Abstract!vars
  <2> SUFFICES ASSUME Inv, [Next]_vars
               PROVE  Abstract!Next \/ UNCHANGED Abstract!vars
    OBVIOUS
  <2>1. CASE Next
    BY <2>1, RefinementStep DEF Abstract!Next, Abstract!vars, Outcome
  <2>2. CASE UNCHANGED vars
    BY <2>2 DEF vars, Abstract!vars
  <2> QED
    BY <2>1, <2>2
<1> QED
  BY <1>1, <1>2, Invariance, PTL DEF Spec, BuildsPack, Abstract!Spec
=============================================================================
