---------------------------- MODULE Parser_proofs ----------------------------
(***************************************************************************)
(* For every sequence of tokens, however malformed, the parser ends, with   *)
(* the cursor inside the file and a pool of nodes whose children are nodes  *)
(* made before them, and what it has reported fills in its messages.       *)
(***************************************************************************)
EXTENDS Parser, WellFoundedInduction, TLAPS

-----------------------------------------------------------------------------
(* Recursion: the definitions of Loop and of parse say what they mean to.  *)

LEMMA LeastNumber ==
    ASSUME NEW S \in SUBSET Nat, S # {}
    PROVE  \E x \in S : \A y \in S : x <= y
<1> DEFINE R == OpToRel(<, Nat)
<1>1. IsWellFoundedOn(R, Nat)
  BY NatLessThanWellFounded
<1>2. \E x \in S : \A y \in S : ~ (<<y, x>> \in R)
  <2> HIDE DEF R
  <2> QED
    BY <1>1, WFMin
<1>3. \A x, y \in S : <<y, x>> \notin R => ~(y < x)
  BY DEF OpToRel
<1>4. \A x, y \in S : x \in Nat /\ y \in Nat /\ (~(y < x) => x <= y)
  OBVIOUS
<1> HIDE DEF R
<1> QED
  BY <1>2, <1>3, <1>4

\* The parsers that may nest calls n deep, in terms of those one call less deep.
Level(f, n) ==
    [c \in Calls |->
        IF n = 0 THEN [c[3] EXCEPT !.stuck = TRUE]
        ELSE Rule(f[n - 1], c[1], c[2], c[3])]
Levels(f, m) == \A n \in 0..m : f[n] = Level(f, n)

LEMMA LevelsUnique ==
    ASSUME NEW f, NEW g, NEW m \in Nat, Levels(f, m), Levels(g, m)
    PROVE  \A n \in 0..m : f[n] = g[n]
<1> DEFINE S == {n \in 0..m : f[n] # g[n]}
<1>1. SUFFICES ASSUME S # {} PROVE FALSE
  OBVIOUS
<1>2. PICK n \in S : \A k \in S : n <= k
  <2>1. S \in SUBSET Nat
    OBVIOUS
  <2> HIDE DEF S
  <2> QED
    BY <1>1, <2>1, LeastNumber
<1>3. n \in 0..m /\ n \in Nat /\ f[n] # g[n]
  OBVIOUS
<1>4. CASE n = 0
  BY <1>3, <1>4 DEF Levels, Level
<1>5. CASE n # 0
  <2>1. n - 1 \in 0..m /\ ~(n <= n - 1)
    BY <1>3, <1>5
  <2>2. f[n - 1] = g[n - 1]
    BY <1>2, <2>1
  <2> QED
    BY <1>3, <1>5, <2>2 DEF Levels, Level
<1> QED
  BY <1>4, <1>5

LEMMA LevelsExist ==
    ASSUME NEW m \in Nat
    PROVE  \E f : Levels(f, m)
<1> DEFINE S == {k \in Nat : ~\E f : Levels(f, k)}
<1>1. SUFFICES ASSUME S # {} PROVE FALSE
  OBVIOUS
<1>2. PICK k \in S : \A j \in S : k <= j
  <2>1. S \in SUBSET Nat
    OBVIOUS
  <2> HIDE DEF S
  <2> QED
    BY <1>1, <2>1, LeastNumber
<1>3. PICK f : \A n \in 0..(k - 1) : f[n] = Level(f, n)
  <2>1. CASE k = 0
    BY <2>1
  <2>2. CASE k # 0
    <3>1. k - 1 \in Nat /\ k - 1 \notin S
      BY <1>2, <2>2
    <3> QED
      BY <3>1 DEF Levels
  <2> QED
    BY <2>1, <2>2
<1> DEFINE g == [n \in 0..k |-> IF n < k THEN f[n] ELSE Level(f, n)]
<1>4. ASSUME NEW n \in 0..k
      PROVE  g[n] = Level(g, n)
  <2>1. k \in Nat /\ n \in Nat
    OBVIOUS
  <2>2. g[n] = Level(f, n)
    BY <1>3, <2>1
  <2>3. CASE n = 0
    BY <2>2, <2>3 DEF Level
  <2>4. CASE n # 0
    <3>1. n - 1 \in 0..k /\ n - 1 < k
      BY <2>1, <2>4
    <3>2. g[n - 1] = f[n - 1]
      BY <3>1
    <3> HIDE DEF g
    <3> QED
      BY <2>2, <2>4, <3>2 DEF Level
  <2> QED
    BY <2>3, <2>4
<1>5. Levels(g, k)
  BY <1>4 DEF Levels
<1> QED
  BY <1>2, <1>5

\* The recursion of the productions, as it is written in ParserGrammar.
LEMMA ParseLevels ==
    ASSUME NEW n \in Nat
    PROVE  parse[n] = Level(parse, n)
<1> DEFINE G(m) == CHOOSE f : Levels(f, m)
           h == [m \in Nat |-> G(m)[m]]
           Eq(f) == f = [m \in Nat |-> Level(f, m)]
<1>1. \A m \in Nat : Levels(G(m), m)
  BY LevelsExist
<1>2. ASSUME NEW m \in Nat
      PROVE  h[m] = Level(h, m)
  <2>1. G(m)[m] = Level(G(m), m)
    BY <1>1 DEF Levels
  <2>2. CASE m = 0
    BY <2>1, <2>2 DEF Level
  <2>3. CASE m # 0
    <3> HIDE DEF G
    <3>1. m - 1 \in Nat /\ m - 1 \in 0..(m - 1) /\ \A j \in 0..(m - 1) : j \in 0..m
      BY <2>3
    <3>2. Levels(G(m), m - 1)
      BY <1>1, <3>1 DEF Levels
    <3>3. G(m)[m - 1] = G(m - 1)[m - 1]
      BY <1>1, <3>1, <3>2, LevelsUnique
    <3>4. h[m - 1] = G(m)[m - 1] /\ h[m] = G(m)[m]
      BY <3>1, <3>3
    <3> HIDE DEF h
    <3> QED
      BY <2>1, <2>3, <3>4 DEF Level
  <2> QED
    BY <2>2, <2>3
<1> HIDE DEF G
<1>3. Eq(h)
  BY <1>2
<1>4. parse = CHOOSE f : Eq(f)
  BY DEF parse, Level
<1>5. Eq(parse)
  <2> HIDE DEF Eq
  <2> QED
    BY <1>3, <1>4
<1>6. PICK f : f = parse
  OBVIOUS
<1>7. f = [m \in Nat |-> Level(f, m)]
  BY <1>5, <1>6
<1> QED
  BY <1>6, <1>7
\* Loop with the time for n more rounds, in terms of one round less.
Again(goesOn, round, f, n) ==
    [t \in State |->
        LET u == round[t]
        IN  IF ~goesOn[t] \/ t.stuck THEN t
            ELSE IF n = 0 \/ u.pos = t.pos THEN [u EXCEPT !.stuck = TRUE]
            ELSE f[n - 1][u]]
Runs(goesOn, round, f, m) == \A n \in 0..m : f[n] = Again(goesOn, round, f, n)

LEMMA RunsUnique ==
    ASSUME NEW goesOn, NEW round, NEW f, NEW g, NEW m \in Nat,
           Runs(goesOn, round, f, m), Runs(goesOn, round, g, m)
    PROVE  \A n \in 0..m : f[n] = g[n]
<1> DEFINE S == {n \in 0..m : f[n] # g[n]}
<1>1. SUFFICES ASSUME S # {} PROVE FALSE
  OBVIOUS
<1>2. PICK n \in S : \A k \in S : n <= k
  <2>1. S \in SUBSET Nat
    OBVIOUS
  <2> HIDE DEF S
  <2> QED
    BY <1>1, <2>1, LeastNumber
<1>3. n \in 0..m /\ n \in Nat /\ f[n] # g[n]
  OBVIOUS
<1>4. CASE n = 0
  <2>1. Again(goesOn, round, f, n) = Again(goesOn, round, g, n)
    BY <1>4 DEF Again
  <2> QED
    BY <1>3, <2>1 DEF Runs
<1>5. CASE n # 0
  <2>1. n - 1 \in 0..m /\ ~(n <= n - 1)
    BY <1>3, <1>5
  <2>2. f[n - 1] = g[n - 1]
    BY <1>2, <2>1
  <2>3. Again(goesOn, round, f, n) = Again(goesOn, round, g, n)
    BY <2>2 DEF Again
  <2> QED
    BY <1>3, <2>3 DEF Runs
<1> QED
  BY <1>4, <1>5

LEMMA RunsExist ==
    ASSUME NEW goesOn, NEW round, NEW m \in Nat
    PROVE  \E f : Runs(goesOn, round, f, m)
<1> DEFINE S == {k \in Nat : ~\E f : Runs(goesOn, round, f, k)}
<1>1. SUFFICES ASSUME S # {} PROVE FALSE
  OBVIOUS
<1>2. PICK k \in S : \A j \in S : k <= j
  <2>1. S \in SUBSET Nat
    OBVIOUS
  <2> HIDE DEF S
  <2> QED
    BY <1>1, <2>1, LeastNumber
<1>3. PICK f : \A n \in 0..(k - 1) : f[n] = Again(goesOn, round, f, n)
  <2>1. CASE k = 0
    BY <2>1
  <2>2. CASE k # 0
    <3>1. k - 1 \in Nat /\ k - 1 \notin S
      BY <1>2, <2>2
    <3> QED
      BY <3>1 DEF Runs
  <2> QED
    BY <2>1, <2>2
<1> DEFINE g == [n \in 0..k |-> IF n < k THEN f[n] ELSE Again(goesOn, round, f, n)]
<1>4. ASSUME NEW n \in 0..k
      PROVE  g[n] = Again(goesOn, round, g, n)
  <2>1. k \in Nat /\ n \in Nat
    OBVIOUS
  <2>2. g[n] = Again(goesOn, round, f, n)
    BY <1>3, <2>1
  <2>3. CASE n = 0
    BY <2>2, <2>3 DEF Again
  <2>4. CASE n # 0
    <3>1. n - 1 \in 0..k /\ n - 1 < k
      BY <2>1, <2>4
    <3>2. g[n - 1] = f[n - 1]
      BY <3>1
    <3> HIDE DEF g
    <3> QED
      BY <2>2, <2>4, <3>2 DEF Again
  <2> QED
    BY <2>3, <2>4
<1>5. Runs(goesOn, round, g, k)
  BY <1>4 DEF Runs
<1> QED
  BY <1>2, <1>5

\* The recursion of Loop, as it is written in ParserBase.
LEMMA LoopRuns ==
    ASSUME NEW goesOn, NEW round, NEW n \in Nat
    PROVE  Loop(goesOn, round)[n] = Again(goesOn, round, Loop(goesOn, round), n)
<1> DEFINE G(m) == CHOOSE f : Runs(goesOn, round, f, m)
           h == [m \in Nat |-> G(m)[m]]
           Eq(f) == f = [m \in Nat |-> Again(goesOn, round, f, m)]
<1>1. \A m \in Nat : Runs(goesOn, round, G(m), m)
  BY RunsExist
<1>2. ASSUME NEW m \in Nat
      PROVE  h[m] = Again(goesOn, round, h, m)
  <2>1. G(m)[m] = Again(goesOn, round, G(m), m)
    BY <1>1 DEF Runs
  <2>2. CASE m = 0
    BY <2>1, <2>2 DEF Again
  <2>3. CASE m # 0
    <3> HIDE DEF G
    <3>1. m - 1 \in Nat /\ m - 1 \in 0..(m - 1) /\ \A j \in 0..(m - 1) : j \in 0..m
      BY <2>3
    <3>2. Runs(goesOn, round, G(m), m - 1)
      BY <1>1, <3>1 DEF Runs
    <3>3. G(m)[m - 1] = G(m - 1)[m - 1]
      BY <1>1, <3>1, <3>2, RunsUnique
    <3>4. h[m - 1] = G(m)[m - 1] /\ h[m] = G(m)[m]
      BY <3>1, <3>3
    <3> HIDE DEF h
    <3> QED
      BY <2>1, <2>3, <3>4 DEF Again
  <2> QED
    BY <2>2, <2>3
<1> HIDE DEF G
<1>3. Eq(h)
  BY <1>2
<1>4. Loop(goesOn, round) = CHOOSE f : Eq(f)
  BY DEF Loop, Again
<1>5. Eq(Loop(goesOn, round))
  <2> HIDE DEF Eq
  <2> QED
    BY <1>3, <1>4
<1>6. PICK f : f = Loop(goesOn, round)
  OBVIOUS
<1>7. f = [m \in Nat |-> Again(goesOn, round, f, m)]
  BY <1>5, <1>6
<1> QED
  BY <1>6, <1>7

\* A loop whose every round keeps to the states of I and consumes a token ends in a
\* state of I in which it does not go on.
LEMMA WhileRule ==
    ASSUME NEW I \in SUBSET State, NEW s \in I, NEW goesOn, NEW round,
           \A t \in I : t.toks = s.toks /\ t.pos \in 0..Len(s.toks) /\ ~t.stuck,
           \A t \in I : goesOn[t] => round[t] \in I /\ round[t].pos > t.pos
    PROVE  /\ While(s, goesOn, round) \in I
           /\ ~goesOn[While(s, goesOn, round)]
<1> DEFINE run == Loop(goesOn, round)
           Ends(n, t) == run[n][t] \in I /\ ~goesOn[run[n][t]]
           S == {n \in Nat : \E t \in I : n >= Len(s.toks) - t.pos /\ ~Ends(n, t)}
<1>0. PICK len : len = Len(s.toks)
  OBVIOUS
<1>1. len \in Nat
  <2>1. s.toks \in Seq(Token)
    BY DEF State
  <2> QED
    BY <1>0, <2>1
<1>2. S = {}
  <2>1. SUFFICES ASSUME S # {} PROVE FALSE
    OBVIOUS
  <2>2. PICK n \in S : \A k \in S : n <= k
    <3>1. S \in SUBSET Nat
      OBVIOUS
    <3> HIDE DEF S
    <3> QED
      BY <2>1, <3>1, LeastNumber
  <2>3. PICK t \in I : n >= len - t.pos /\ ~Ends(n, t)
    BY <1>0
  <2>4. n \in Nat /\ t \in State /\ t.pos \in 0..len /\ ~t.stuck
    BY <1>0
  <2>5. run[n] = Again(goesOn, round, run, n)
    BY <2>4, LoopRuns
  <2> HIDE DEF run
  <2>6. CASE ~goesOn[t]
    <3>1. run[n][t] = t
      BY <2>4, <2>5, <2>6 DEF Again
    <3> QED
      BY <2>3, <2>6, <3>1
  <2>7. CASE goesOn[t]
    <3>1. round[t] \in I /\ round[t].pos > t.pos /\ round[t].pos \in 0..len
      BY <1>0, <2>7
    <3> PICK u : u = round[t]
      OBVIOUS
    <3>2. n # 0 /\ n - 1 \in Nat /\ n - 1 >= len - u.pos /\ ~(n <= n - 1) /\ u.pos # t.pos
      BY <1>1, <2>3, <2>4, <3>1
    <3>3. run[n][t] = run[n - 1][u]
      BY <2>4, <2>5, <2>7, <3>2 DEF Again
    <3>4. n - 1 \notin S
      BY <2>2, <3>2
    <3>5. Ends(n - 1, u)
      BY <1>0, <3>1, <3>2, <3>4
    <3> QED
      BY <2>3, <3>3, <3>5
  <2> QED
    BY <2>6, <2>7
<1>3. len >= len - s.pos
  <2>1. s.pos \in 0..len
    BY <1>0
  <2> QED
    BY <1>1, <2>1
<1>4. Ends(len, s)
  <2> HIDE DEF Ends
  <2> QED
    BY <1>0, <1>1, <1>2, <1>3
<1> QED
  BY <1>0, <1>4 DEF While

LEMMA SubSeqType ==
    ASSUME NEW S, NEW q \in Seq(S), NEW m \in Nat \ {0}, NEW n \in Int, n <= Len(q)
    PROVE  /\ SubSeq(q, m, n) \in Seq(S)
           /\ Len(SubSeq(q, m, n)) = IF n < m THEN 0 ELSE n - m + 1
           /\ \A k \in 1..Len(SubSeq(q, m, n)) :
                  SubSeq(q, m, n)[k] = q[m + k - 1] /\ m + k - 1 \in 1..Len(q)
<1>1. Len(q) \in Nat
  OBVIOUS
<1>2. CASE n < m
  <2>1. SubSeq(q, m, n) = <<>>
    BY <1>1, <1>2
  <2> QED
    BY <1>2, <2>1
<1>3. CASE m <= n
  BY <1>1, <1>3
<1> QED
  BY <1>1, <1>2, <1>3

-----------------------------------------------------------------------------
(* Messages: what renderMessage makes of a template.                       *)

\* The text from place i on, in terms of the texts f from the places behind it.
EndOfName(template, i) ==
    CHOOSE c \in (i + 1)..Len(template) :
        /\ template[c] = "}"
        /\ \A d \in (i + 1)..(c - 1) : template[d] # "}"
IsClosed(template, i) == \E c \in (i + 1)..Len(template) : template[c] = "}"
NameIn(template, i) == SubSeq(template, i + 1, EndOfName(template, i) - 1)
HasValue(template, args, i) ==
    Len(NameIn(template, i)) = 1 /\ NameIn(template, i)[1] \in DOMAIN args

TextFrom(template, args, f, i) ==
    CASE i > Len(template) -> <<>>
      [] i <= Len(template) /\ template[i] # "{" -> <<template[i]>> \o f[i + 1]
      [] i <= Len(template) /\ template[i] = "{" /\ ~IsClosed(template, i) ->
             SubSeq(template, i, Len(template))
      [] OTHER ->
             (IF HasValue(template, args, i) THEN <<args[NameIn(template, i)[1]]>>
              ELSE SubSeq(template, i, EndOfName(template, i)))
                 \o f[EndOfName(template, i) + 1]

RenderedBy(template, args, f, from) ==
    \A i \in from..(Len(template) + 1) : f[i] = TextFrom(template, args, f, i)

\* A name ends at the first brace behind it.
LEMMA NameEnds ==
    ASSUME NEW template, Len(template) \in Nat, NEW i \in Nat, IsClosed(template, i)
    PROVE  /\ EndOfName(template, i) \in (i + 1)..Len(template)
           /\ template[EndOfName(template, i)] = "}"
           /\ \A d \in (i + 1)..(EndOfName(template, i) - 1) : template[d] # "}"
<1> DEFINE S == {c \in (i + 1)..Len(template) : template[c] = "}"}
<1>0. \A c \in (i + 1)..Len(template) : c \in Nat
  OBVIOUS
<1>1. S \in SUBSET Nat /\ S # {}
  BY <1>0 DEF IsClosed
<1>2. PICK c \in S : \A d \in S : c <= d
  <2> HIDE DEF S
  <2> QED
    BY <1>1, LeastNumber
<1>3. \A d \in (i + 1)..(c - 1) : d \in (i + 1)..Len(template) /\ ~(c <= d)
  <2>1. c \in (i + 1)..Len(template)
    OBVIOUS
  <2> HIDE DEF S
  <2> QED
    BY <2>1
<1>4. /\ c \in (i + 1)..Len(template) /\ template[c] = "}"
      /\ \A d \in (i + 1)..(c - 1) : template[d] # "}"
  BY <1>2, <1>3
<1> QED
  BY <1>4 DEF EndOfName

\* The four ways to go on from a place.
LEMMA TextArms ==
    ASSUME NEW template, Len(template) \in Nat, NEW args, NEW f,
           NEW i \in 1..(Len(template) + 1)
    PROVE  LET text == TextFrom(template, args, f, i)
           IN  \/ i = Len(template) + 1 /\ text = <<>>
               \/ /\ i \in 1..Len(template) /\ template[i] # "{"
                  /\ text = <<template[i]>> \o f[i + 1]
               \/ /\ i \in 1..Len(template) /\ template[i] = "{"
                  /\ ~IsClosed(template, i)
                  /\ text = SubSeq(template, i, Len(template))
               \/ /\ i \in 1..Len(template) /\ template[i] = "{"
                  /\ IsClosed(template, i)
                  /\ text = (IF HasValue(template, args, i)
                             THEN <<args[NameIn(template, i)[1]]>>
                             ELSE SubSeq(template, i, EndOfName(template, i)))
                                \o f[EndOfName(template, i) + 1]
<1>1. \/ i > Len(template) /\ ~(i <= Len(template)) /\ i = Len(template) + 1
      \/ ~(i > Len(template)) /\ i <= Len(template) /\ i \in 1..Len(template)
  OBVIOUS
<1>2. CASE i > Len(template) /\ ~(i <= Len(template)) /\ i = Len(template) + 1
  BY ONLY <1>2, Zenon DEF TextFrom
<1>3. CASE ~(i > Len(template)) /\ i <= Len(template) /\ i \in 1..Len(template)
  BY ONLY <1>3, Zenon DEF TextFrom
<1> QED
  BY <1>1, <1>2, <1>3

\* The text from a place on depends on what is behind it.
LEMMA TextDepends ==
    ASSUME NEW template, Len(template) \in Nat, NEW args, NEW f, NEW g,
           NEW i \in 1..(Len(template) + 1),
           \A j \in (i + 1)..(Len(template) + 1) : f[j] = g[j]
    PROVE  TextFrom(template, args, f, i) = TextFrom(template, args, g, i)
<1>1. i \in 1..Len(template) => i + 1 \in (i + 1)..(Len(template) + 1)
  OBVIOUS
<1>2. ASSUME IsClosed(template, i)
      PROVE  EndOfName(template, i) + 1 \in (i + 1)..(Len(template) + 1)
  <2>1. i \in Nat
    OBVIOUS
  <2>2. EndOfName(template, i) \in (i + 1)..Len(template)
    BY <1>2, <2>1, NameEnds
  <2> QED
    BY <2>2
<1>3. i \in 1..Len(template) => f[i + 1] = g[i + 1]
  BY <1>1
<1>4. IsClosed(template, i) =>
          f[EndOfName(template, i) + 1] = g[EndOfName(template, i) + 1]
  BY <1>2
<1>5. \/ i > Len(template) /\ ~(i <= Len(template))
      \/ ~(i > Len(template)) /\ i <= Len(template) /\ i \in 1..Len(template)
  OBVIOUS
<1>6. CASE i > Len(template) /\ ~(i <= Len(template))
  BY ONLY <1>6, Zenon DEF TextFrom
<1>7. CASE ~(i > Len(template)) /\ i <= Len(template) /\ i \in 1..Len(template)
  BY ONLY <1>3, <1>4, <1>7, Zenon DEF TextFrom
<1> QED
  BY <1>5, <1>6, <1>7

LEMMA TextsExist ==
    ASSUME NEW template, Len(template) \in Nat, NEW args
    PROVE  \E f : f = [i \in 1..(Len(template) + 1) |-> TextFrom(template, args, f, i)]
<1>l. PICK len : len = Len(template) + 1
  OBVIOUS
<1>0. len \in Nat
  BY <1>l
<1> DEFINE S == {k \in 0..(len - 1) : ~\E f : RenderedBy(template, args, f, len - k)}
<1>1. S = {}
  <2>1. SUFFICES ASSUME S # {} PROVE FALSE
    OBVIOUS
  <2>2. PICK k \in S : \A j \in S : k <= j
    <3>1. S \in SUBSET Nat
      OBVIOUS
    <3> HIDE DEF S
    <3> QED
      BY <2>1, <3>1, LeastNumber
  <2>3. PICK f : \A j \in (len - k + 1)..len : f[j] = TextFrom(template, args, f, j)
    <3>1. CASE k = 0
      BY <1>0, <3>1
    <3>2. CASE k # 0
      <4>1. k - 1 \in 0..(len - 1) /\ ~(k <= k - 1) /\ len - (k - 1) = len - k + 1
        BY <1>0, <3>2
      <4>2. k - 1 \notin S
        BY <2>2, <4>1
      <4>3. PICK f : RenderedBy(template, args, f, len - (k - 1))
        BY <4>1, <4>2
      <4> QED
        BY <1>l, <4>1, <4>3 DEF RenderedBy
    <3> QED
      BY <3>1, <3>2
  <2> DEFINE at == len - k
             g == [j \in at..len |->
                      IF j = at THEN TextFrom(template, args, f, at) ELSE f[j]]
  <2>4. at \in 1..len /\ at + 1 = len - k + 1
    BY <1>0
  <2>5. \A j \in (at + 1)..len : g[j] = f[j]
    BY <1>0, <2>4
  <2>6. g[at] = TextFrom(template, args, f, at)
    BY <1>0, <2>4
  <2> HIDE DEF g
  <2>7. ASSUME NEW j \in at..len
        PROVE  g[j] = TextFrom(template, args, g, j)
    <3>1. j \in 1..(Len(template) + 1)
      BY <1>0, <1>l, <2>4
    <3>2. \A i \in (j + 1)..len : i \in (at + 1)..len
      BY <1>0, <2>4
    <3>3. TextFrom(template, args, f, j) = TextFrom(template, args, g, j)
      <4>1. \A i \in (j + 1)..len : f[i] = g[i]
        BY <2>5, <3>2
      <4> HIDE DEF at
      <4> QED
        BY <1>l, <3>1, <4>1, TextDepends
    <3>4. CASE j = at
      BY <2>6, <3>3, <3>4
    <3>5. CASE j # at
      <4>1. j \in (at + 1)..len
        BY <1>0, <2>4, <3>5
      <4> QED
        BY <2>3, <2>4, <2>5, <3>3, <4>1
    <3> QED
      BY <3>4, <3>5
  <2>8. RenderedBy(template, args, g, at)
    BY <1>l, <2>7 DEF RenderedBy
  <2> QED
    BY <2>8
<1>2. PICK f : RenderedBy(template, args, f, 1)
  <2>1. len - 1 \in 0..(len - 1) /\ len - (len - 1) = 1
    BY <1>0, <1>l
  <2> QED
    BY <1>1, <2>1
<1> DEFINE g == [i \in 1..(Len(template) + 1) |-> f[i]]
<1>3. ASSUME NEW i \in 1..(Len(template) + 1)
      PROVE  f[i] = TextFrom(template, args, g, i)
  <2>1. \A j \in (i + 1)..(Len(template) + 1) : f[j] = g[j]
    OBVIOUS
  <2>2. f[i] = TextFrom(template, args, f, i)
    BY <1>2 DEF RenderedBy
  <2> HIDE DEF g
  <2> QED
    BY <2>1, <2>2, TextDepends
<1>4. g = [i \in 1..(Len(template) + 1) |-> TextFrom(template, args, g, i)]
  BY <1>3
<1> QED
  BY <1>4

\* The recursion of renderMessage, as it is written in Messages.
LEMMA RenderTexts ==
    ASSUME NEW template, Len(template) \in Nat, NEW args
    PROVE  \E f : /\ renderMessage(template, args) = f[1]
                  /\ RenderedBy(template, args, f, 1)
<1> DEFINE Eq(f) == f = [i \in 1..(Len(template) + 1) |-> TextFrom(template, args, f, i)]
<1>1. PICK g : g = CHOOSE f : Eq(f)
  OBVIOUS
<1>2. renderMessage(template, args) = g[1]
  BY <1>1 DEF renderMessage, TextFrom, HasValue, NameIn, EndOfName, IsClosed
<1>3. Eq(g)
  <2>1. \E f : Eq(f)
    BY TextsExist
  <2> HIDE DEF Eq
  <2> QED
    BY <1>1, <2>1
<1>4. g = [i \in 1..(Len(template) + 1) |-> TextFrom(template, args, g, i)]
  BY <1>3
<1>5. RenderedBy(template, args, g, 1)
  <2>1. ASSUME NEW i \in 1..(Len(template) + 1)
        PROVE  g[i] = TextFrom(template, args, g, i)
    BY <1>4
  <2> QED
    BY <2>1 DEF RenderedBy
<1> QED
  BY <1>2, <1>5

\* The braces, which the arithmetic of places need not look into.
Opens(symbol) == symbol = "{"
Closes(symbol) == symbol = "}"

LEMMA NameCloses ==
    ASSUME NEW template, Len(template) \in Nat, NEW i \in Nat, IsClosed(template, i)
    PROVE  /\ EndOfName(template, i) \in (i + 1)..Len(template)
           /\ Closes(template[EndOfName(template, i)])
           /\ \A d \in (i + 1)..(EndOfName(template, i) - 1) : ~Closes(template[d])
BY NameEnds DEF Closes

LEMMA ClosedBy ==
    ASSUME NEW template, NEW i, NEW c \in (i + 1)..Len(template), Closes(template[c])
    PROVE  IsClosed(template, i)
BY DEF Closes, IsClosed

LEMMA TextWays ==
    ASSUME NEW template, Len(template) \in Nat, NEW args, NEW f,
           NEW i \in 1..(Len(template) + 1)
    PROVE  LET text == TextFrom(template, args, f, i)
           IN  \/ i = Len(template) + 1 /\ text = <<>>
               \/ /\ i \in 1..Len(template) /\ ~Opens(template[i])
                  /\ text = <<template[i]>> \o f[i + 1]
               \/ /\ i \in 1..Len(template) /\ Opens(template[i])
                  /\ ~IsClosed(template, i)
                  /\ text = SubSeq(template, i, Len(template))
               \/ /\ i \in 1..Len(template) /\ Opens(template[i])
                  /\ IsClosed(template, i)
                  /\ text = (IF HasValue(template, args, i)
                             THEN <<args[NameIn(template, i)[1]]>>
                             ELSE SubSeq(template, i, EndOfName(template, i)))
                                \o f[EndOfName(template, i) + 1]
BY TextArms, Zenon DEF Opens

LEMMA OpensNotCloses ==
    ASSUME NEW x, Closes(x)
    PROVE  ~Opens(x)
BY DEF Opens, Closes

\* Of the symbols Bad, a message brings none where each stands as a name between
\* braces and has a value.
Filling(template, args, Bad) ==
    /\ \A i \in 1..Len(template) :
           template[i] \in Bad => i - 1 \in 1..Len(template) /\ Opens(template[i - 1])
    /\ \A i \in 1..Len(template) :
           Opens(template[i]) =>
               \/ \A k \in i..Len(template) : template[k] \notin Bad
               \/ /\ i + 2 \in 1..Len(template)
                  /\ ~Closes(template[i + 1]) /\ Closes(template[i + 2])
                  /\ template[i + 1] \in DOMAIN args
    /\ \A name \in DOMAIN args : args[name] \notin Bad

LEMMA OneName ==
    ASSUME NEW T, NEW template \in Seq(T), NEW args, NEW i \in 1..Len(template),
           i + 2 \in 1..Len(template), ~Closes(template[i + 1]), Closes(template[i + 2]),
           template[i + 1] \in DOMAIN args
    PROVE  /\ IsClosed(template, i) /\ EndOfName(template, i) = i + 2
           /\ HasValue(template, args, i)
           /\ NameIn(template, i)[1] = template[i + 1]
<1>1. i \in Nat /\ Len(template) \in Nat /\ i + 1 \in 1..Len(template)
      /\ i + 2 \in (i + 1)..Len(template)
  OBVIOUS
<1>2. IsClosed(template, i)
  BY <1>1, ClosedBy
<1>3. EndOfName(template, i) = i + 2
  <2>1. PICK c : c = EndOfName(template, i)
    OBVIOUS
  <2>2. /\ c \in (i + 1)..Len(template) /\ Closes(template[c])
        /\ \A d \in (i + 1)..(c - 1) : ~Closes(template[d])
    BY <1>1, <1>2, <2>1, NameCloses
  <2>3. c \in (i + 1)..Len(template) /\ c # i + 1 /\ i + 2 \notin (i + 1)..(c - 1)
    BY <2>2
  <2>4. \A a \in Nat, b \in Nat : \A d \in (a + 1)..b :
            d # a + 1 /\ a + 2 \notin (a + 1)..(d - 1) => d = a + 2
    OBVIOUS
  <2> QED
    BY <1>1, <2>1, <2>3, <2>4
<1>4. NameIn(template, i) = SubSeq(template, i + 1, i + 1)
  <2>1. i + 2 - 1 = i + 1
    BY <1>1
  <2> QED
    BY <1>3, <2>1 DEF NameIn
<1>5. /\ Len(SubSeq(template, i + 1, i + 1)) = 1
      /\ SubSeq(template, i + 1, i + 1)[1] = template[i + 1]
  <2>1. PICK j : j = i + 1
    OBVIOUS
  <2>2. j \in 1..Len(template)
    BY <1>1, <2>1
  <2>3. Len(SubSeq(template, j, j)) = 1 /\ SubSeq(template, j, j)[1] = template[j]
    BY <1>1, <2>2
  <2> QED
    BY <2>1, <2>3
<1> QED
  BY <1>2, <1>3, <1>4, <1>5 DEF HasValue

LEMMA FilledText ==
    ASSUME NEW T, NEW Bad, NEW template \in Seq(T), NEW args,
           \A name \in DOMAIN args : args[name] \in T,
           Filling(template, args, Bad),
           NEW f, RenderedBy(template, args, f, 1)
    PROVE  \A i \in 1..(Len(template) + 1) :
               (i \in 1..Len(template) => template[i] \notin Bad) => f[i] \in Seq(T \ Bad)
<1>l. PICK len : len = Len(template)
  OBVIOUS
<1>0. len \in Nat
  BY <1>l
<1> DEFINE Proper(i) == i \in 1..len => template[i] \notin Bad
           S == {k \in 0..len : Proper(len + 1 - k) /\ f[len + 1 - k] \notin Seq(T \ Bad)}
<1>1. S = {}
  <2>1. SUFFICES ASSUME S # {} PROVE FALSE
    OBVIOUS
  <2>2. PICK k \in S : \A j \in S : k <= j
    <3>1. \A j \in 0..len : j \in Nat
      OBVIOUS
    <3>2. S \in SUBSET Nat
      BY <3>1
    <3> HIDE DEF S
    <3> QED
      BY <2>1, <3>2, LeastNumber
  <2>i. PICK i : i = len + 1 - k
    OBVIOUS
  <2>3. k \in 0..len /\ Proper(i) /\ f[i] \notin Seq(T \ Bad)
    BY <2>i
  <2>4. i \in 1..(len + 1) /\ i \in Nat
    BY <1>0, <2>3, <2>i
  <2>5. ASSUME NEW j \in (i + 1)..(len + 1), Proper(j)
        PROVE  f[j] \in Seq(T \ Bad)
    <3>1. len + 1 - j \in 0..len /\ len + 1 - (len + 1 - j) = j /\ ~(k <= len + 1 - j)
      BY <1>0, <2>3, <2>4, <2>i
    <3>2. len + 1 - j \notin S
      BY <2>2, <3>1
    <3> HIDE DEF Proper
    <3> QED
      BY <2>5, <3>1, <3>2
  <2>6. \A j \in 1..len : template[j] \notin Bad => <<template[j]>> \in Seq(T \ Bad)
    <3>1. \A x \in T \ Bad : <<x>> \in Seq(T \ Bad)
      OBVIOUS
    <3>2. \A j \in 1..len : template[j] \in T
      BY <1>l
    <3> QED
      BY <3>1, <3>2
  <2>7. ASSUME NEW a \in 1..len, NEW b \in 1..len,
               \A j \in a..b : template[j] \notin Bad
        PROVE  SubSeq(template, a, b) \in Seq(T \ Bad)
    <3>1. PICK sub : sub = SubSeq(template, a, b)
      OBVIOUS
    <3>2. /\ sub \in Seq(T) /\ Len(sub) = IF b < a THEN 0 ELSE b - a + 1
          /\ \A j \in 1..Len(sub) : sub[j] = template[a + j - 1]
      BY <1>l, <2>7, <3>1
    <3>3. \A j \in 1..Len(sub) : a + j - 1 \in a..b
      BY <3>2
    <3>4. \A j \in 1..Len(sub) : sub[j] \in T \ Bad
      <4>1. \A j \in 1..Len(sub) : sub[j] \in T
        BY <3>2
      <4> QED
        BY <2>7, <3>2, <3>3, <4>1
    <3>5. Len(sub) \in Nat /\ DOMAIN sub = 1..Len(sub)
      BY <3>2
    <3>6. sub \in Seq(T \ Bad)
      BY ONLY <3>2, <3>4, <3>5
    <3> QED
      BY <3>1, <3>6
  <2>8. \A a, b \in Seq(T \ Bad) : a \o b \in Seq(T \ Bad)
    OBVIOUS
  <2>9. /\ \A j \in 1..len : template[j] \in Bad => j - 1 \in 1..len /\ Opens(template[j - 1])
        /\ \A j \in 1..len : Opens(template[j]) =>
               \/ \A n \in j..len : template[n] \notin Bad
               \/ /\ j + 2 \in 1..len /\ ~Closes(template[j + 1]) /\ Closes(template[j + 2])
                  /\ template[j + 1] \in DOMAIN args
        /\ \A name \in DOMAIN args : args[name] \notin Bad
    BY <1>l DEF Filling
  <2>10. \A name \in DOMAIN args : <<args[name]>> \in Seq(T \ Bad)
    <3>1. \A x \in T \ Bad : <<x>> \in Seq(T \ Bad)
      OBVIOUS
    <3> QED
      BY <2>9, <3>1
  <2>t. f[i] = TextFrom(template, args, f, i)
    BY <1>l, <2>4 DEF RenderedBy
  <2>11. CASE i = len + 1 /\ f[i] = <<>>
    <3>1. <<>> \in Seq(T \ Bad)
      OBVIOUS
    <3> QED
      BY <2>3, <2>11, <3>1
  <2>12. CASE /\ i \in 1..len /\ ~Opens(template[i])
              /\ f[i] = <<template[i]>> \o f[i + 1]
    <3>1. Proper(i + 1)
      <4>1. i + 1 - 1 = i
        BY <2>4
      <4> QED
        BY <2>9, <2>12, <4>1
    <3>2. i + 1 \in (i + 1)..(len + 1)
      BY <1>0, <2>12
    <3>3. f[i + 1] \in Seq(T \ Bad)
      BY <2>5, <3>1, <3>2
    <3>4. template[i] \notin Bad
      BY <2>3, <2>12
    <3> QED
      BY <2>3, <2>6, <2>8, <2>12, <3>3, <3>4
  <2>13. CASE /\ i \in 1..len /\ Opens(template[i]) /\ ~IsClosed(template, i)
              /\ f[i] = SubSeq(template, i, len)
    <3>1. \A j \in i..len : template[j] \notin Bad
      <4>1. i + 2 \in 1..len => i + 2 \in (i + 1)..len
        BY <2>4
      <4>2. ~(i + 2 \in 1..len /\ Closes(template[i + 2]))
        BY <1>l, <2>13, <4>1, ClosedBy
      <4> QED
        BY <2>9, <2>13, <4>2
    <3>2. len \in 1..len
      <4>1. i \in 1..len
        BY <2>13
      <4> QED
        BY ONLY <1>0, <4>1
    <3> QED
      BY <2>3, <2>7, <2>13, <3>1, <3>2
  <2>14. CASE /\ i \in 1..len /\ Opens(template[i]) /\ IsClosed(template, i)
              /\ f[i] = (IF HasValue(template, args, i)
                         THEN <<args[NameIn(template, i)[1]]>>
                         ELSE SubSeq(template, i, EndOfName(template, i)))
                            \o f[EndOfName(template, i) + 1]
    <3>1. PICK c : c = EndOfName(template, i)
      OBVIOUS
    <3>2. c \in (i + 1)..len /\ Closes(template[c])
      BY <1>0, <1>l, <2>4, <2>14, <3>1, NameCloses
    <3>3. c + 1 \in (i + 1)..(len + 1) /\ c + 1 - 1 = c /\ c \in 1..len
      BY <1>0, <2>4, <3>2
    <3>4. Proper(c + 1)
      BY <2>9, <3>2, <3>3, OpensNotCloses
    <3>5. f[c + 1] \in Seq(T \ Bad)
      BY <2>5, <3>3, <3>4
    <3>6. (IF HasValue(template, args, i) THEN <<args[NameIn(template, i)[1]]>>
           ELSE SubSeq(template, i, c)) \in Seq(T \ Bad)
      <4>1. CASE HasValue(template, args, i)
        BY <2>10, <4>1 DEF HasValue
      <4>2. CASE ~HasValue(template, args, i)
        <5>1. ~(/\ i + 2 \in 1..len /\ ~Closes(template[i + 1]) /\ Closes(template[i + 2])
                /\ template[i + 1] \in DOMAIN args)
          BY <1>l, <2>14, <4>2, OneName
        <5>2. \A n \in i..len : template[n] \notin Bad
          BY <2>9, <2>14, <5>1
        <5>3. \A n \in i..c : n \in i..len
          BY <1>0, <2>4, <3>3
        <5>4. SubSeq(template, i, c) \in Seq(T \ Bad)
          BY <2>7, <2>14, <3>3, <5>2, <5>3
        <5> QED
          BY <4>2, <5>4
      <4> QED
        BY <4>1, <4>2
    <3> QED
      BY <2>3, <2>8, <2>14, <3>1, <3>5, <3>6
  <2>15. i \in 1..(Len(template) + 1) /\ Len(template) \in Nat
    BY <1>0, <1>l, <2>4
  <2> HIDE DEF S, Proper
  <2> QED
    BY <1>l, <2>t, <2>11, <2>12, <2>13, <2>14, <2>15, TextWays
<1>2. ASSUME NEW i \in 1..(len + 1), Proper(i)
      PROVE  f[i] \in Seq(T \ Bad)
  <2>1. len + 1 - i \in 0..len /\ len + 1 - (len + 1 - i) = i
    BY <1>0
  <2>2. len + 1 - i \notin S
    BY <1>1
  <2> HIDE DEF Proper
  <2> QED
    BY <1>2, <2>1, <2>2
<1> QED
  BY <1>2, <1>l

LEMMA FilledMessage ==
    ASSUME NEW T, NEW Bad, NEW template \in Seq(T), NEW args,
           \A name \in DOMAIN args : args[name] \in T,
           Filling(template, args, Bad),
           1 \in 1..Len(template) => template[1] \notin Bad,
           NEW message, message = renderMessage(template, args)
    PROVE  {message[k] : k \in DOMAIN message} \cap Bad = {}
<1>1. Len(template) \in Nat
  OBVIOUS
<1>2. PICK f : message = f[1] /\ RenderedBy(template, args, f, 1)
  BY <1>1, RenderTexts
<1>3. 1 \in 1..(Len(template) + 1)
  BY <1>1
<1>4. message \in Seq(T \ Bad)
  <2>1. \A i \in 1..(Len(template) + 1) :
            (i \in 1..Len(template) => template[i] \notin Bad) => f[i] \in Seq(T \ Bad)
    BY <1>2, FilledText
  <2> QED
    BY <1>2, <1>3, <2>1
<1>5. \A k \in DOMAIN message : message[k] \in T \ Bad
  BY <1>4
<1> QED
  BY <1>5

\* Templates, put together from their pieces.
LEMMA OnePiece ==
    ASSUME NEW a, NEW o, NEW x, NEW c
    PROVE  <<a>> \o <<o, x, c>>
               = <<a, o, x, c>>
<1>s. PICK S : S = {a, o, x, c}
  OBVIOUS
<1>0. a \in S /\ o \in S /\ x \in S /\ c \in S
  BY <1>s
<1>1. <<a>> \o <<o, x, c>>
         = <<a, o, x, c>>
  <2> DEFINE t == <<a>> \o <<o, x, c>>
  <2>1. /\ <<a>> \in Seq(S) /\ <<o, x, c>> \in Seq(S)
        /\ <<a, o, x, c>> \in Seq(S)
    BY <1>0
  <2>2. t \in Seq(S) /\ Len(t) = 4
    BY <2>1
  <2>3. /\ t[1] = a /\ t[2] = o /\ t[3] = x /\ t[4] = c
    BY <2>1
  <2> HIDE DEF t
  <2>4. t = <<a, o, x, c>>
    BY <2>2, <2>3
  <2> QED
    BY <2>4 DEF t
<1> QED
  BY <1>1

LEMMA TwoPieces ==
    ASSUME NEW a, NEW o, NEW x, NEW c, NEW b, NEW y
    PROVE  <<a>> \o <<o, x, c>> \o <<b>> \o <<o, y, c>>
               = <<a, o, x, c, b, o, y, c>>
<1>s. PICK S : S = {a, o, x, c, b, y}
  OBVIOUS
<1>0. a \in S /\ o \in S /\ x \in S /\ c \in S /\ b \in S /\ y \in S
  BY <1>s
<1>1. <<a>> \o <<o, x, c>>
         = <<a, o, x, c>>
  <2> DEFINE t == <<a>> \o <<o, x, c>>
  <2>1. /\ <<a>> \in Seq(S) /\ <<o, x, c>> \in Seq(S)
        /\ <<a, o, x, c>> \in Seq(S)
    BY <1>0
  <2>2. t \in Seq(S) /\ Len(t) = 4
    BY <2>1
  <2>3. /\ t[1] = a /\ t[2] = o /\ t[3] = x /\ t[4] = c
    BY <2>1
  <2> HIDE DEF t
  <2>4. t = <<a, o, x, c>>
    BY <2>2, <2>3
  <2> QED
    BY <2>4 DEF t
<1>2. <<a, o, x, c>> \o <<b>>
         = <<a, o, x, c, b>>
  <2> DEFINE t == <<a, o, x, c>> \o <<b>>
  <2>1. /\ <<a, o, x, c>> \in Seq(S) /\ <<b>> \in Seq(S)
        /\ <<a, o, x, c, b>> \in Seq(S)
    BY <1>0
  <2>2. t \in Seq(S) /\ Len(t) = 5
    BY <2>1
  <2>3. /\ t[1] = a /\ t[2] = o /\ t[3] = x /\ t[4] = c /\ t[5] = b
    BY <2>1
  <2> HIDE DEF t
  <2>4. t = <<a, o, x, c, b>>
    BY <2>2, <2>3
  <2> QED
    BY <2>4 DEF t
<1>3. <<a, o, x, c, b>> \o <<o, y, c>>
         = <<a, o, x, c, b, o, y, c>>
  <2> DEFINE t == <<a, o, x, c, b>> \o <<o, y, c>>
  <2>1. /\ <<a, o, x, c, b>> \in Seq(S) /\ <<o, y, c>> \in Seq(S)
        /\ <<a, o, x, c, b, o, y, c>> \in Seq(S)
    BY <1>0
  <2>2. t \in Seq(S) /\ Len(t) = 8
    BY <2>1
  <2>3. /\ t[1] = a /\ t[2] = o /\ t[3] = x /\ t[4] = c /\ t[5] = b
        /\ t[6] = o /\ t[7] = y /\ t[8] = c
    BY <2>1
  <2> HIDE DEF t
  <2>4. t = <<a, o, x, c, b, o, y, c>>
    BY <2>2, <2>3
  <2> QED
    BY <2>4 DEF t
<1> QED
  BY <1>1, <1>2, <1>3

LEMMA TwoWords ==
    ASSUME NEW a, NEW w
    PROVE  <<a>> \o <<w>>
               = <<a, w>>
<1>s. PICK S : S = {a, w}
  OBVIOUS
<1>0. a \in S /\ w \in S
  BY <1>s
<1>1. <<a>> \o <<w>>
         = <<a, w>>
  <2> DEFINE t == <<a>> \o <<w>>
  <2>1. /\ <<a>> \in Seq(S) /\ <<w>> \in Seq(S)
        /\ <<a, w>> \in Seq(S)
    BY <1>0
  <2>2. t \in Seq(S) /\ Len(t) = 2
    BY <2>1
  <2>3. /\ t[1] = a /\ t[2] = w
    BY <2>1
  <2> HIDE DEF t
  <2>4. t = <<a, w>>
    BY <2>2, <2>3
  <2> QED
    BY <2>4 DEF t
<1> QED
  BY <1>1

LEMMA WordsInContext ==
    ASSUME NEW a, NEW w, NEW o, NEW x, NEW c, NEW b, NEW y
    PROVE  <<a, w>> \o <<o, x, c>> \o <<b>> \o <<o, y, c>>
               = <<a, w, o, x, c, b, o, y, c>>
<1>s. PICK S : S = {a, w, o, x, c, b, y}
  OBVIOUS
<1>0. a \in S /\ w \in S /\ o \in S /\ x \in S /\ c \in S /\ b \in S /\ y \in S
  BY <1>s
<1>1. <<a, w>> \o <<o, x, c>>
         = <<a, w, o, x, c>>
  <2> DEFINE t == <<a, w>> \o <<o, x, c>>
  <2>1. /\ <<a, w>> \in Seq(S) /\ <<o, x, c>> \in Seq(S)
        /\ <<a, w, o, x, c>> \in Seq(S)
    BY <1>0
  <2>2. t \in Seq(S) /\ Len(t) = 5
    BY <2>1
  <2>3. /\ t[1] = a /\ t[2] = w /\ t[3] = o /\ t[4] = x /\ t[5] = c
    BY <2>1
  <2> HIDE DEF t
  <2>4. t = <<a, w, o, x, c>>
    BY <2>2, <2>3
  <2> QED
    BY <2>4 DEF t
<1>2. <<a, w, o, x, c>> \o <<b>>
         = <<a, w, o, x, c, b>>
  <2> DEFINE t == <<a, w, o, x, c>> \o <<b>>
  <2>1. /\ <<a, w, o, x, c>> \in Seq(S) /\ <<b>> \in Seq(S)
        /\ <<a, w, o, x, c, b>> \in Seq(S)
    BY <1>0
  <2>2. t \in Seq(S) /\ Len(t) = 6
    BY <2>1
  <2>3. /\ t[1] = a /\ t[2] = w /\ t[3] = o /\ t[4] = x /\ t[5] = c
        /\ t[6] = b
    BY <2>1
  <2> HIDE DEF t
  <2>4. t = <<a, w, o, x, c, b>>
    BY <2>2, <2>3
  <2> QED
    BY <2>4 DEF t
<1>3. <<a, w, o, x, c, b>> \o <<o, y, c>>
         = <<a, w, o, x, c, b, o, y, c>>
  <2> DEFINE t == <<a, w, o, x, c, b>> \o <<o, y, c>>
  <2>1. /\ <<a, w, o, x, c, b>> \in Seq(S) /\ <<o, y, c>> \in Seq(S)
        /\ <<a, w, o, x, c, b, o, y, c>> \in Seq(S)
    BY <1>0
  <2>2. t \in Seq(S) /\ Len(t) = 9
    BY <2>1
  <2>3. /\ t[1] = a /\ t[2] = w /\ t[3] = o /\ t[4] = x /\ t[5] = c
        /\ t[6] = b /\ t[7] = o /\ t[8] = y /\ t[9] = c
    BY <2>1
  <2> HIDE DEF t
  <2>4. t = <<a, w, o, x, c, b, o, y, c>>
    BY <2>2, <2>3
  <2> QED
    BY <2>4 DEF t
<1> QED
  BY <1>1, <1>2, <1>3

LEMMA NameInContext ==
    ASSUME NEW a, NEW o, NEW w, NEW c, NEW x, NEW b, NEW y
    PROVE  <<a>> \o <<o, w, c>> \o <<o, x, c>> \o <<b>> \o <<o, y, c>>
               = <<a, o, w, c, o, x, c, b, o, y, c>>
<1>s. PICK S : S = {a, o, w, c, x, b, y}
  OBVIOUS
<1>0. a \in S /\ o \in S /\ w \in S /\ c \in S /\ x \in S /\ b \in S /\ y \in S
  BY <1>s
<1>1. <<a>> \o <<o, w, c>>
         = <<a, o, w, c>>
  <2> DEFINE t == <<a>> \o <<o, w, c>>
  <2>1. /\ <<a>> \in Seq(S) /\ <<o, w, c>> \in Seq(S)
        /\ <<a, o, w, c>> \in Seq(S)
    BY <1>0
  <2>2. t \in Seq(S) /\ Len(t) = 4
    BY <2>1
  <2>3. /\ t[1] = a /\ t[2] = o /\ t[3] = w /\ t[4] = c
    BY <2>1
  <2> HIDE DEF t
  <2>4. t = <<a, o, w, c>>
    BY <2>2, <2>3
  <2> QED
    BY <2>4 DEF t
<1>2. <<a, o, w, c>> \o <<o, x, c>>
         = <<a, o, w, c, o, x, c>>
  <2> DEFINE t == <<a, o, w, c>> \o <<o, x, c>>
  <2>1. /\ <<a, o, w, c>> \in Seq(S) /\ <<o, x, c>> \in Seq(S)
        /\ <<a, o, w, c, o, x, c>> \in Seq(S)
    BY <1>0
  <2>2. t \in Seq(S) /\ Len(t) = 7
    BY <2>1
  <2>3. /\ t[1] = a /\ t[2] = o /\ t[3] = w /\ t[4] = c /\ t[5] = o
        /\ t[6] = x /\ t[7] = c
    BY <2>1
  <2> HIDE DEF t
  <2>4. t = <<a, o, w, c, o, x, c>>
    BY <2>2, <2>3
  <2> QED
    BY <2>4 DEF t
<1>3. <<a, o, w, c, o, x, c>> \o <<b>>
         = <<a, o, w, c, o, x, c, b>>
  <2> DEFINE t == <<a, o, w, c, o, x, c>> \o <<b>>
  <2>1. /\ <<a, o, w, c, o, x, c>> \in Seq(S) /\ <<b>> \in Seq(S)
        /\ <<a, o, w, c, o, x, c, b>> \in Seq(S)
    BY <1>0
  <2>2. t \in Seq(S) /\ Len(t) = 8
    BY <2>1
  <2>3. /\ t[1] = a /\ t[2] = o /\ t[3] = w /\ t[4] = c /\ t[5] = o
        /\ t[6] = x /\ t[7] = c /\ t[8] = b
    BY <2>1
  <2> HIDE DEF t
  <2>4. t = <<a, o, w, c, o, x, c, b>>
    BY <2>2, <2>3
  <2> QED
    BY <2>4 DEF t
<1>4. <<a, o, w, c, o, x, c, b>> \o <<o, y, c>>
         = <<a, o, w, c, o, x, c, b, o, y, c>>
  <2> DEFINE t == <<a, o, w, c, o, x, c, b>> \o <<o, y, c>>
  <2>1. /\ <<a, o, w, c, o, x, c, b>> \in Seq(S) /\ <<o, y, c>> \in Seq(S)
        /\ <<a, o, w, c, o, x, c, b, o, y, c>> \in Seq(S)
    BY <1>0
  <2>2. t \in Seq(S) /\ Len(t) = 11
    BY <2>1
  <2>3. /\ t[1] = a /\ t[2] = o /\ t[3] = w /\ t[4] = c /\ t[5] = o
        /\ t[6] = x /\ t[7] = c /\ t[8] = b /\ t[9] = o /\ t[10] = y
        /\ t[11] = c
    BY <2>1
  <2> HIDE DEF t
  <2>4. t = <<a, o, w, c, o, x, c, b, o, y, c>>
    BY <2>2, <2>3
  <2> QED
    BY <2>4 DEF t
<1> QED
  BY <1>1, <1>2, <1>3, <1>4

-----------------------------------------------------------------------------
(* Which reports fit their messages.                                       *)

\* The messages without placeholders, and those with placeholders that expect
\* gives a value for.
BareIDs ==
    DiagID \ {"ExpectedName", "ExpectedKeyword", "ExpectedIdentifier", "ExpectedToken",
              "ExpectedTokenAfter", "ExpectedOpen", "ExpectedClose", "ExpectedSemi",
              "ExpectedColon", "ExpectedEq", "ExpectedReturnTypeColon"}
ExpectIDs == DiagID \ {"ExpectedName", "ExpectedTokenAfter"}

LEMMA BareTemplates ==
    ASSUME NEW diag \in BareIDs
    PROVE  \E S : \E t \in Seq(S) : /\ t = messageFor(diag) /\ Len(t) \in 1..4
                                    /\ \A i \in 1..Len(t) : t[i] \notin Placeholders
<1>t. PICK t : t = messageFor(diag)
  OBVIOUS
<1>1. CASE diag \in {"ExpectedStructLitClose", "ExpectedStructPatClose"}
  <2>1. t = <<"expected", "}", "to close">>
    BY <1>t, <1>1 DEF messageFor
  <2>2. {"expected", "}", "to close"} \cap Placeholders = {}
    BY DEF Placeholders
  <2>3. ASSUME NEW x, NEW y, NEW z, t = <<x, y, z>>, {x, y, z} \cap Placeholders = {}
        PROVE  /\ t \in Seq({x, y, z}) /\ Len(t) \in 1..4
               /\ \A i \in 1..Len(t) : t[i] \notin Placeholders
    BY ONLY <2>3
  <2> QED
    BY ONLY <1>t, <2>1, <2>2, <2>3
<1>2. CASE diag = "ExpectedModOpenOrSemi"
  <2>1. t = <<"expected", "{", "{", "or ;">>
    BY <1>t, <1>2 DEF messageFor
  <2>2. {"expected", "{", "or ;"} \cap Placeholders = {}
    BY DEF Placeholders
  <2>3. ASSUME NEW x, NEW y, NEW z, t = <<x, y, y, z>>, {x, y, z} \cap Placeholders = {}
        PROVE  /\ t \in Seq({x, y, z}) /\ Len(t) \in 1..4
               /\ \A i \in 1..Len(t) : t[i] \notin Placeholders
    BY ONLY <2>3
  <2> QED
    BY ONLY <1>t, <2>1, <2>2, <2>3
<1>3. CASE diag \notin {"ExpectedStructLitClose", "ExpectedStructPatClose",
                        "ExpectedModOpenOrSemi"}
  <2>1. t = <<diag>>
    BY <1>t, <1>3 DEF messageFor, BareIDs
  <2>2. diag \notin Placeholders
    BY DEF BareIDs, DiagID, Placeholders
  <2>3. /\ t \in Seq({diag}) /\ Len(t) \in 1..4
        /\ \A i \in 1..Len(t) : t[i] \notin Placeholders
    BY ONLY <2>1, <2>2
  <2> QED
    BY ONLY <1>t, <2>3
<1> QED
  BY <1>1, <1>2, <1>3

LEMMA NameTemplate ==
    messageFor("ExpectedName") =
        <<"expected", "{", "construct", "}", "name, found", "{", "found", "}">>
BY TwoPieces DEF messageFor, Placeholder

LEMMA KeywordTemplate ==
    messageFor("ExpectedKeyword") =
        <<"expected", "{", "keyword", "}", ", found", "{", "found", "}">>
BY TwoPieces DEF messageFor, Placeholder

LEMMA TokenTemplate ==
    messageFor("ExpectedToken") = <<"expected", "{", "tok", "}">>
BY OnePiece DEF messageFor, Placeholder

LEMMA ReturnTypeTemplate ==
    messageFor("ExpectedReturnTypeColon") =
        <<"expected : for return type, found", "{", "found", "}">>
BY OnePiece DEF messageFor, Placeholder

LEMMA ContextTemplates ==
    ASSUME NEW diag, NEW word,
           \/ diag = "ExpectedIdentifier" /\ word = "identifier"
           \/ diag = "ExpectedSemi" /\ word = ";"
           \/ diag = "ExpectedColon" /\ word = ":"
           \/ diag = "ExpectedEq" /\ word = "="
    PROVE  messageFor(diag) =
               <<"expected", word, "{", "context", "}", ", found", "{", "found", "}">>
<1>1. messageFor(diag) = InContext(<<word>>)
  BY DEF messageFor
<1>2. InContext(<<word>>) =
          <<"expected", word, "{", "context", "}", ", found", "{", "found", "}">>
  <2>1. PICK e, o, x, c, b, y : /\ e = "expected" /\ o = "{" /\ x = "context" /\ c = "}"
                                /\ b = ", found" /\ y = "found"
    OBVIOUS
  <2>2. <<e>> \o <<word>> = <<e, word>>
    BY ONLY TwoWords
  <2>3. <<e, word>> \o <<o, x, c>> \o <<b>> \o <<o, y, c>>
            = <<e, word, o, x, c, b, o, y, c>>
    BY ONLY WordsInContext
  <2> QED
    BY ONLY <2>1, <2>2, <2>3 DEF Placeholder, InContext
<1> QED
  BY ONLY <1>1, <1>2

LEMMA BraceTemplates ==
    ASSUME NEW diag \in {"ExpectedOpen", "ExpectedClose"}
    PROVE  messageFor(diag) =
               <<"expected", "{", "tok", "}", "{", "context", "}", ", found",
                 "{", "found", "}">>
<1>1. messageFor(diag) = InContext(Placeholder("tok"))
  BY DEF messageFor
<1> QED
  BY <1>1, NameInContext DEF Placeholder, InContext

LEMMA MessageFilled ==
    ASSUME NEW S, NEW t \in Seq(S), NEW diag, NEW args, t = messageFor(diag),
           \A name \in DOMAIN args : args[name] \notin Placeholders,
           Filling(t, args, Placeholders), Len(t) >= 1, t[1] \notin Placeholders
    PROVE  Unfilled([id |-> diag, args |-> args]) = {}
<1> DEFINE T == S \cup {args[name] : name \in DOMAIN args}
<1>1. t \in Seq(T) /\ \A name \in DOMAIN args : args[name] \in T
  OBVIOUS
<1>2. PICK err : err = [id |-> diag, args |-> args]
  OBVIOUS
<1>3. Rendered(err) = renderMessage(t, args)
  BY <1>2 DEF Rendered
<1> HIDE DEF T
<1>4. {Rendered(err)[k] : k \in DOMAIN Rendered(err)} \cap Placeholders = {}
  BY <1>1, <1>3, FilledMessage
<1> QED
  BY <1>2, <1>4 DEF Unfilled

\* A message without placeholders has nothing to fill in.
LEMMA BareFilled ==
    ASSUME NEW diag \in BareIDs, NEW args,
           \A name \in DOMAIN args : args[name] \notin Placeholders
    PROVE  Unfilled([id |-> diag, args |-> args]) = {}
<1>1. PICK S : \E t \in Seq(S) : /\ t = messageFor(diag) /\ Len(t) \in 1..4
                                 /\ \A i \in 1..Len(t) : t[i] \notin Placeholders
  BY BareTemplates
<1>2. PICK t \in Seq(S) : /\ t = messageFor(diag) /\ Len(t) \in 1..4
                          /\ \A i \in 1..Len(t) : t[i] \notin Placeholders
  BY <1>1
<1>3. Len(t) \in Nat /\ Len(t) >= 1 /\ 1 \in 1..Len(t)
  BY <1>2
<1>4. Filling(t, args, Placeholders)
  <2>1. ASSUME NEW i \in 1..Len(t), NEW k \in i..Len(t)
        PROVE  t[k] \notin Placeholders
    <3>1. k \in 1..Len(t)
      BY <1>3
    <3> QED
      BY <1>2, <3>1
  <2> QED
    BY <1>2, <2>1 DEF Filling
<1> QED
  BY <1>2, <1>3, <1>4, MessageFilled

\* What the arguments hold is no placeholder's name.
LEMMA KindsAreNoNames ==
    /\ TokenKind \cap Placeholders = {}
    /\ Context \notin Placeholders /\ Construct \notin Placeholders
<1>1. /\ "identifier" \notin Placeholders /\ LiteralKinds \cap Placeholders = {}
      /\ Symbols \cap Placeholders = {} /\ Keywords \cap Placeholders = {}
      /\ {"eof", "unknown", "doc_comment", "file_doc_comment"} \cap Placeholders = {}
  BY DEF LiteralKinds, Symbols, Keywords, Placeholders
<1>2. TokenKind \cap Placeholders = {}
  BY <1>1 DEF TokenKind, Fixed
<1>3. Context \notin Placeholders /\ Construct \notin Placeholders
  BY DEF Context, Construct, Placeholders
<1> QED
  BY <1>2, <1>3

\* The templates by their places: what stands where a name does is in braces.
FillsIn(t, args) ==
    /\ Filling(t, args, Placeholders)
    /\ t \in Seq({t[k] : k \in DOMAIN t}) /\ Len(t) >= 1
    /\ t[1] \notin Placeholders

LEMMA OneBraced ==
    ASSUME NEW a, NEW x, NEW args,
           a \notin Placeholders,
           a # "{",
           x \in Placeholders,
           x \in DOMAIN args,
           \A name \in DOMAIN args : args[name] \notin Placeholders
    PROVE  FillsIn(<<a, "{", x, "}">>, args)
<1>t. PICK t : t = <<a, "{", x, "}">>
  OBVIOUS
<1>0. "{" \notin Placeholders /\ "}" \notin Placeholders /\ Opens("{") /\ Closes("}")
  BY DEF Placeholders, Opens, Closes
<1>p. PICK o, c : o = "{" /\ c = "}"
  OBVIOUS
<1>1. /\ Opens(o) /\ ~Opens(c) /\ Closes(c) /\ o \notin Placeholders /\ c \notin Placeholders
      /\ ~Opens(a) /\ ~Opens(x)
      /\ ~Closes(x)
      /\ a \notin Placeholders
      /\ x \in DOMAIN args
      /\ \A name \in DOMAIN args : args[name] \notin Placeholders
  BY <1>0, <1>p DEF Opens, Closes
<1>2. t = <<a, o, x, c>>
  BY <1>p, <1>t
<1>3. t \in Seq({t[k] : k \in DOMAIN t}) /\ t[1] = a /\ Len(t) >= 1
  BY ONLY <1>2
<1>4. Filling(t, args, Placeholders)
  <2>1. /\ Len(t) = 4
        /\ t[1] = a /\ t[2] = o /\ t[3] = x /\ t[4] = c
    BY ONLY <1>2
  <2>2. ASSUME NEW i \in 1..Len(t), t[i] \in Placeholders
        PROVE  i - 1 \in 1..Len(t) /\ Opens(t[i - 1])
    <3>1. i = 3
      BY ONLY <1>1, <2>1, <2>2
    <3> QED
      BY ONLY <1>1, <2>1, <3>1
  <2>3. ASSUME NEW i \in 1..Len(t), Opens(t[i])
        PROVE  /\ i + 2 \in 1..Len(t) /\ ~Closes(t[i + 1]) /\ Closes(t[i + 2])
               /\ t[i + 1] \in DOMAIN args
    <3>1. i = 2
      BY ONLY <1>1, <2>1, <2>3
    <3> QED
      BY ONLY <1>1, <2>1, <3>1
  <2> QED
    BY <1>1, <2>2, <2>3 DEF Filling
<1> QED
  BY <1>t, <1>1, <1>3, <1>4 DEF FillsIn

LEMMA TwoBraced ==
    ASSUME NEW a, NEW b, NEW x, NEW y, NEW args,
           a \notin Placeholders, b \notin Placeholders,
           a # "{", b # "{",
           x \in Placeholders, y \in Placeholders,
           x \in DOMAIN args, y \in DOMAIN args,
           \A name \in DOMAIN args : args[name] \notin Placeholders
    PROVE  FillsIn(<<a, "{", x, "}", b, "{", y, "}">>, args)
<1>t. PICK t : t = <<a, "{", x, "}", b, "{", y, "}">>
  OBVIOUS
<1>0. "{" \notin Placeholders /\ "}" \notin Placeholders /\ Opens("{") /\ Closes("}")
  BY DEF Placeholders, Opens, Closes
<1>p. PICK o, c : o = "{" /\ c = "}"
  OBVIOUS
<1>1. /\ Opens(o) /\ ~Opens(c) /\ Closes(c) /\ o \notin Placeholders /\ c \notin Placeholders
      /\ ~Opens(a) /\ ~Opens(b) /\ ~Opens(x) /\ ~Opens(y)
      /\ ~Closes(x) /\ ~Closes(y)
      /\ a \notin Placeholders /\ b \notin Placeholders
      /\ x \in DOMAIN args /\ y \in DOMAIN args
      /\ \A name \in DOMAIN args : args[name] \notin Placeholders
  BY <1>0, <1>p DEF Opens, Closes
<1>2. t = <<a, o, x, c, b, o, y, c>>
  BY <1>p, <1>t
<1>3. t \in Seq({t[k] : k \in DOMAIN t}) /\ t[1] = a /\ Len(t) >= 1
  BY ONLY <1>2
<1>4. Filling(t, args, Placeholders)
  <2>1. /\ Len(t) = 8
        /\ t[1] = a /\ t[2] = o /\ t[3] = x /\ t[4] = c /\ t[5] = b /\ t[6] = o
        /\ t[7] = y /\ t[8] = c
    BY ONLY <1>2
  <2>2. ASSUME NEW i \in 1..Len(t), t[i] \in Placeholders
        PROVE  i - 1 \in 1..Len(t) /\ Opens(t[i - 1])
    <3>1. i = 3 \/ i = 7
      BY ONLY <1>1, <2>1, <2>2
    <3> QED
      BY ONLY <1>1, <2>1, <3>1
  <2>3. ASSUME NEW i \in 1..Len(t), Opens(t[i])
        PROVE  /\ i + 2 \in 1..Len(t) /\ ~Closes(t[i + 1]) /\ Closes(t[i + 2])
               /\ t[i + 1] \in DOMAIN args
    <3>1. i = 2 \/ i = 6
      BY ONLY <1>1, <2>1, <2>3
    <3> QED
      BY ONLY <1>1, <2>1, <3>1
  <2> QED
    BY <1>1, <2>2, <2>3 DEF Filling
<1> QED
  BY <1>t, <1>1, <1>3, <1>4 DEF FillsIn

LEMMA WordBraced ==
    ASSUME NEW a, NEW w, NEW b, NEW x, NEW y, NEW args,
           a \notin Placeholders, w \notin Placeholders, b \notin Placeholders,
           a # "{", w # "{", b # "{",
           x \in Placeholders, y \in Placeholders,
           x \in DOMAIN args, y \in DOMAIN args,
           \A name \in DOMAIN args : args[name] \notin Placeholders
    PROVE  FillsIn(<<a, w, "{", x, "}", b, "{", y, "}">>, args)
<1>t. PICK t : t = <<a, w, "{", x, "}", b, "{", y, "}">>
  OBVIOUS
<1>0. "{" \notin Placeholders /\ "}" \notin Placeholders /\ Opens("{") /\ Closes("}")
  BY DEF Placeholders, Opens, Closes
<1>p. PICK o, c : o = "{" /\ c = "}"
  OBVIOUS
<1>1. /\ Opens(o) /\ ~Opens(c) /\ Closes(c) /\ o \notin Placeholders /\ c \notin Placeholders
      /\ ~Opens(a) /\ ~Opens(w) /\ ~Opens(b) /\ ~Opens(x) /\ ~Opens(y)
      /\ ~Closes(x) /\ ~Closes(y)
      /\ a \notin Placeholders /\ w \notin Placeholders /\ b \notin Placeholders
      /\ x \in DOMAIN args /\ y \in DOMAIN args
      /\ \A name \in DOMAIN args : args[name] \notin Placeholders
  BY <1>0, <1>p DEF Opens, Closes
<1>2. t = <<a, w, o, x, c, b, o, y, c>>
  BY <1>p, <1>t
<1>3. t \in Seq({t[k] : k \in DOMAIN t}) /\ t[1] = a /\ Len(t) >= 1
  BY ONLY <1>2
<1>4. Filling(t, args, Placeholders)
  <2>1. /\ Len(t) = 9
        /\ t[1] = a /\ t[2] = w /\ t[3] = o /\ t[4] = x /\ t[5] = c /\ t[6] = b
        /\ t[7] = o /\ t[8] = y /\ t[9] = c
    BY ONLY <1>2
  <2>2. ASSUME NEW i \in 1..Len(t), t[i] \in Placeholders
        PROVE  i - 1 \in 1..Len(t) /\ Opens(t[i - 1])
    <3>1. i = 4 \/ i = 8
      BY ONLY <1>1, <2>1, <2>2
    <3> QED
      BY ONLY <1>1, <2>1, <3>1
  <2>3. ASSUME NEW i \in 1..Len(t), Opens(t[i])
        PROVE  /\ i + 2 \in 1..Len(t) /\ ~Closes(t[i + 1]) /\ Closes(t[i + 2])
               /\ t[i + 1] \in DOMAIN args
    <3>1. i = 3 \/ i = 7
      BY ONLY <1>1, <2>1, <2>3
    <3> QED
      BY ONLY <1>1, <2>1, <3>1
  <2> QED
    BY <1>1, <2>2, <2>3 DEF Filling
<1> QED
  BY <1>t, <1>1, <1>3, <1>4 DEF FillsIn

LEMMA ThreeBraced ==
    ASSUME NEW a, NEW b, NEW w, NEW x, NEW y, NEW args,
           a \notin Placeholders, b \notin Placeholders,
           a # "{", b # "{",
           w \in Placeholders, x \in Placeholders, y \in Placeholders,
           w \in DOMAIN args, x \in DOMAIN args, y \in DOMAIN args,
           \A name \in DOMAIN args : args[name] \notin Placeholders
    PROVE  FillsIn(<<a, "{", w, "}", "{", x, "}", b, "{", y, "}">>, args)
<1>t. PICK t : t = <<a, "{", w, "}", "{", x, "}", b, "{", y, "}">>
  OBVIOUS
<1>0. "{" \notin Placeholders /\ "}" \notin Placeholders /\ Opens("{") /\ Closes("}")
  BY DEF Placeholders, Opens, Closes
<1>p. PICK o, c : o = "{" /\ c = "}"
  OBVIOUS
<1>1. /\ Opens(o) /\ ~Opens(c) /\ Closes(c) /\ o \notin Placeholders /\ c \notin Placeholders
      /\ ~Opens(a) /\ ~Opens(b) /\ ~Opens(w) /\ ~Opens(x) /\ ~Opens(y)
      /\ ~Closes(w) /\ ~Closes(x) /\ ~Closes(y)
      /\ a \notin Placeholders /\ b \notin Placeholders
      /\ w \in DOMAIN args /\ x \in DOMAIN args /\ y \in DOMAIN args
      /\ \A name \in DOMAIN args : args[name] \notin Placeholders
  BY <1>0, <1>p DEF Opens, Closes
<1>2. t = <<a, o, w, c, o, x, c, b, o, y, c>>
  BY <1>p, <1>t
<1>3. t \in Seq({t[k] : k \in DOMAIN t}) /\ t[1] = a /\ Len(t) >= 1
  BY ONLY <1>2
<1>4. Filling(t, args, Placeholders)
  <2>1. /\ Len(t) = 11
        /\ t[1] = a /\ t[2] = o /\ t[3] = w /\ t[4] = c /\ t[5] = o /\ t[6] = x
        /\ t[7] = c /\ t[8] = b /\ t[9] = o /\ t[10] = y /\ t[11] = c
    BY ONLY <1>2
  <2>2. ASSUME NEW i \in 1..Len(t), t[i] \in Placeholders
        PROVE  i - 1 \in 1..Len(t) /\ Opens(t[i - 1])
    <3>1. i = 3 \/ i = 6 \/ i = 10
      BY ONLY <1>1, <2>1, <2>2
    <3> QED
      BY ONLY <1>1, <2>1, <3>1
  <2>3. ASSUME NEW i \in 1..Len(t), Opens(t[i])
        PROVE  /\ i + 2 \in 1..Len(t) /\ ~Closes(t[i + 1]) /\ Closes(t[i + 2])
               /\ t[i + 1] \in DOMAIN args
    <3>1. i = 2 \/ i = 5 \/ i = 9
      BY ONLY <1>1, <2>1, <2>3
    <3> QED
      BY ONLY <1>1, <2>1, <3>1
  <2> QED
    BY <1>1, <2>2, <2>3 DEF Filling
<1> QED
  BY <1>t, <1>1, <1>3, <1>4 DEF FillsIn


\* What expect reports.
LEMMA ExpectFilled ==
    ASSUME NEW diag \in ExpectIDs, NEW tok \in TokenKind, NEW found \in TokenKind,
           NEW args,
           args = IF diag \in {"ExpectedOpen", "ExpectedClose", "ExpectedSemi",
                               "ExpectedColon", "ExpectedEq", "ExpectedIdentifier"}
                  THEN [tok |-> tok, keyword |-> tok, found |-> found, context |-> Context]
                  ELSE [tok |-> tok, keyword |-> tok, found |-> found]
    PROVE  Unfilled([id |-> diag, args |-> args]) = {}
<1>1. {"tok", "keyword", "found"} \subseteq DOMAIN args
  OBVIOUS
<1>v. \A name \in DOMAIN args : args[name] \notin Placeholders
  BY KindsAreNoNames
<1>2. PICK t : t = messageFor(diag)
  OBVIOUS
<1>3. CASE diag \in BareIDs
  BY <1>v, <1>3, BareFilled
<1>4. CASE diag \in {"ExpectedOpen", "ExpectedClose"}
  <2>1. t = <<"expected", "{", "tok", "}", "{", "context", "}", ", found",
              "{", "found", "}">>
    BY <1>2, <1>4, BraceTemplates
  <2>2. "context" \in DOMAIN args
    BY <1>4
  <2>p. PICK a, b, w, x, y : /\ a = "expected" /\ b = ", found"
                             /\ w = "tok" /\ x = "context" /\ y = "found"
    OBVIOUS
  <2>t. t = <<a, "{", w, "}", "{", x, "}", b, "{", y, "}">>
    BY <2>1, <2>p
  <2>3. /\ a \notin Placeholders /\ a # "{"
        /\ b \notin Placeholders /\ b # "{"
        /\ w \in Placeholders /\ w \in DOMAIN args
        /\ x \in Placeholders /\ x \in DOMAIN args
        /\ y \in Placeholders /\ y \in DOMAIN args
    BY <1>1, <2>p, <2>2 DEF Placeholders
  <2>4. FillsIn(<<a, "{", w, "}", "{", x, "}", b, "{", y, "}">>, args)
    BY ONLY <1>v, <2>3, ThreeBraced, Zenon
  <2> QED
    BY <1>v, <1>2, <2>t, <2>4, MessageFilled DEF FillsIn
<1>5. CASE diag \in {"ExpectedSemi", "ExpectedColon", "ExpectedEq", "ExpectedIdentifier"}
  <2>1. PICK word : /\ word \in {";", ":", "=", "identifier"}
                    /\ t = <<"expected", word, "{", "context", "}", ", found", "{",
                             "found", "}">>
    BY <1>2, <1>5, ContextTemplates
  <2>2. "context" \in DOMAIN args
    BY <1>5
  <2>p. PICK a, b, x, y : a = "expected" /\ b = ", found" /\ x = "context" /\ y = "found"
    OBVIOUS
  <2>t. t = <<a, word, "{", x, "}", b, "{", y, "}">>
    BY <2>1, <2>p
  <2>3. /\ a \notin Placeholders /\ a # "{"
        /\ b \notin Placeholders /\ b # "{"
        /\ x \in Placeholders /\ x \in DOMAIN args
        /\ y \in Placeholders /\ y \in DOMAIN args
    BY <1>1, <2>p, <2>2 DEF Placeholders
  <2>w. word \notin Placeholders /\ word # "{"
    BY <2>1 DEF Placeholders
  <2>4. FillsIn(<<a, word, "{", x, "}", b, "{", y, "}">>, args)
    BY ONLY <1>v, <2>3, <2>w, WordBraced, Zenon
  <2> QED
    BY <1>v, <1>2, <2>t, <2>4, MessageFilled DEF FillsIn
<1>6. CASE diag = "ExpectedKeyword"
  <2>1. t = <<"expected", "{", "keyword", "}", ", found", "{", "found", "}">>
    BY <1>2, <1>6, KeywordTemplate
  <2>p. PICK a, b, x, y : a = "expected" /\ b = ", found" /\ x = "keyword" /\ y = "found"
    OBVIOUS
  <2>t. t = <<a, "{", x, "}", b, "{", y, "}">>
    BY <2>1, <2>p
  <2>3. /\ a \notin Placeholders /\ a # "{"
        /\ b \notin Placeholders /\ b # "{"
        /\ x \in Placeholders /\ x \in DOMAIN args
        /\ y \in Placeholders /\ y \in DOMAIN args
    BY <1>1, <2>p DEF Placeholders
  <2>4. FillsIn(<<a, "{", x, "}", b, "{", y, "}">>, args)
    BY ONLY <1>v, <2>3, TwoBraced, Zenon
  <2> QED
    BY <1>v, <1>2, <2>t, <2>4, MessageFilled DEF FillsIn
<1>7. CASE diag = "ExpectedToken"
  <2>1. t = <<"expected", "{", "tok", "}">>
    BY <1>2, <1>7, TokenTemplate
  <2>p. PICK a, x : a = "expected" /\ x = "tok"
    OBVIOUS
  <2>t. t = <<a, "{", x, "}">>
    BY <2>1, <2>p
  <2>3. /\ a \notin Placeholders /\ a # "{"
        /\ x \in Placeholders /\ x \in DOMAIN args
    BY <1>1, <2>p DEF Placeholders
  <2>4. FillsIn(<<a, "{", x, "}">>, args)
    BY ONLY <1>v, <2>3, OneBraced, Zenon
  <2> QED
    BY <1>v, <1>2, <2>t, <2>4, MessageFilled DEF FillsIn
<1>8. CASE diag = "ExpectedReturnTypeColon"
  <2>1. t = <<"expected : for return type, found", "{", "found", "}">>
    BY <1>2, <1>8, ReturnTypeTemplate
  <2>p. PICK a, x : a = "expected : for return type, found" /\ x = "found"
    OBVIOUS
  <2>t. t = <<a, "{", x, "}">>
    BY <2>1, <2>p
  <2>3. /\ a \notin Placeholders /\ a # "{"
        /\ x \in Placeholders /\ x \in DOMAIN args
    BY <1>1, <2>p DEF Placeholders
  <2>4. FillsIn(<<a, "{", x, "}">>, args)
    BY ONLY <1>v, <2>3, OneBraced, Zenon
  <2> QED
    BY <1>v, <1>2, <2>t, <2>4, MessageFilled DEF FillsIn
<1> QED
  BY <1>3, <1>4, <1>5, <1>6, <1>7, <1>8 DEF ExpectIDs, BareIDs

LEMMA NameFilled ==
    ASSUME NEW found \in TokenKind
    PROVE  Unfilled([id |-> "ExpectedName",
                     args |-> [construct |-> Construct, found |-> found]]) = {}
<1> PICK args : args = [construct |-> Construct, found |-> found]
  OBVIOUS
<1>v. \A name \in DOMAIN args : args[name] \notin Placeholders
  BY KindsAreNoNames
<1>p. PICK a, b, x, y : a = "expected" /\ b = "name, found" /\ x = "construct" /\ y = "found"
  OBVIOUS
<1>t. messageFor("ExpectedName") = <<a, "{", x, "}", b, "{", y, "}">>
  BY <1>p, NameTemplate
<1>3. /\ a \notin Placeholders /\ a # "{"
      /\ b \notin Placeholders /\ b # "{"
      /\ x \in Placeholders /\ x \in DOMAIN args
      /\ y \in Placeholders /\ y \in DOMAIN args
  BY <1>p DEF Placeholders
<1>4. FillsIn(<<a, "{", x, "}", b, "{", y, "}">>, args)
  BY ONLY <1>v, <1>3, TwoBraced, Zenon
<1> QED
  BY <1>v, <1>t, <1>4, MessageFilled DEF FillsIn

LEMMA FoundInFilled ==
    ASSUME NEW found \in TokenKind, NEW diag \in {"ExpectedSemi", "ExpectedColon"}
    PROVE  Unfilled([id |-> diag, args |-> [context |-> Context, found |-> found]]) = {}
<1> PICK args : args = [context |-> Context, found |-> found]
  OBVIOUS
<1>v. \A name \in DOMAIN args : args[name] \notin Placeholders
  BY KindsAreNoNames
<1>1. PICK word : /\ word \in {";", ":"}
                  /\ messageFor(diag) =
                         <<"expected", word, "{", "context", "}", ", found", "{", "found", "}">>
  BY ContextTemplates
<1>p. PICK a, b, x, y : a = "expected" /\ b = ", found" /\ x = "context" /\ y = "found"
  OBVIOUS
<1>t. messageFor(diag) = <<a, word, "{", x, "}", b, "{", y, "}">>
  BY <1>1, <1>p
<1>3. /\ a \notin Placeholders /\ a # "{"
      /\ b \notin Placeholders /\ b # "{"
      /\ x \in Placeholders /\ x \in DOMAIN args
      /\ y \in Placeholders /\ y \in DOMAIN args
  BY <1>p DEF Placeholders
<1>w. word \notin Placeholders /\ word # "{"
  BY <1>1 DEF Placeholders
<1>4. FillsIn(<<a, word, "{", x, "}", b, "{", y, "}">>, args)
  BY ONLY <1>v, <1>3, <1>w, WordBraced, Zenon
<1> QED
  BY <1>v, <1>t, <1>4, MessageFilled DEF FillsIn

LEMMA FoundFilled ==
    ASSUME NEW found \in TokenKind
    PROVE  Unfilled([id |-> "ExpectedReturnTypeColon", args |-> [found |-> found]]) = {}
<1> PICK args : args = [found |-> found]
  OBVIOUS
<1>v. \A name \in DOMAIN args : args[name] \notin Placeholders
  BY KindsAreNoNames
<1>p. PICK a, x : a = "expected : for return type, found" /\ x = "found"
  OBVIOUS
<1>t. messageFor("ExpectedReturnTypeColon") = <<a, "{", x, "}">>
  BY <1>p, ReturnTypeTemplate
<1>3. /\ a \notin Placeholders /\ a # "{"
      /\ x \in Placeholders /\ x \in DOMAIN args
  BY <1>p DEF Placeholders
<1>4. FillsIn(<<a, "{", x, "}">>, args)
  BY ONLY <1>v, <1>3, OneBraced, Zenon
<1> QED
  BY <1>v, <1>t, <1>4, MessageFilled DEF FillsIn

\* What an unsafe block reports of its brace leaves a placeholder without a value.
SymbolsOf(text) == {text[k] : k \in DOMAIN text}

LEMMA OneMore ==
    ASSUME NEW S, NEW z \in S, NEW u \in Seq(S)
    PROVE  <<z>> \o u \in Seq(S) /\ SymbolsOf(<<z>> \o u) = {z} \cup SymbolsOf(u)
<1>t. PICK t : t = <<z>> \o u
  OBVIOUS
<1>1. /\ t \in Seq(S) /\ Len(t) = Len(u) + 1 /\ Len(u) \in Nat /\ t[1] = z
      /\ \A k \in 1..Len(u) : t[k + 1] = u[k]
      /\ DOMAIN t = 1..Len(t) /\ DOMAIN u = 1..Len(u)
  BY <1>t
<1>2. ASSUME NEW k \in DOMAIN t
      PROVE  t[k] \in {z} \cup SymbolsOf(u)
  <2>1. k = 1 \/ (k - 1 \in 1..Len(u) /\ k - 1 + 1 = k)
    BY <1>1
  <2>2. CASE k - 1 \in 1..Len(u) /\ k - 1 + 1 = k
    <3>1. t[k] = u[k - 1]
      BY <1>1, <2>2
    <3> QED
      BY <1>1, <2>2, <3>1 DEF SymbolsOf
  <2> QED
    BY <1>1, <2>1, <2>2
<1>3. z \in SymbolsOf(t)
  <2>1. 1 \in 1..Len(t)
    BY <1>1
  <2> QED
    BY <1>1, <2>1 DEF SymbolsOf
<1>4. ASSUME NEW k \in DOMAIN u
      PROVE  u[k] \in SymbolsOf(t)
  <2>1. k \in 1..Len(u) /\ k + 1 \in 1..Len(t)
    BY <1>1
  <2> QED
    BY <1>1, <2>1 DEF SymbolsOf
<1>5. SymbolsOf(t) \subseteq {z} \cup SymbolsOf(u)
  BY ONLY <1>2 DEF SymbolsOf
<1>6. SymbolsOf(u) \subseteq SymbolsOf(t)
  <2> PICK symbols : symbols = SymbolsOf(t)
    OBVIOUS
  <2>1. \A k \in DOMAIN u : u[k] \in symbols
    BY <1>4
  <2>2. SymbolsOf(u) \subseteq symbols
    BY ONLY <2>1 DEF SymbolsOf
  <2> QED
    BY <2>2
<1> QED
  BY <1>t, <1>1, <1>3, <1>5, <1>6

LEMMA LastThree ==
    ASSUME NEW S, NEW t \in Seq(S), Len(t) = 11
    PROVE  /\ SubSeq(t, 9, 11) \in Seq(S)
           /\ SymbolsOf(SubSeq(t, 9, 11)) = {t[9], t[10], t[11]}
<1>u. PICK u : u = SubSeq(t, 9, 11)
  OBVIOUS
<1>1. /\ u \in Seq(S) /\ Len(u) = 3 /\ \A k \in 1..3 : u[k] = t[9 + k - 1]
      /\ DOMAIN u = 1..3
  <2>0. PICK m, n : m = 9 /\ n = 11
    OBVIOUS
  <2>1. m \in Nat \ {0} /\ n \in Int /\ n <= Len(t) /\ u = SubSeq(t, m, n)
    BY <1>u, <2>0
  <2>2. /\ u \in Seq(S) /\ Len(u) = (IF n < m THEN 0 ELSE n - m + 1)
        /\ \A k \in 1..Len(u) : u[k] = t[m + k - 1]
    BY <2>1, SubSeqType
  <2> QED
    BY ONLY <2>0, <2>2
<1>2. u[1] = t[9] /\ u[2] = t[10] /\ u[3] = t[11] /\ 1..3 = {1, 2, 3}
  <2>1. 1 \in 1..3 /\ 2 \in 1..3 /\ 3 \in 1..3 /\ 9 + 1 - 1 = 9 /\ 9 + 2 - 1 = 10
        /\ 9 + 3 - 1 = 11 /\ 1..3 = {1, 2, 3}
    OBVIOUS
  <2> QED
    BY <1>1, <2>1
<1> QED
  BY <1>u, <1>1, <1>2 DEF SymbolsOf

\* A name in braces is followed by the text behind them.
BracedAt(t, args, f, i, j, k, l) ==
    f[i] = (IF t[j] \in DOMAIN args THEN <<args[t[j]]>> ELSE SubSeq(t, i, k)) \o f[l]

LEMMA BracedText ==
    ASSUME NEW S, NEW t \in Seq(S), NEW args, NEW f, RenderedBy(t, args, f, 1),
           NEW i \in 1..Len(t), NEW j \in 1..Len(t), NEW k \in 1..Len(t), NEW l,
           j = i + 1, k = i + 2, l = i + 3,
           Opens(t[i]), ~Closes(t[j]), Closes(t[k])
    PROVE  BracedAt(t, args, f, i, j, k, l)
<1>len. Len(t) \in Nat
  OBVIOUS
<1>1. /\ i \in 1..(Len(t) + 1) /\ ~(i = Len(t) + 1) /\ i \in Nat
      /\ k \in (i + 1)..Len(t) /\ k + 1 = l /\ k - 1 = j
  BY <1>len
<1>2. IsClosed(t, i)
  BY <1>1, ClosedBy
<1>3. EndOfName(t, i) = k
  <2>1. PICK d : d = EndOfName(t, i)
    OBVIOUS
  <2>2. /\ d \in (i + 1)..Len(t) /\ Closes(t[d])
        /\ \A m \in (i + 1)..(d - 1) : ~Closes(t[m])
    BY <1>len, <1>1, <1>2, <2>1, NameCloses
  <2>3. d # j /\ k \notin (i + 1)..(d - 1)
    BY <2>2
  <2>4. d = k
    BY ONLY <1>len, <1>1, <2>2, <2>3, j = i + 1, k = i + 2
  <2> QED
    BY <2>1, <2>4
<1>4. NameIn(t, i) = SubSeq(t, j, j)
  BY <1>1, <1>3 DEF NameIn
<1>5. Len(SubSeq(t, j, j)) = 1 /\ SubSeq(t, j, j)[1] = t[j]
  OBVIOUS
<1>6. HasValue(t, args, i) <=> t[j] \in DOMAIN args
  BY <1>4, <1>5 DEF HasValue
<1>7. f[i] = TextFrom(t, args, f, i)
  BY <1>1 DEF RenderedBy
<1>8. f[i] = (IF HasValue(t, args, i) THEN <<args[NameIn(t, i)[1]]>>
              ELSE SubSeq(t, i, EndOfName(t, i))) \o f[EndOfName(t, i) + 1]
  BY <1>len, <1>1, <1>2, <1>7, TextWays
<1> QED
  BY <1>1, <1>3, <1>4, <1>5, <1>6, <1>8 DEF BracedAt

\* Other symbols are copied, and behind the last one there is no text.
LEMMA OtherText ==
    ASSUME NEW S, NEW t \in Seq(S), NEW args, NEW f, RenderedBy(t, args, f, 1),
           NEW i \in 1..Len(t), NEW j, j = i + 1, ~Opens(t[i])
    PROVE  f[i] = <<t[i]>> \o f[j]
<1>1. Len(t) \in Nat /\ i \in 1..(Len(t) + 1) /\ ~(i = Len(t) + 1)
  OBVIOUS
<1>2. f[i] = TextFrom(t, args, f, i)
  BY <1>1 DEF RenderedBy
<1> QED
  BY <1>1, <1>2, TextWays

LEMMA NoText ==
    ASSUME NEW S, NEW t \in Seq(S), NEW args, NEW f, RenderedBy(t, args, f, 1),
           NEW i, i = Len(t) + 1
    PROVE  f[i] = <<>>
<1>1. Len(t) \in Nat /\ i \in 1..(Len(t) + 1) /\ i \notin 1..Len(t)
  OBVIOUS
<1>2. f[i] = TextFrom(t, args, f, i)
  BY <1>1 DEF RenderedBy
<1> QED
  BY <1>1, <1>2, TextWays

\* A template with three names, the last of which has no value.
ShowsThird(a, n, x, b, y, o, c, args) ==
    SymbolsOf(renderMessage(<<a, o, n, c, o, x, c, b, o, y, c>>, args))
        = {a, args[n], args[x], b, o, y, c}

LEMMA ThirdUnfilled ==
    ASSUME NEW a, NEW n, NEW x, NEW b, NEW y, NEW o, NEW c, NEW args,
           Opens(o), Closes(c), ~Opens(a), ~Opens(b),
           ~Closes(n), ~Closes(x), ~Closes(y),
           n \in DOMAIN args, x \in DOMAIN args, y \notin DOMAIN args
    PROVE  ShowsThird(a, n, x, b, y, o, c, args)
<1>m. PICK message : message = renderMessage(<<a, o, n, c, o, x, c, b, o, y, c>>, args)
  OBVIOUS
<1>t. PICK t : t = <<a, o, n, c, o, x, c, b, o, y, c>>
  OBVIOUS
<1>s. PICK S : S = {a, o, n, c, x, b, y, args[n], args[x]}
  OBVIOUS
<1>1. /\ t \in Seq(S) /\ Len(t) = 11
      /\ t[1] = a /\ t[2] = o /\ t[3] = n /\ t[4] = c /\ t[5] = o /\ t[6] = x
      /\ t[7] = c /\ t[8] = b /\ t[9] = o /\ t[10] = y /\ t[11] = c
  <2>1. /\ a \in S /\ o \in S /\ n \in S /\ c \in S /\ x \in S /\ b \in S /\ y \in S
    BY <1>s
  <2> QED
    BY ONLY <1>t, <2>1
<1>2. PICK f : message = f[1] /\ RenderedBy(t, args, f, 1)
  <2>1. Len(t) \in Nat
    BY ONLY <1>1
  <2> QED
    BY <1>m, <1>t, <2>1, RenderTexts
<1>3. /\ 1 \in 1..Len(t) /\ 2 \in 1..Len(t) /\ 3 \in 1..Len(t) /\ 4 \in 1..Len(t)
      /\ 5 \in 1..Len(t) /\ 6 \in 1..Len(t) /\ 7 \in 1..Len(t) /\ 8 \in 1..Len(t)
      /\ 9 \in 1..Len(t) /\ 10 \in 1..Len(t) /\ 11 \in 1..Len(t)
      /\ 2 = 1 + 1 /\ 3 = 2 + 1 /\ 4 = 2 + 2 /\ 5 = 2 + 3 /\ 6 = 5 + 1 /\ 7 = 5 + 2
      /\ 8 = 5 + 3 /\ 9 = 8 + 1 /\ 10 = 9 + 1 /\ 11 = 9 + 2 /\ 12 = 9 + 3
      /\ 12 = Len(t) + 1
  BY ONLY <1>1
<1>4. /\ Opens(t[2]) /\ ~Closes(t[3]) /\ Closes(t[4])
      /\ Opens(t[5]) /\ ~Closes(t[6]) /\ Closes(t[7])
      /\ Opens(t[9]) /\ ~Closes(t[10]) /\ Closes(t[11])
      /\ ~Opens(t[1]) /\ ~Opens(t[8])
      /\ t[3] \in DOMAIN args /\ t[6] \in DOMAIN args /\ t[10] \notin DOMAIN args
  BY <1>1
<1>7. f[12] = <<>>
  <2>1. t \in Seq(S) /\ RenderedBy(t, args, f, 1) /\ 12 = Len(t) + 1
    BY ONLY <1>1, <1>2
  <2> QED
    BY ONLY <2>1, NoText
<1>8. f[9] = SubSeq(t, 9, 11) \o f[12]
  <2>1. f[9] = (IF t[10] \in DOMAIN args THEN <<args[t[10]]>> ELSE SubSeq(t, 9, 11)) \o f[12]
    <3>1. /\ 9 \in 1..Len(t) /\ 10 \in 1..Len(t) /\ 11 \in 1..Len(t)
          /\ 10 = 9 + 1 /\ 11 = 9 + 2 /\ 12 = 9 + 3
      BY ONLY <1>3
    <3>2. Opens(t[9]) /\ ~Closes(t[10]) /\ Closes(t[11])
      BY ONLY <1>4
    <3>3. t \in Seq(S) /\ RenderedBy(t, args, f, 1)
      BY ONLY <1>1, <1>2
    <3>4. BracedAt(t, args, f, 9, 10, 11, 12)
      BY ONLY <3>1, <3>2, <3>3, BracedText, Zenon
    <3> QED
      BY ONLY <3>4 DEF BracedAt
  <2> QED
    BY <1>1, <1>4, <2>1
<1>9. f[8] = <<b>> \o f[9]
  <2>1. f[8] = <<t[8]>> \o f[9]
    <3>1. 8 \in 1..Len(t) /\ 9 = 8 + 1 /\ ~Opens(t[8])
      BY ONLY <1>3, <1>4
    <3>2. t \in Seq(S) /\ RenderedBy(t, args, f, 1)
      BY ONLY <1>1, <1>2
    <3> QED
      BY ONLY <3>1, <3>2, OtherText
  <2> QED
    BY <1>1, <2>1
<1>10. f[5] = <<args[x]>> \o f[8]
  <2>1. f[5] = (IF t[6] \in DOMAIN args THEN <<args[t[6]]>> ELSE SubSeq(t, 5, 7)) \o f[8]
    <3>1. /\ 5 \in 1..Len(t) /\ 6 \in 1..Len(t) /\ 7 \in 1..Len(t)
          /\ 6 = 5 + 1 /\ 7 = 5 + 2 /\ 8 = 5 + 3
      BY ONLY <1>3
    <3>2. Opens(t[5]) /\ ~Closes(t[6]) /\ Closes(t[7])
      BY ONLY <1>4
    <3>3. t \in Seq(S) /\ RenderedBy(t, args, f, 1)
      BY ONLY <1>1, <1>2
    <3>4. BracedAt(t, args, f, 5, 6, 7, 8)
      BY ONLY <3>1, <3>2, <3>3, BracedText, Zenon
    <3> QED
      BY ONLY <3>4 DEF BracedAt
  <2> QED
    BY <1>1, <1>4, <2>1
<1>11. f[2] = <<args[n]>> \o f[5]
  <2>1. f[2] = (IF t[3] \in DOMAIN args THEN <<args[t[3]]>> ELSE SubSeq(t, 2, 4)) \o f[5]
    <3>1. /\ 2 \in 1..Len(t) /\ 3 \in 1..Len(t) /\ 4 \in 1..Len(t)
          /\ 3 = 2 + 1 /\ 4 = 2 + 2 /\ 5 = 2 + 3
      BY ONLY <1>3
    <3>2. Opens(t[2]) /\ ~Closes(t[3]) /\ Closes(t[4])
      BY ONLY <1>4
    <3>3. t \in Seq(S) /\ RenderedBy(t, args, f, 1)
      BY ONLY <1>1, <1>2
    <3>4. BracedAt(t, args, f, 2, 3, 4, 5)
      BY ONLY <3>1, <3>2, <3>3, BracedText, Zenon
    <3> QED
      BY ONLY <3>4 DEF BracedAt
  <2> QED
    BY <1>1, <1>4, <2>1
<1>12. f[1] = <<a>> \o f[2]
  <2>1. f[1] = <<t[1]>> \o f[2]
    <3>1. 1 \in 1..Len(t) /\ 2 = 1 + 1 /\ ~Opens(t[1])
      BY ONLY <1>3, <1>4
    <3>2. t \in Seq(S) /\ RenderedBy(t, args, f, 1)
      BY ONLY <1>1, <1>2
    <3> QED
      BY ONLY <3>1, <3>2, OtherText
  <2> QED
    BY <1>1, <2>1
<1>13. f[9] \in Seq(S) /\ SymbolsOf(f[9]) = {o, y, c}
  <2>1. /\ SubSeq(t, 9, 11) \in Seq(S)
        /\ SymbolsOf(SubSeq(t, 9, 11)) = {t[9], t[10], t[11]}
    BY ONLY <1>1, LastThree
  <2>2. \A u \in Seq(S) : u \o <<>> = u
    OBVIOUS
  <2> QED
    BY <1>1, <1>7, <1>8, <2>1, <2>2
<1>14. args[n] \in S /\ args[x] \in S /\ a \in S /\ b \in S
  BY <1>s
<1>15. f[8] \in Seq(S) /\ SymbolsOf(f[8]) = {b, o, y, c}
  BY ONLY <1>9, <1>13, <1>14, OneMore
<1>16. f[5] \in Seq(S) /\ SymbolsOf(f[5]) = {args[x], b, o, y, c}
  BY ONLY <1>10, <1>14, <1>15, OneMore
<1>17. f[2] \in Seq(S) /\ SymbolsOf(f[2]) = {args[n], args[x], b, o, y, c}
  BY ONLY <1>11, <1>14, <1>16, OneMore
<1>18. SymbolsOf(f[1]) = {a, args[n], args[x], b, o, y, c}
  BY ONLY <1>12, <1>14, <1>17, OneMore
<1> QED
  BY <1>m, <1>2, <1>18 DEF ShowsThird

LEMMA UnsafeUnfilled ==
    Unfilled([id |-> "ExpectedOpen", args |-> [tok |-> "{", context |-> Context]]) = {"found"}
<1> PICK args : args = [tok |-> "{", context |-> Context]
  OBVIOUS
<1>1. PICK err : err = [id |-> "ExpectedOpen", args |-> args]
  OBVIOUS
<1>p. PICK a, n, x, b, y, o, c :
          /\ a = "expected" /\ n = "tok" /\ x = "context" /\ b = ", found" /\ y = "found"
          /\ o = "{" /\ c = "}"
  OBVIOUS
<1>2. messageFor("ExpectedOpen") = <<a, o, n, c, o, x, c, b, o, y, c>>
  BY <1>p, BraceTemplates
<1>3. /\ Opens(o) /\ Closes(c) /\ ~Opens(a) /\ ~Opens(b)
      /\ ~Closes(n) /\ ~Closes(x) /\ ~Closes(y)
  BY <1>p DEF Opens, Closes
<1>4. n \in DOMAIN args /\ x \in DOMAIN args /\ y \notin DOMAIN args
  BY <1>p
<1>v. args[n] = "{" /\ args[x] = Context
  BY <1>p
<1>5. PICK message : message = Rendered(err)
  OBVIOUS
<1>6. message = renderMessage(<<a, o, n, c, o, x, c, b, o, y, c>>, args)
  BY <1>1, <1>2, <1>5 DEF Rendered
<1>7. SymbolsOf(renderMessage(<<a, o, n, c, o, x, c, b, o, y, c>>, args))
          = {a, args[n], args[x], b, o, y, c}
  <2>1. ShowsThird(a, n, x, b, y, o, c, args)
    BY ONLY <1>3, <1>4, ThirdUnfilled, Zenon
  <2> QED
    BY ONLY <2>1 DEF ShowsThird
<1>8. {a, args[n], args[x], b, o, y, c} \cap Placeholders = {"found"}
  BY <1>p, <1>v, KindsAreNoNames DEF Placeholders
<1> QED
  BY <1>1, <1>5, <1>6, <1>7, <1>8 DEF Unfilled, SymbolsOf


\* What a report says is what it was given: the placeholders that no value was
\* given for are those that MessagesFilled allows.
Filled(toks, err) ==
    Unfilled(err) = IF /\ "unsafe" \in {toks[k] : k \in 1..(Len(toks) - 1)}
                       /\ err.id = "ExpectedOpen"
                       /\ "keyword" \notin DOMAIN err.args
                    THEN {"found"} ELSE {}

LEMMA BareFits ==
    ASSUME NEW toks, NEW diag \in BareIDs
    PROVE  Filled(toks, [id |-> diag, args |-> <<>>])
<1>1. Unfilled([id |-> diag, args |-> <<>>]) = {}
  <2>1. \A name \in DOMAIN <<>> : <<>>[name] \notin Placeholders
    OBVIOUS
  <2> QED
    BY <2>1, BareFilled
<1>2. diag # "ExpectedOpen"
  BY DEF BareIDs
<1> QED
  BY <1>1, <1>2 DEF Filled

LEMMA ExpectFits ==
    ASSUME NEW toks, NEW s, NEW kind \in TokenKind, NEW diag \in ExpectIDs,
           Peek(s) \in TokenKind
    PROVE  Filled(toks, [id |-> diag, args |-> ExpectArgs(s, kind, diag)])
<1>a. PICK args : args = ExpectArgs(s, kind, diag)
  OBVIOUS
<1>1. args = IF diag \in {"ExpectedOpen", "ExpectedClose", "ExpectedSemi",
                          "ExpectedColon", "ExpectedEq", "ExpectedIdentifier"}
             THEN [tok |-> kind, keyword |-> kind, found |-> Peek(s), context |-> Context]
             ELSE [tok |-> kind, keyword |-> kind, found |-> Peek(s)]
  BY <1>a DEF ExpectArgs
<1>2. Unfilled([id |-> diag, args |-> args]) = {}
  BY ONLY <1>1, Peek(s) \in TokenKind, kind \in TokenKind, diag \in ExpectIDs, ExpectFilled
<1>3. "keyword" \in DOMAIN args
  BY <1>1
<1> QED
  BY <1>a, <1>2, <1>3 DEF Filled

LEMMA FoundFits ==
    ASSUME NEW toks, NEW s, Peek(s) \in TokenKind
    PROVE  /\ Filled(toks, [id |-> "ExpectedName",
                            args |-> [construct |-> Construct, found |-> Peek(s)]])
           /\ Filled(toks, [id |-> "ExpectedSemi", args |-> FoundIn(s)])
           /\ Filled(toks, [id |-> "ExpectedColon", args |-> FoundIn(s)])
           /\ Filled(toks, [id |-> "ExpectedReturnTypeColon", args |-> Found(s)])
<1>1. Unfilled([id |-> "ExpectedName",
                args |-> [construct |-> Construct, found |-> Peek(s)]]) = {}
  BY NameFilled
<1>2. ASSUME NEW diag \in {"ExpectedSemi", "ExpectedColon"}
      PROVE  Unfilled([id |-> diag, args |-> FoundIn(s)]) = {} /\ diag # "ExpectedOpen"
  BY FoundInFilled DEF FoundIn
<1>3. Unfilled([id |-> "ExpectedReturnTypeColon", args |-> Found(s)]) = {}
  BY FoundFilled DEF Found
<1> QED
  BY <1>1, <1>2, <1>3 DEF Filled

LEMMA UnsafeFits ==
    ASSUME NEW toks, NEW k \in 1..(Len(toks) - 1), toks[k] = "unsafe"
    PROVE  Filled(toks, [id |-> "ExpectedOpen", args |-> [tok |-> "{", context |-> Context]])
<1>e. PICK err : err = [id |-> "ExpectedOpen", args |-> [tok |-> "{", context |-> Context]]
  OBVIOUS
<1>1. err.id = "ExpectedOpen" /\ "keyword" \notin DOMAIN err.args
  BY <1>e
<1>2. Unfilled(err) = {"found"}
  BY <1>e, UnsafeUnfilled
<1>3. "unsafe" \in {toks[i] : i \in 1..(Len(toks) - 1)}
  OBVIOUS
<1> QED
  BY <1>e, <1>1, <1>2, <1>3 DEF Filled

-----------------------------------------------------------------------------
(* Sound states.                                                           *)

\* A node's children stand in the flat array and were made before it.
Nodes(pool) == 1..(PoolSize(pool) - 1)

KidsBefore(pool, i) ==
    LET node == NodeAt(pool, i)
    IN  /\ node.begin + node.count <= Len(pool.children)
        /\ \A k \in 1..node.count :
               pool.children[node.begin + k] \in 1..(i - 1) \cup {NullNode}

\* The slices of the nodes lie one behind the other, and fill the array unless
\* some node may have more children than its count can tell.
Begin(pool, i) == NodeAt(pool, i).begin
End(pool, i) == NodeAt(pool, i).begin + NodeAt(pool, i).count
SlicesSound(pool) ==
    /\ \A i, j \in Nodes(pool) : i < j => End(pool, i) <= Begin(pool, j)
    /\ Len(pool.children) < CountLimit =>
           \A p \in DOMAIN pool.children :
               \E i \in Nodes(pool) : Begin(pool, i) < p /\ p <= End(pool, i)

PoolSound(pool) ==
    /\ pool \in Pool
    /\ PoolSize(pool) >= 1
    /\ Len(pool.spans) = PoolSize(pool)
    /\ \A i \in Nodes(pool) : KidsBefore(pool, i)
    /\ \A p \in DOMAIN pool.children : pool.children[p] \in Nodes(pool) \cup {NullNode}
    /\ SlicesSound(pool)

\* Every node has one place: it is the child of another, or a value that waits to
\* become one.
Among(i, q) == \E p \in DOMAIN q : q[p] = i
Distinct(q) == \A j, k \in DOMAIN q : q[j] = q[k] /\ q[j] # NullNode => j = k
Apart(q, r) == \A j \in DOMAIN q, k \in DOMAIN r : q[j] = r[k] => q[j] = NullNode
Unshared(q, r) == Distinct(q) /\ Distinct(r) /\ Apart(q, r)

\* Until something is reported no node is lost, and none stands for an error.
Lossless(s) ==
    s.errs = <<>> =>
        \A i \in Nodes(s.pool) :
            /\ NodeAt(s.pool, i).kind # "Error"
            /\ Among(i, s.pool.children) \/ Among(i, s.vals)

\* What the lexer gives: the indexes behind every float literal are known.
TokensSound(toks) ==
    /\ toks \in Seq(Token)
    /\ Len(toks) >= 1
    /\ toks[Len(toks)] = "eof"
    /\ \A i \in DOMAIN toks :
           Kind(toks[i]) = "float_literal" => toks[i] \in DOMAIN TupleIndexes

\* What was reported fits its message.
ErrsSound(s) == \A e \in DOMAIN s.errs : Filled(s.toks, s.errs[e])

Sound ==
    {s \in State :
        /\ TokensSound(s.toks)
        /\ s.pos <= Len(s.toks)
        /\ ~s.stuck
        /\ PoolSound(s.pool)
        /\ \A v \in DOMAIN s.vals : s.vals[v] \in Nodes(s.pool) \cup {NullNode}
        /\ Unshared(s.pool.children, s.vals)
        /\ Lossless(s)
        /\ ErrsSound(s)}

\* What a production may do to the state s if it leaves the first m values alone:
\* it goes forward, reports and makes nodes.
After(s, m) ==
    {t \in Sound :
        /\ t.toks = s.toks
        /\ s.pos <= t.pos
        /\ Len(s.errs) <= Len(t.errs)
        /\ PoolSize(s.pool) <= PoolSize(t.pool)
        /\ m <= Len(t.vals)
        /\ \A v \in 1..m : t.vals[v] = s.vals[v]}

\* It adds values, none, exactly one (a node), or replaces the last one by another.
Adds(s) == After(s, Mark(s))
Moves(s) == {t \in Adds(s) : t.vals = s.vals}
OnNode(s) == s.vals # <<>> /\ Top(s) \in Nodes(s.pool)
Yields(s) == {t \in Adds(s) : Mark(t) = Mark(s) + 1 /\ OnNode(t)}
Wraps(s) == {t \in After(s, Mark(s) - 1) : Mark(t) = Mark(s) /\ OnNode(t)}

LEMMA SoundFields ==
    ASSUME NEW s \in Sound
    PROVE  /\ s \in State /\ ~s.stuck /\ s.stuck \in BOOLEAN
           /\ s.toks \in Seq(Token) /\ Len(s.toks) \in Nat \ {0}
           /\ s.pos \in 0..Len(s.toks) /\ s.pos \in Nat
           /\ s.pool \in Pool /\ PoolSound(s.pool) /\ TokensSound(s.toks)
           /\ s.vals \in Seq(Nat \cup {NullNode}) /\ Mark(s) \in Nat
           /\ s.errs \in Seq(Report) /\ Len(s.errs) \in Nat
           /\ s.allow \in BOOLEAN
<1>1. s \in State /\ TokensSound(s.toks) /\ PoolSound(s.pool) /\ ~s.stuck
  BY DEF Sound
<1>2. /\ s.toks \in Seq(Token) /\ s.pos \in Nat /\ s.pool \in Pool
      /\ s.vals \in Seq(Nat \cup {NullNode}) /\ s.stuck \in BOOLEAN
      /\ s.errs \in Seq(Report) /\ s.allow \in BOOLEAN
  BY <1>1 DEF State
<1>3. s.pos <= Len(s.toks) /\ Len(s.toks) >= 1
  BY DEF Sound, TokensSound
<1>4. Len(s.toks) \in Nat /\ Len(s.vals) \in Nat /\ Len(s.errs) \in Nat
  BY <1>2
<1> QED
  BY <1>1, <1>2, <1>3, <1>4 DEF Mark

LEMMA PoolFields ==
    ASSUME NEW pool, PoolSound(pool)
    PROVE  /\ pool.nodes \in Seq(NodeRecord)
           /\ pool.children \in Seq(Nat \cup {NullNode}) /\ Len(pool.children) \in Nat
           /\ pool.spans \in Seq(Nat \X Nat)
           /\ Len(pool.nodes) = Len(pool.spans) /\ Len(pool.nodes) \in Nat \ {0}
           /\ PoolSize(pool) = Len(pool.nodes)
<1>1. pool \in Pool /\ PoolSize(pool) >= 1 /\ Len(pool.spans) = PoolSize(pool)
  BY DEF PoolSound
<1>2. /\ pool.nodes \in Seq(NodeRecord)
      /\ pool.children \in Seq(Nat \cup {NullNode})
      /\ pool.spans \in Seq(Nat \X Nat)
  BY <1>1 DEF Pool
<1>3. Len(pool.nodes) \in Nat /\ Len(pool.children) \in Nat
  BY <1>2
<1> QED
  BY <1>1, <1>2, <1>3 DEF PoolSize

LEMMA SameErrs ==
    ASSUME NEW s \in Sound, NEW t, t.toks = s.toks, t.errs = s.errs
    PROVE  ErrsSound(t)
BY DEF Sound, ErrsSound

\* Soundness of a state that differs from another in where it is, what it has
\* reported and whether struct literals are allowed.
LEMMA SoundExcept ==
    ASSUME NEW s \in Sound, NEW t \in State,
           t.toks = s.toks, t.pos <= Len(s.toks), t.pool = s.pool, t.vals = s.vals,
           t.stuck = s.stuck, s.pos <= t.pos, Len(s.errs) <= Len(t.errs),
           t.errs = s.errs \/ ErrsSound(t)
    PROVE  t \in Moves(s)
<1>0. ErrsSound(t)
  BY SameErrs
<1>4. Lossless(t)
  <2>1. s.errs \in Seq(Report) /\ t.errs \in Seq(Report)
    BY DEF Sound, State
  <2>2. t.errs = <<>> => s.errs = <<>>
    BY <2>1
  <2> QED
    BY <2>2 DEF Sound, Lossless
<1>1. t \in Sound
  BY <1>0, <1>4 DEF Sound
<1>2. Mark(s) = Len(t.vals) /\ Mark(s) \in Nat
  BY SoundFields DEF Mark
<1>3. PoolSize(s.pool) <= PoolSize(t.pool)
  BY SoundFields, PoolFields
<1> QED
  BY <1>1, <1>2, <1>3 DEF Moves, Adds, After

-----------------------------------------------------------------------------
(* Productions one after the other.                                        *)

LEMMA Onward ==
    ASSUME NEW s \in Sound, NEW m \in Nat, NEW t \in After(s, m)
    PROVE  /\ t \in Sound /\ t.toks = s.toks
           /\ s.pos \in Nat /\ t.pos \in Nat /\ s.pos <= t.pos
           /\ Len(s.errs) \in Nat /\ Len(t.errs) \in Nat /\ Len(s.errs) <= Len(t.errs)
           /\ PoolSize(s.pool) <= PoolSize(t.pool)
           /\ Mark(t) \in Nat /\ m <= Mark(t)
<1>1. t \in Sound
  BY DEF After
<1> QED
  BY <1>1, SoundFields DEF After, Mark

LEMMA Itself ==
    ASSUME NEW s \in Sound
    PROVE  s \in Moves(s) /\ s \in Adds(s)
<1>1. Len(s.toks) \in Nat /\ s.pos \in Nat /\ s.pos <= Len(s.toks) /\ Len(s.errs) \in Nat
  BY SoundFields
<1>2. s \in Moves(s)
  BY <1>1, SoundFields, SoundExcept
<1> QED
  BY <1>2 DEF Moves

LEMMA AfterAfter ==
    ASSUME NEW s \in Sound, NEW m \in Nat, NEW n \in Nat, n <= m,
           NEW t \in After(s, m), NEW u \in After(t, n)
    PROVE  u \in After(s, n)
<1>1. t \in Sound /\ u \in Sound /\ u.toks = s.toks
  BY DEF After
<1>2. s.pos <= u.pos /\ Len(s.errs) <= Len(u.errs)
  BY <1>1, Onward
<1>3. PoolSize(s.pool) <= PoolSize(u.pool)
  <2>1. /\ PoolSize(s.pool) \in Nat /\ PoolSize(t.pool) \in Nat
        /\ PoolSize(u.pool) \in Nat
    BY <1>1, SoundFields, PoolFields
  <2> QED
    BY <2>1 DEF After
<1>4. n <= Len(u.vals) /\ \A v \in 1..n : u.vals[v] = s.vals[v]
  <2>1. \A v \in 1..n : v \in 1..m
    OBVIOUS
  <2> QED
    BY <2>1 DEF After
<1> QED
  BY <1>1, <1>2, <1>3, <1>4 DEF After

LEMMA AddsAdds ==
    ASSUME NEW s \in Sound, NEW t \in Adds(s), NEW u \in Adds(t)
    PROVE  u \in Adds(s)
<1>1. t \in Sound /\ Mark(s) \in Nat /\ Mark(t) \in Nat /\ Mark(s) <= Mark(t)
  BY SoundFields, Onward DEF Adds
<1>2. u \in After(t, Mark(s))
  <2>1. \A v \in 1..Mark(s) : v \in 1..Mark(t)
    BY <1>1
  <2>2. u \in Sound /\ Len(u.vals) \in Nat
    BY <1>1, Onward DEF Adds, Mark
  <2> QED
    BY <1>1, <2>1, <2>2 DEF Adds, After
<1> QED
  BY <1>1, <1>2, AfterAfter DEF Adds

LEMMA MovesAdds ==
    ASSUME NEW s \in Sound, NEW t \in Moves(s)
    PROVE  /\ t \in Sound /\ t \in Adds(s) /\ t.vals = s.vals /\ Mark(t) = Mark(s)
           /\ t.toks = s.toks /\ s.pos \in Nat /\ t.pos \in Nat /\ s.pos <= t.pos
           /\ Len(s.errs) \in Nat /\ Len(t.errs) \in Nat /\ Len(s.errs) <= Len(t.errs)
BY SoundFields, Onward DEF Moves, Adds, Mark

LEMMA MovesMoves ==
    ASSUME NEW s \in Sound, NEW t \in Moves(s), NEW u \in Moves(t)
    PROVE  u \in Moves(s)
BY MovesAdds, AddsAdds DEF Moves

LEMMA YieldsAdds ==
    ASSUME NEW s \in Sound, NEW t \in Yields(s)
    PROVE  /\ t \in Sound /\ t \in Adds(s) /\ Mark(t) = Mark(s) + 1 /\ OnNode(t)
           /\ t.toks = s.toks /\ s.pos \in Nat /\ t.pos \in Nat /\ s.pos <= t.pos
           /\ Len(s.errs) \in Nat /\ Len(t.errs) \in Nat /\ Len(s.errs) <= Len(t.errs)
BY SoundFields, Onward DEF Yields, Adds

LEMMA MovesYields ==
    ASSUME NEW s \in Sound, NEW t \in Moves(s), NEW u \in Yields(t)
    PROVE  u \in Yields(s)
BY MovesAdds, YieldsAdds, AddsAdds DEF Yields

LEMMA OnNodeStays ==
    ASSUME NEW s \in Sound, OnNode(s), NEW t \in Moves(s)
    PROVE  OnNode(t) /\ Top(t) = Top(s)
<1>1. t.vals = s.vals /\ PoolSize(s.pool) <= PoolSize(t.pool) /\ t \in Sound
  BY DEF Moves, Adds, After
<1>2. PoolSize(s.pool) \in Nat /\ PoolSize(t.pool) \in Nat
  BY <1>1, SoundFields, PoolFields
<1> QED
  BY <1>1, <1>2 DEF OnNode, Top, Nodes

LEMMA YieldsMoves ==
    ASSUME NEW s \in Sound, NEW t \in Yields(s), NEW u \in Moves(t)
    PROVE  u \in Yields(s)
BY MovesAdds, YieldsAdds, AddsAdds, OnNodeStays DEF Yields

LEMMA WrapsFacts ==
    ASSUME NEW s \in Sound, OnNode(s), NEW t \in Wraps(s)
    PROVE  /\ Mark(s) - 1 \in Nat /\ t \in Sound /\ Mark(t) = Mark(s) /\ OnNode(t)
           /\ t.toks = s.toks /\ s.pos \in Nat /\ t.pos \in Nat /\ s.pos <= t.pos
           /\ Len(s.errs) \in Nat /\ Len(t.errs) \in Nat /\ Len(s.errs) <= Len(t.errs)
<1>1. Mark(s) - 1 \in Nat
  BY SoundFields DEF OnNode, Mark
<1> QED
  BY <1>1, Onward DEF Wraps

LEMMA WrapsWraps ==
    ASSUME NEW s \in Sound, OnNode(s), NEW t \in Wraps(s), NEW u \in Wraps(t)
    PROVE  u \in Wraps(s)
BY WrapsFacts, AfterAfter DEF Wraps

LEMMA YieldsWraps ==
    ASSUME NEW s \in Sound, NEW t \in Yields(s), NEW u \in Wraps(t)
    PROVE  u \in Yields(s)
<1>1. Mark(t) - 1 = Mark(s) /\ Mark(s) \in Nat
  BY YieldsAdds, SoundFields
<1>2. u \in After(s, Mark(s))
  BY <1>1, YieldsAdds, AfterAfter DEF Wraps, Adds
<1> QED
  BY <1>1, <1>2, YieldsAdds, WrapsFacts DEF Yields, Adds

\* What follows the operand, with the operand below it.
LEMMA AddsBelow ==
    ASSUME NEW s \in Sound, OnNode(s), NEW t \in Adds(s)
    PROVE  t \in After(s, Mark(s) - 1) /\ Mark(s) - 1 \in Nat
<1>1. Mark(s) - 1 \in Nat
  BY SoundFields DEF OnNode, Mark
<1>2. /\ t \in Sound /\ Len(t.vals) \in Nat
      /\ \A v \in 1..(Mark(s) - 1) : v \in 1..Mark(s)
  BY <1>1, Onward, SoundFields DEF Adds, Mark
<1>3. Mark(s) \in Nat /\ Mark(s) <= Len(t.vals)
  BY SoundFields DEF Adds, After
<1>4. Mark(s) - 1 <= Len(t.vals)
  BY <1>1, <1>2, <1>3
<1> QED
  BY <1>1, <1>2, <1>4 DEF Adds, After

LEMMA MovesWraps ==
    ASSUME NEW s \in Sound, OnNode(s), NEW t \in Moves(s)
    PROVE  t \in Wraps(s)
BY MovesAdds, OnNodeStays, AddsBelow DEF Wraps

-----------------------------------------------------------------------------
(* The cursor, diagnostics and recovery.                                   *)

LEMMA KindType ==
    ASSUME NEW t \in Token
    PROVE  Kind(t) \in TokenKind
<1>1. CASE t \in Identifiers
  BY <1>1 DEF Kind, TokenKind
<1>2. CASE t \notin Identifiers /\ t \in DOMAIN LiteralKind
  <2>1. Kind(t) = LiteralKind[t] /\ LiteralKind[t] \in LiteralKinds
    BY <1>2, VocabularyAssumption DEF Kind
  <2> QED
    BY <2>1 DEF TokenKind
<1>3. CASE t \notin Identifiers /\ t \notin DOMAIN LiteralKind
  BY <1>3 DEF Kind, Token, TokenKind
<1> QED
  BY <1>1, <1>2, <1>3

LEMMA PeekType ==
    ASSUME NEW s \in Sound, NEW n \in Nat
    PROVE  PeekAt(s, n) \in TokenKind
<1>1. s.toks \in Seq(Token) /\ s.pos \in Nat /\ Len(s.toks) \in Nat
  BY SoundFields
<1>2. CASE s.pos + n < Len(s.toks)
  <2>1. s.pos + n + 1 \in 1..Len(s.toks)
    BY <1>1, <1>2
  <2>2. s.toks[s.pos + n + 1] \in Token
    BY <1>1, <2>1
  <2> QED
    BY <1>2, <2>2, KindType DEF PeekAt
<1>3. CASE ~(s.pos + n < Len(s.toks))
  <2>1. PeekAt(s, n) = "eof"
    BY <1>3 DEF PeekAt
  <2> QED
    BY <2>1 DEF TokenKind, Fixed
<1> QED
  BY <1>2, <1>3

\* A token other than the end is before the end.
LEMMA PeekHere ==
    ASSUME NEW s \in Sound, Peek(s) # "eof"
    PROVE  /\ s.pos + 1 \in 1..(Len(s.toks) - 1)
           /\ Peek(s) = Kind(s.toks[s.pos + 1])
<1>1. /\ s.toks \in Seq(Token) /\ s.pos \in Nat /\ Len(s.toks) \in Nat \ {0}
      /\ TokensSound(s.toks)
  BY SoundFields
<1>2. s.pos < Len(s.toks) /\ Peek(s) = Kind(s.toks[s.pos + 1])
  BY <1>1 DEF Peek, PeekAt
<1>3. Kind("eof") = "eof"
  BY VocabularyAssumption DEF Kind
<1>4. s.pos + 1 # Len(s.toks)
  BY <1>1, <1>2, <1>3 DEF TokensSound
<1> QED
  BY <1>1, <1>2, <1>4

LEMMA AdvanceFacts ==
    ASSUME NEW s \in Sound
    PROVE  /\ Advance(s) \in Moves(s)
           /\ Advance(s).pos = (IF s.pos < Len(s.toks) THEN s.pos + 1 ELSE s.pos)
           /\ Advance(s).errs = s.errs
           /\ Peek(s) # "eof" => Advance(s).pos = s.pos + 1
<1> DEFINE t == Advance(s)
<1>1. /\ s \in State /\ s.pos \in Nat /\ Len(s.toks) \in Nat /\ s.pos <= Len(s.toks)
      /\ Len(s.errs) \in Nat
  BY SoundFields
<1>2. t = [s EXCEPT !.pos = IF s.pos < Len(s.toks) THEN s.pos + 1 ELSE s.pos]
  BY DEF Advance
<1>3. t \in State
  BY <1>1, <1>2 DEF State
<1>4. /\ t.pos = IF s.pos < Len(s.toks) THEN s.pos + 1 ELSE s.pos
      /\ t.toks = s.toks /\ t.pool = s.pool /\ t.vals = s.vals /\ t.stuck = s.stuck
      /\ t.errs = s.errs
  BY <1>1, <1>2 DEF State
<1>5. t.pos <= Len(s.toks) /\ s.pos <= t.pos /\ Len(s.errs) <= Len(t.errs)
  BY <1>1, <1>4
<1> HIDE DEF t
<1>6. t \in Moves(s)
  BY <1>3, <1>4, <1>5, SoundExcept
<1>7. Peek(s) # "eof" => s.pos < Len(s.toks)
  BY <1>1 DEF Peek, PeekAt
<1> QED
  BY <1>4, <1>6, <1>7 DEF t

LEMMA ConsumeFacts ==
    ASSUME NEW s \in Sound, NEW kind
    PROVE  /\ Consume(s, kind) \in Moves(s)
           /\ Consume(s, kind).errs = s.errs
           /\ Check(s, kind) /\ kind # "eof" => Consume(s, kind).pos = s.pos + 1
BY AdvanceFacts, Itself DEF Consume, Check

LEMMA DiagFacts ==
    ASSUME NEW s \in Sound, NEW diag \in DiagID, NEW args \in Args,
           Filled(s.toks, [id |-> diag, args |-> args])
    PROVE  /\ DiagWith(s, diag, args) \in Moves(s)
           /\ DiagWith(s, diag, args).pos = s.pos
           /\ Len(DiagWith(s, diag, args).errs) = Len(s.errs) + 1
<1> DEFINE t == DiagWith(s, diag, args)
<1>1. /\ s \in State /\ s.pos \in Nat /\ Len(s.toks) \in Nat /\ s.pos <= Len(s.toks)
      /\ s.errs \in Seq(Report) /\ Len(s.errs) \in Nat
  <2>1. s \in State /\ s.pos \in Nat /\ Len(s.toks) \in Nat /\ s.pos <= Len(s.toks)
    BY SoundFields
  <2> QED
    BY <2>1, SoundFields
<1>2. PICK errs : errs = Append(s.errs, [id |-> diag, args |-> args])
  OBVIOUS
<1>3. errs \in Seq(Report) /\ Len(errs) = Len(s.errs) + 1
  <2>1. [id |-> diag, args |-> args] \in Report
    BY DEF Report
  <2> QED
    BY <1>1, <1>2, <2>1
<1>4. t = [s EXCEPT !.errs = errs]
  BY <1>2 DEF DiagWith
<1>5. t \in State
  BY <1>1, <1>3, <1>4 DEF State
<1>6. /\ t.toks = s.toks /\ t.pool = s.pool /\ t.vals = s.vals /\ t.stuck = s.stuck
      /\ t.errs = errs /\ t.pos = s.pos
  BY <1>1, <1>4 DEF State
<1>7. t.pos <= Len(s.toks) /\ s.pos <= t.pos /\ Len(s.errs) <= Len(t.errs)
  BY <1>1, <1>3, <1>6
<1>9. ErrsSound(t)
  <2>1. ASSUME NEW e \in DOMAIN errs
        PROVE  Filled(s.toks, errs[e])
    <3>1. \/ e \in DOMAIN s.errs /\ errs[e] = s.errs[e]
          \/ errs[e] = [id |-> diag, args |-> args]
      BY <1>1, <1>2
    <3>2. \A n \in DOMAIN s.errs : Filled(s.toks, s.errs[n])
      BY DEF Sound, ErrsSound
    <3> QED
      BY <3>1, <3>2
  <2> QED
    BY <1>6, <2>1 DEF ErrsSound
<1> HIDE DEF t
<1>8. t \in Moves(s)
  BY <1>5, <1>6, <1>7, <1>9, SoundExcept
<1> QED
  BY <1>3, <1>6, <1>8 DEF t

LEMMA ArgsTypes ==
    /\ <<>> \in Args
    /\ \A x \in TokenKind : [found |-> x] \in Args
    /\ \A x \in TokenKind : [construct |-> Construct, found |-> x] \in Args
    /\ \A x \in TokenKind : [context |-> Context, found |-> x] \in Args
    /\ \A x \in TokenKind : [tok |-> x, context |-> Context] \in Args
    /\ \A x, y \in TokenKind : [tok |-> x, keyword |-> x, found |-> y] \in Args
    /\ \A x, y \in TokenKind :
           [tok |-> x, keyword |-> x, found |-> y, context |-> Context] \in Args
<1>1. <<>> \in Args
  BY DEF Args
<1>2. ASSUME NEW x \in TokenKind PROVE [found |-> x] \in Args
  <2>1. [found |-> x] \in [found : TokenKind]
    OBVIOUS
  <2> QED
    BY <2>1 DEF Args
<1>3. ASSUME NEW x \in TokenKind PROVE [construct |-> Construct, found |-> x] \in Args
  <2>1. [construct |-> Construct, found |-> x] \in [construct : {Construct}, found : TokenKind]
    OBVIOUS
  <2> QED
    BY <2>1 DEF Args
<1>4. ASSUME NEW x \in TokenKind PROVE [context |-> Context, found |-> x] \in Args
  <2>1. [context |-> Context, found |-> x] \in [context : {Context}, found : TokenKind]
    OBVIOUS
  <2> QED
    BY <2>1 DEF Args
<1>5. ASSUME NEW x \in TokenKind PROVE [tok |-> x, context |-> Context] \in Args
  <2>1. [tok |-> x, context |-> Context] \in [tok : TokenKind, context : {Context}]
    OBVIOUS
  <2> QED
    BY <2>1 DEF Args
<1>6. ASSUME NEW x \in TokenKind, NEW y \in TokenKind
      PROVE  [tok |-> x, keyword |-> x, found |-> y] \in Args
  <2>1. [tok |-> x, keyword |-> x, found |-> y]
            \in [tok : TokenKind, keyword : TokenKind, found : TokenKind]
    OBVIOUS
  <2> QED
    BY <2>1 DEF Args
<1>7. ASSUME NEW x \in TokenKind, NEW y \in TokenKind
      PROVE  [tok |-> x, keyword |-> x, found |-> y, context |-> Context] \in Args
  <2>1. [tok |-> x, keyword |-> x, found |-> y, context |-> Context]
            \in [tok : TokenKind, keyword : TokenKind, found : TokenKind, context : {Context}]
    OBVIOUS
  <2> QED
    BY <2>1 DEF Args
<1> QED
  BY <1>1, <1>2, <1>3, <1>4, <1>5, <1>6, <1>7

LEMMA PlainDiag ==
    ASSUME NEW s \in Sound, NEW diag \in BareIDs
    PROVE  /\ Diag(s, diag) \in Moves(s)
           /\ Diag(s, diag).pos = s.pos
           /\ Len(Diag(s, diag).errs) = Len(s.errs) + 1
<1>1. <<>> \in Args
  BY ArgsTypes
<1>2. diag \in DiagID /\ Filled(s.toks, [id |-> diag, args |-> <<>>])
  BY BareFits DEF BareIDs
<1> QED
  BY <1>1, <1>2, DiagFacts DEF Diag

\* What is reported stays reported.
LEMMA Reported ==
    ASSUME NEW s \in Sound
    PROVE  /\ \A diag, args : DiagWith(s, diag, args).errs # <<>>
           /\ \A diag : Diag(s, diag).errs # <<>>
           /\ NameMissing(s).errs # <<>>
           /\ \A t \in Adds(s) : s.errs # <<>> => t.errs # <<>>
<1>1. s \in State /\ s.errs \in Seq(Report)
  BY SoundFields
<1>2. ASSUME NEW diag, NEW args PROVE DiagWith(s, diag, args).errs # <<>>
  <2>1. PICK errs : errs = Append(s.errs, [id |-> diag, args |-> args])
    OBVIOUS
  <2>2. errs # <<>>
    BY <1>1, <2>1
  <2>3. DiagWith(s, diag, args) = [s EXCEPT !.errs = errs]
    BY <2>1 DEF DiagWith
  <2>4. DiagWith(s, diag, args).errs = errs
    BY <1>1, <2>3 DEF State
  <2> QED
    BY <2>2, <2>4
<1>3. ASSUME NEW t \in Adds(s), s.errs # <<>> PROVE t.errs # <<>>
  <2>1. t.errs \in Seq(Report) /\ Len(s.errs) <= Len(t.errs)
    BY SoundFields DEF Adds, After
  <2> QED
    BY <1>1, <1>3, <2>1
<1> QED
  BY <1>2, <1>3 DEF Diag, NameMissing

LEMMA FoundDiag ==
    ASSUME NEW s \in Sound
    PROVE  /\ Found(s) \in Args /\ FoundIn(s) \in Args
           /\ [construct |-> Construct, found |-> Peek(s)] \in Args
<1>1. Peek(s) \in TokenKind
  BY PeekType DEF Peek
<1> QED
  BY <1>1, ArgsTypes DEF Found, FoundIn

LEMMA FoundHereFits ==
    ASSUME NEW s \in Sound
    PROVE  /\ Filled(s.toks, [id |-> "ExpectedName",
                              args |-> [construct |-> Construct, found |-> Peek(s)]])
           /\ Filled(s.toks, [id |-> "ExpectedSemi", args |-> FoundIn(s)])
           /\ Filled(s.toks, [id |-> "ExpectedColon", args |-> FoundIn(s)])
           /\ Filled(s.toks, [id |-> "ExpectedReturnTypeColon", args |-> Found(s)])
<1>1. Peek(s) \in TokenKind
  BY PeekType DEF Peek
<1> QED
  BY <1>1, FoundFits

\* What is expected is consumed or reported.
LEMMA ExpectFacts ==
    ASSUME NEW s \in Sound, NEW kind \in TokenKind, NEW diag \in ExpectIDs
    PROVE  /\ Expect(s, kind, diag) \in Moves(s)
           /\ Check(s, kind) /\ kind # "eof" => Expect(s, kind, diag).pos = s.pos + 1
           /\ ~Check(s, kind) => /\ Expect(s, kind, diag).pos = s.pos
                                 /\ Len(Expect(s, kind, diag).errs) = Len(s.errs) + 1
<1>1. CASE Check(s, kind)
  BY <1>1, AdvanceFacts DEF Expect, Check
<1>2. CASE ~Check(s, kind)
  <2>1. ExpectArgs(s, kind, diag) \in Args
    <3>1. Peek(s) \in TokenKind
      BY PeekType DEF Peek
    <3> QED
      BY <3>1, ArgsTypes DEF ExpectArgs
  <2>2. Filled(s.toks, [id |-> diag, args |-> ExpectArgs(s, kind, diag)])
    <3>1. Peek(s) \in TokenKind
      BY PeekType DEF Peek
    <3> QED
      BY <3>1, ExpectFits
  <2>3. diag \in DiagID
    BY DEF ExpectIDs
  <2> QED
    BY <1>2, <2>1, <2>2, <2>3, DiagFacts DEF Expect
<1> QED
  BY <1>1, <1>2

LEMMA NameMissingFacts ==
    ASSUME NEW s \in Sound
    PROVE  /\ NameMissing(s) \in Moves(s) /\ NameMissing(s).pos = s.pos
           /\ Len(NameMissing(s).errs) = Len(s.errs) + 1
<1>1. "ExpectedName" \in DiagID
  BY DEF DiagID
<1>2. [construct |-> Construct, found |-> Peek(s)] \in Args
  BY FoundDiag
<1>3. Filled(s.toks, [id |-> "ExpectedName",
                      args |-> [construct |-> Construct, found |-> Peek(s)]])
  BY FoundHereFits
<1> QED
  BY <1>1, <1>2, <1>3, DiagFacts DEF NameMissing

LEMMA ExpectNameFacts ==
    ASSUME NEW s \in Sound
    PROVE  ExpectName(s) \in Moves(s)
BY AdvanceFacts, NameMissingFacts DEF ExpectName

LEMMA ExpectSemiFacts ==
    ASSUME NEW s \in Sound
    PROVE  ExpectSemi(s) \in Moves(s)
<1>1. "ExpectedSemi" \in DiagID
  BY DEF DiagID
<1>2. FoundIn(s) \in Args
  BY FoundDiag
<1>3. Filled(s.toks, [id |-> "ExpectedSemi", args |-> FoundIn(s)])
  BY FoundHereFits
<1> QED
  <2>1. DiagWith(s, "ExpectedSemi", FoundIn(s)) \in Moves(s)
    BY <1>1, <1>2, <1>3, DiagFacts
  <2> QED
    BY <2>1, AdvanceFacts DEF ExpectSemi

LEMMA SkipRegimeFacts ==
    ASSUME NEW s \in Sound
    PROVE  SkipRegime(s) \in Moves(s)
BY AdvanceFacts, Itself DEF SkipRegime

\* Loops that only move.
LEMMA WhileMoves ==
    ASSUME NEW s \in Sound, NEW goesOn, NEW round,
           \A t \in Moves(s) : goesOn[t] => /\ round[t] \in Moves(t)
                                            /\ round[t].pos > t.pos
    PROVE  /\ While(s, goesOn, round) \in Moves(s)
           /\ ~goesOn[While(s, goesOn, round)]
<1>1. Moves(s) \in SUBSET State
  BY MovesAdds DEF Sound
<1>2. s \in Moves(s)
  BY Itself
<1>3. \A t \in Moves(s) : t.toks = s.toks /\ t.pos \in 0..Len(s.toks) /\ ~t.stuck
  BY MovesAdds, SoundFields
<1>4. \A t \in Moves(s) : goesOn[t] => round[t] \in Moves(s) /\ round[t].pos > t.pos
  BY MovesMoves, MovesAdds
<1> QED
  BY <1>1, <1>2, <1>3, <1>4, WhileRule

\* The same for loops whose rounds may leave values.
LEMMA WhileAdds ==
    ASSUME NEW s \in Sound, NEW goesOn, NEW round, NEW u \in Adds(s),
           \A t \in Adds(s) : goesOn[t] /\ u.pos <= t.pos =>
               round[t] \in Adds(t) /\ round[t].pos > t.pos
    PROVE  /\ While(u, goesOn, round) \in Adds(s)
           /\ While(u, goesOn, round) \in Sound
           /\ u.pos <= While(u, goesOn, round).pos
           /\ ~goesOn[While(u, goesOn, round)]
<1> DEFINE I == {t \in Adds(s) : u.pos <= t.pos}
<1>0. s.pos \in Nat /\ u.pos \in Nat /\ Mark(s) \in Nat /\ u.toks = s.toks
  BY SoundFields, Onward DEF Adds
<1>1. I \in SUBSET State
  BY DEF Adds, After, Sound
<1>2. u \in I
  BY <1>0
<1>3. \A t \in I : t.toks = u.toks /\ t.pos \in 0..Len(u.toks) /\ ~t.stuck
  BY <1>0, Onward, SoundFields DEF Adds
<1>4. ASSUME NEW t \in I, goesOn[t]
      PROVE  round[t] \in I /\ round[t].pos > t.pos
  <2>1. t \in Sound /\ round[t] \in Adds(t) /\ round[t].pos > t.pos
    BY <1>0, <1>4, Onward DEF Adds
  <2>2. round[t] \in Adds(s)
    BY <2>1, AddsAdds
  <2>3. t.pos \in Nat /\ round[t].pos \in Nat
    BY <2>1, Onward, SoundFields DEF Adds
  <2> QED
    BY <1>0, <2>1, <2>2, <2>3
<1> HIDE DEF I
<1>5. /\ While(u, goesOn, round) \in I
      /\ ~goesOn[While(u, goesOn, round)]
  BY <1>1, <1>2, <1>3, <1>4, WhileRule
<1> QED
  BY <1>5, Onward, SoundFields DEF I, Adds

\* Where the cursor stands decides what it sees.
LEMMA SamePeek ==
    ASSUME NEW s \in Sound, NEW t \in Sound, t.toks = s.toks, t.pos = s.pos
    PROVE  Peek(t) = Peek(s)
BY DEF Peek, PeekAt

LEMMA SkipToFacts ==
    ASSUME NEW s \in Sound, NEW kinds
    PROVE  /\ SkipTo(s, kinds) \in Moves(s)
           /\ Peek(s) \notin kinds \cup {"eof"} => SkipTo(s, kinds).pos > s.pos
<1> DEFINE t == SkipTo(s, kinds)
           more == Until(kinds \cup {"eof"})
<1>1. \A u \in Sound : u \in State /\ more[u] = (Peek(u) \notin kinds \cup {"eof"})
                          /\ Advancing[u] = Advance(u)
  BY DEF Sound, Until, Advancing
<1>2. ASSUME NEW u \in Moves(s), more[u]
      PROVE  Advancing[u] \in Moves(u) /\ Advancing[u].pos > u.pos
  <2>1. u \in Sound /\ u.pos \in Nat
    BY MovesAdds
  <2>2. Peek(u) # "eof"
    BY <1>1, <1>2, <2>1
  <2> QED
    BY <1>1, <2>1, <2>2, AdvanceFacts
<1>3. t \in Moves(s) /\ ~more[t]
  <2> HIDE DEF more
  <2>1. t = While(s, more, Advancing)
    BY DEF SkipTo, more
  <2> QED
    BY <1>2, <2>1, WhileMoves
<1>4. t \in Sound /\ t.toks = s.toks /\ s.pos \in Nat /\ t.pos \in Nat /\ s.pos <= t.pos
  BY <1>3, MovesAdds
<1>5. Peek(t) \in kinds \cup {"eof"}
  BY <1>1, <1>3, <1>4
<1> HIDE DEF t, more
<1>6. t.pos = s.pos => Peek(t) = Peek(s)
  BY <1>4, SamePeek
<1> QED
  BY <1>3, <1>4, <1>5, <1>6 DEF t

LEMMA SynchronizeFacts ==
    ASSUME NEW s \in Sound
    PROVE  /\ Synchronize(s) \in Moves(s)
           /\ Peek(s) # "eof" => Synchronize(s).pos > s.pos
<1> DEFINE more == [t \in State |->
              /\ ~AtEof(t)
              /\ Previous(t) # ";"
              /\ Peek(t) \notin
                     {"}", "fn", "struct", "enum", "union", "mod", "use", "const",
                      "trait", "impl", "unsafe", "break", "continue", "let", "if",
                      "while", "for", "match", "ret"}]
<1> PICK u : u = IF AtEof(s) THEN s ELSE Advance(s)
  OBVIOUS
<1>1. u \in Moves(s) /\ (Peek(s) # "eof" => u.pos > s.pos)
  <2>1. s.pos \in Nat
    BY SoundFields
  <2> QED
    BY <2>1, AdvanceFacts, Itself DEF AtEof, Check
<1>2. \A t \in Sound : t \in State /\ (more[t] => Peek(t) # "eof")
                          /\ Advancing[t] = Advance(t)
  BY SoundFields DEF Advancing, AtEof, Check
<1>3. Synchronize(s) = While(u, more, Advancing)
  BY DEF Synchronize
<1> HIDE DEF more
<1>4. u \in Sound
  BY <1>1, MovesAdds
<1>5. ASSUME NEW t \in Moves(u), more[t]
      PROVE  Advancing[t] \in Moves(t) /\ Advancing[t].pos > t.pos
  <2>1. t \in Sound /\ t.pos \in Nat
    BY <1>4, MovesAdds
  <2> QED
    BY <1>2, <1>5, <2>1, AdvanceFacts
<1>6. Synchronize(s) \in Moves(u)
  BY <1>3, <1>4, <1>5, WhileMoves
<1>7. Synchronize(s) \in Moves(s)
  BY <1>1, <1>4, <1>6, MovesMoves
<1>8. u.pos <= Synchronize(s).pos /\ s.pos \in Nat /\ u.pos \in Nat /\ Synchronize(s).pos \in Nat
  BY <1>1, <1>4, <1>6, MovesAdds
<1> QED
  BY <1>1, <1>7, <1>8

\* Whether struct literals are allowed does not matter to the relations.
LEMMA AllowFacts ==
    ASSUME NEW s \in Sound, NEW b \in BOOLEAN
    PROVE  /\ [s EXCEPT !.allow = b] \in Moves(s)
           /\ [s EXCEPT !.allow = b].pos = s.pos
           /\ [s EXCEPT !.allow = b].errs = s.errs
           /\ Peek([s EXCEPT !.allow = b]) = Peek(s)
<1> PICK t : t = [s EXCEPT !.allow = b]
  OBVIOUS
<1>1. /\ s \in State /\ s.pos \in Nat /\ Len(s.toks) \in Nat /\ s.pos <= Len(s.toks)
      /\ Len(s.errs) \in Nat
  BY SoundFields
<1>2. t \in State
  BY <1>1 DEF State
<1>3. /\ t.toks = s.toks /\ t.pool = s.pool /\ t.vals = s.vals /\ t.stuck = s.stuck
      /\ t.errs = s.errs /\ t.pos = s.pos
  BY <1>1 DEF State
<1>4. t \in Moves(s)
  <2>1. t.pos <= Len(s.toks) /\ s.pos <= t.pos /\ Len(s.errs) <= Len(t.errs)
    BY <1>1, <1>3
  <2> QED
    BY <1>2, <1>3, <2>1, SoundExcept
<1>5. t \in Sound
  BY <1>4, MovesAdds
<1> QED
  BY <1>3, <1>4, <1>5, SamePeek

-----------------------------------------------------------------------------
(* Nodes.                                                                  *)

LEMMA TextType ==
    ASSUME NEW s \in Sound, NEW from \in Nat \ {0}, NEW to \in Nat
    PROVE  Text(s, from, to) \in Seq(Token)
<1>1. s.toks \in Seq(Token) /\ Len(s.toks) \in Nat \ {0}
  BY SoundFields
<1>2. PICK n : n = IF to < Len(s.toks) THEN to ELSE Len(s.toks) - 1
  OBVIOUS
<1>3. n \in Int /\ n <= Len(s.toks)
  BY <1>1, <1>2
<1>4. SubSeq(s.toks, from, n) \in Seq(Token)
  BY <1>1, <1>3, SubSeqType
<1> QED
  BY <1>2, <1>4 DEF Text

LEMMA PlaceTypes ==
    ASSUME NEW s \in Sound
    PROVE  /\ Here(s) = s.pos + 1 /\ Here(s) \in Nat \ {0} /\ Before(s) \in Nat \ {0}
           /\ TextHere(s) \in Seq(Token)
           /\ RegimeHere(s) \in Regime
<1>1. s.pos \in Nat
  BY SoundFields
<1>2. Here(s) = s.pos + 1 /\ Here(s) \in Nat \ {0} /\ Before(s) \in Nat \ {0}
  BY <1>1 DEF Here, Before
<1>3. TextHere(s) \in Seq(Token)
  BY <1>2, TextType DEF TextHere
<1>4. RegimeHere(s) \in Regime
  BY DEF RegimeHere, Regime, NoRegime
<1> QED
  BY <1>2, <1>3, <1>4

LEMMA PayloadTypes ==
    /\ Nothing \in Payload
    /\ \A text \in Seq(Token) : Named(text) \in Payload
    /\ \A text \in Seq(Token), regime \in Regime : WithRegime(text, regime) \in Payload
    /\ \A n \in Nat : [values |-> n] \in Payload
    /\ NoRegime \in Regime
<1>1. ASSUME NEW text \in Seq(Token) PROVE Named(text) \in Payload
  <2>1. [text |-> text] \in [text : Seq(Token)]
    OBVIOUS
  <2> QED
    BY <2>1 DEF Payload, Named
<1>2. ASSUME NEW text \in Seq(Token), NEW regime \in Regime
      PROVE  WithRegime(text, regime) \in Payload
  <2>1. [text |-> text, regime |-> regime] \in [text : Seq(Token), regime : Regime]
    OBVIOUS
  <2> QED
    BY <2>1 DEF Payload, WithRegime
<1>3. ASSUME NEW n \in Nat PROVE [values |-> n] \in Payload
  <2>1. [values |-> n] \in [values : Nat]
    OBVIOUS
  <2> QED
    BY <2>1 DEF Payload
<1>4. <<>> \in Seq(Token)
  OBVIOUS
<1>5. Nothing \in Payload
  BY <1>1, <1>4 DEF Nothing
<1>6. NoRegime \in Regime
  BY DEF NoRegime, Regime
<1> QED
  BY <1>1, <1>2, <1>3, <1>5, <1>6

LEMMA AppendFacts ==
    ASSUME NEW S, NEW q \in Seq(S), NEW x \in S
    PROVE  /\ Append(q, x) \in Seq(S) /\ Len(q) \in Nat /\ Len(Append(q, x)) = Len(q) + 1
           /\ \A k \in 1..Len(q) : Append(q, x)[k] = q[k] /\ k \in 1..Len(Append(q, x))
           /\ Append(q, x)[Len(q) + 1] = x
OBVIOUS

LEMMA ConcatFacts ==
    ASSUME NEW S, NEW q \in Seq(S), NEW r \in Seq(S)
    PROVE  /\ q \o r \in Seq(S) /\ Len(q) \in Nat /\ Len(r) \in Nat
           /\ Len(q \o r) = Len(q) + Len(r)
           /\ \A k \in 1..Len(q) : (q \o r)[k] = q[k]
           /\ \A k \in 1..Len(r) : (q \o r)[Len(q) + k] = r[k]
OBVIOUS

LEMMA InSlice ==
    ASSUME NEW b \in Nat, NEW c \in Nat, NEW len \in Nat, b + c <= len, NEW k \in 1..c
    PROVE  b + k \in 1..len
OBVIOUS

\* The last values of r become entries of q, and x takes their place.
LEMMA Adoption ==
    ASSUME NEW S, NEW q \in Seq(S), NEW r \in Seq(S), NEW m \in 0..Len(r), NEW x, x \notin S,
           NEW T, S \subseteq T, x \in T, Unshared(q, r)
    PROVE  LET q2 == q \o SubSeq(r, m + 1, Len(r))
               r2 == Append(SubSeq(r, 1, m), x)
           IN  /\ Unshared(q2, r2)
               /\ Among(x, r2)
               /\ \A i : Among(i, q) \/ Among(i, r) => Among(i, q2) \/ Among(i, r2)
<1>k. PICK kids : kids = SubSeq(r, m + 1, Len(r))
  OBVIOUS
<1>b. PICK below : below = SubSeq(r, 1, m)
  OBVIOUS
<1>q. PICK q2 : q2 = q \o kids
  OBVIOUS
<1>r. PICK r2 : r2 = Append(below, x)
  OBVIOUS
<1>n. PICK n : n = Len(r)
  OBVIOUS
<1>c. PICK c : c = Len(q)
  OBVIOUS
<1>0. n \in Nat /\ c \in Nat /\ m \in Nat /\ m <= n /\ DOMAIN q = 1..c /\ DOMAIN r = 1..n
  BY <1>n, <1>c
<1>1. /\ kids \in Seq(S) /\ Len(kids) = n - m
      /\ \A k \in 1..(n - m) : kids[k] = r[m + k]
  <2>1. /\ kids \in Seq(S) /\ Len(kids) = (IF n < m + 1 THEN 0 ELSE n - (m + 1) + 1)
        /\ \A k \in 1..Len(kids) : kids[k] = r[m + 1 + k - 1]
    BY <1>0, <1>k, <1>n, SubSeqType
  <2>2. Len(kids) = n - m
    BY <1>0, <2>1
  <2>3. \A k \in 1..(n - m) : m + 1 + k - 1 = m + k
    BY <1>0
  <2> QED
    BY <2>1, <2>2, <2>3
<1>2. /\ below \in Seq(S) /\ Len(below) = m /\ \A k \in 1..m : below[k] = r[k]
  <2>1. /\ below \in Seq(S) /\ Len(below) = (IF m < 1 THEN 0 ELSE m - 1 + 1)
        /\ \A k \in 1..Len(below) : below[k] = r[1 + k - 1]
    BY <1>0, <1>b, <1>n, SubSeqType
  <2>2. Len(below) = m
    BY <1>0, <2>1
  <2>3. \A k \in 1..m : 1 + k - 1 = k
    BY <1>0
  <2> QED
    BY <2>1, <2>2, <2>3
<1>3. /\ DOMAIN q2 = 1..(c + (n - m))
      /\ \A k \in 1..c : q2[k] = q[k]
      /\ \A k \in 1..(n - m) : q2[c + k] = r[m + k]
  <2>1. /\ q2 \in Seq(S) /\ Len(q2) = Len(q) + Len(kids)
        /\ \A k \in 1..Len(q) : q2[k] = q[k]
        /\ \A k \in 1..Len(kids) : q2[Len(q) + k] = kids[k]
    <3>1. q \in Seq(S) /\ kids \in Seq(S)
      BY <1>1
    <3>2. /\ q \o kids \in Seq(S) /\ Len(q \o kids) = Len(q) + Len(kids)
          /\ \A k \in 1..Len(q) : (q \o kids)[k] = q[k]
          /\ \A k \in 1..Len(kids) : (q \o kids)[Len(q) + k] = kids[k]
      BY ONLY <3>1, ConcatFacts
    <3> QED
      BY ONLY <1>q, <3>2
  <2>2. q2 \in Seq(S) /\ Len(q2) = c + (n - m)
    BY <1>1, <1>c, <2>1
  <2>3. DOMAIN q2 = 1..(c + (n - m))
    BY <2>2
  <2>4. \A k \in 1..(n - m) : q2[c + k] = r[m + k]
    BY <1>1, <1>c, <2>1
  <2> QED
    BY <1>c, <2>1, <2>3, <2>4
<1>4. /\ DOMAIN r2 = 1..(m + 1) /\ \A k \in 1..m : r2[k] = r[k]
      /\ r2[m + 1] = x
  <2>1. below \in Seq(T)
    BY <1>2
  <2>2. /\ r2 \in Seq(T) /\ Len(r2) = Len(below) + 1
        /\ \A k \in 1..Len(below) : r2[k] = below[k]
        /\ r2[Len(below) + 1] = x
    BY <1>r, <2>1, AppendFacts
  <2> QED
    BY <1>2, <2>2
<1>5. /\ \A k \in 1..c : q[k] # x
      /\ \A k \in 1..n : r[k] # x
  BY <1>n, <1>c
\* Where an entry of q2 comes from.
<1>6. ASSUME NEW k \in DOMAIN q2
      PROVE  \/ k \in 1..c /\ q2[k] = q[k]
             \/ k > c /\ k - c + m \in (m + 1)..n /\ q2[k] = r[k - c + m]
  <2>1. CASE k <= c
    BY <1>0, <1>3, <2>1
  <2>2. CASE ~(k <= c)
    <3>1. k - c \in 1..(n - m) /\ c + (k - c) = k /\ m + (k - c) = k - c + m
      BY <1>0, <1>3, <2>2
    <3>2. q2[c + (k - c)] = r[m + (k - c)]
      BY <1>3, <3>1
    <3>3. k - c + m \in (m + 1)..n
      BY <1>0, <3>1
    <3> QED
      BY <1>0, <1>3, <2>2, <3>1, <3>2, <3>3
  <2> QED
    BY <2>1, <2>2
<1>7. Distinct(q2)
  <2> SUFFICES ASSUME NEW j \in DOMAIN q2, NEW k \in DOMAIN q2, q2[j] = q2[k], q2[j] # NullNode
               PROVE  j = k
    BY DEF Distinct
  <2>0. j \in Nat /\ k \in Nat
    BY <1>3
  <2>1. CASE j \in 1..c /\ k \in 1..c
    BY <1>0, <1>3, <2>1 DEF Unshared, Distinct
  <2>2. CASE j \in 1..c /\ k \notin 1..c
    BY <1>0, <1>6, <2>2 DEF Unshared, Apart
  <2>3. CASE j \notin 1..c /\ k \in 1..c
    BY <1>0, <1>6, <2>3 DEF Unshared, Apart
  <2>4. CASE j \notin 1..c /\ k \notin 1..c
    <3>1. /\ j - c + m \in 1..n /\ q2[j] = r[j - c + m]
          /\ k - c + m \in 1..n /\ q2[k] = r[k - c + m]
      BY <1>0, <1>6, <2>4
    <3>2. j - c + m = k - c + m
      BY <1>0, <3>1 DEF Unshared, Distinct
    <3> QED
      BY <1>0, <2>0, <3>2
  <2> QED
    BY <2>1, <2>2, <2>3, <2>4
<1>8. Distinct(r2)
  <2> SUFFICES ASSUME NEW j \in DOMAIN r2, NEW k \in DOMAIN r2, r2[j] = r2[k], r2[j] # NullNode
               PROVE  j = k
    BY DEF Distinct
  <2>1. \A v \in DOMAIN r2 : v = m + 1 \/ (v \in 1..m /\ v \in 1..n)
    BY <1>0, <1>4
  <2>2. CASE j \in 1..m /\ k \in 1..m
    BY <1>0, <1>4, <2>1, <2>2 DEF Unshared, Distinct
  <2>3. CASE ~(j \in 1..m /\ k \in 1..m)
    BY <1>0, <1>4, <1>5, <2>1, <2>3
  <2> QED
    BY <2>2, <2>3
<1>9. Apart(q2, r2)
  <2> SUFFICES ASSUME NEW j \in DOMAIN q2, NEW k \in DOMAIN r2, q2[j] = r2[k]
               PROVE  q2[j] = NullNode
    BY DEF Apart
  <2>1. k = m + 1 \/ (k \in 1..m /\ k \in 1..n /\ r2[k] = r[k])
    BY <1>0, <1>4
  <2>2. CASE k = m + 1
    <3>1. q2[j] # x
      BY <1>0, <1>5, <1>6
    <3> QED
      BY <1>4, <2>2, <3>1
  <2>3. CASE k # m + 1 /\ j \in 1..c
    BY <1>0, <1>3, <2>1, <2>3 DEF Unshared, Apart
  <2>4. CASE k # m + 1 /\ j \notin 1..c
    <3>1. j - c + m \in (m + 1)..n /\ q2[j] = r[j - c + m]
      BY <1>6, <2>4
    <3>2. j - c + m \in 1..n /\ j - c + m # k
      BY <1>0, <2>1, <2>4, <3>1
    <3>3. r[j - c + m] = r[k] /\ k \in 1..n
      BY <2>1, <2>4, <3>1
    <3>4. r[j - c + m] = NullNode
      BY <1>0, <3>2, <3>3 DEF Unshared, Distinct
    <3> QED
      BY <3>1, <3>4
  <2> QED
    BY <2>2, <2>3, <2>4
<1>10. Among(x, r2)
  <2>1. m + 1 \in DOMAIN r2
    BY <1>0, <1>4
  <2> QED
    BY <1>4, <2>1 DEF Among
<1>11. ASSUME NEW i, Among(i, q) \/ Among(i, r)
       PROVE  Among(i, q2) \/ Among(i, r2)
  <2>1. CASE Among(i, q)
    <3>1. PICK k \in 1..c : q[k] = i
      BY <1>0, <2>1 DEF Among
    <3>2. k \in DOMAIN q2 /\ q2[k] = i
      BY <1>0, <1>3, <3>1
    <3> QED
      BY <3>2 DEF Among
  <2>2. CASE Among(i, r)
    <3>1. PICK k \in 1..n : r[k] = i
      BY <1>0, <2>2 DEF Among
    <3>2. CASE k <= m
      <4>1. k \in DOMAIN r2 /\ r2[k] = i
        BY <1>0, <1>4, <3>1, <3>2
      <4> QED
        BY <4>1 DEF Among
    <3>3. CASE ~(k <= m)
      <4>1. k - m \in 1..(n - m) /\ m + (k - m) = k /\ c + (k - m) \in DOMAIN q2
        BY <1>0, <1>3, <3>3
      <4>2. q2[c + (k - m)] = r[m + (k - m)]
        BY <1>3, <4>1
      <4> QED
        BY <3>1, <4>1, <4>2 DEF Among
    <3> QED
      BY <3>2, <3>3
  <2> QED
    BY <1>11, <2>1, <2>2
<1>12. /\ Unshared(q2, r2) /\ Among(x, r2)
       /\ \A i : Among(i, q) \/ Among(i, r) => Among(i, q2) \/ Among(i, r2)
  BY <1>7, <1>8, <1>9, <1>10, <1>11 DEF Unshared
<1> QED
  BY <1>12, <1>k, <1>b, <1>q, <1>r

\* A new node leaves the others as they are.
Extended(pool, q, kind, span, kids) ==
    /\ PoolSound(q)
    /\ PoolSize(q) = PoolSize(pool) + 1
    /\ PoolSize(pool) \in Nodes(q)
    /\ Nodes(q) = Nodes(pool) \cup {PoolSize(pool)}
    /\ q.children = pool.children \o kids
    /\ NodeAt(q, PoolSize(pool)).kind = kind
    /\ SpanOf(q, PoolSize(pool)) = span
    /\ \A i \in Nodes(pool) : NodeAt(q, i) = NodeAt(pool, i) /\ SpanOf(q, i) = SpanOf(pool, i)

LEMMA AllocFacts ==
    ASSUME NEW pool, PoolSound(pool), NEW kind \in NodeKind, NEW span \in Nat \X Nat,
           NEW kids \in Seq(Nodes(pool) \cup {NullNode}), NEW payload \in Payload,
           NEW flags \in SUBSET Flag
    PROVE  Extended(pool, Alloc(pool, kind, span, kids, payload, flags), kind, span, kids)
<1>q. PICK q : q = Alloc(pool, kind, span, kids, payload, flags)
  OBVIOUS
<1>1. /\ pool.nodes \in Seq(NodeRecord)
      /\ pool.children \in Seq(Nat \cup {NullNode}) /\ Len(pool.children) \in Nat
      /\ pool.spans \in Seq(Nat \X Nat)
      /\ Len(pool.nodes) = Len(pool.spans) /\ Len(pool.nodes) \in Nat \ {0}
      /\ PoolSize(pool) = Len(pool.nodes)
  BY PoolFields
<1>s. PICK size : size = PoolSize(pool)
  OBVIOUS
<1>n. PICK node : node = Node(kind, kids, Len(pool.children), payload, flags)
  OBVIOUS
<1>2. /\ node.count \in Nat /\ node.count <= Len(kids) /\ node.begin = Len(pool.children)
      /\ node.kind = kind
      /\ Len(kids) < CountLimit => node.count = Len(kids)
      /\ node \in NodeRecord
  <2>1. PICK n : n = Len(kids)
    OBVIOUS
  <2>2. n \in Nat
    BY <2>1
  <2>3. PICK c : c = n % CountLimit
    OBVIOUS
  <2>4. c \in Nat /\ c <= n /\ (n < CountLimit => c = n)
    <3>1. CountLimit \in Nat \ {0}
      BY LimitAssumption
    <3> QED
      BY <2>2, <2>3, <3>1
  <2>5. node = [kind |-> kind, count |-> c, begin |-> Len(pool.children),
                payload |-> payload, flags |-> flags]
    BY <1>n, <2>1, <2>3 DEF Node
  <2> QED
    BY <1>1, <2>1, <2>4, <2>5 DEF NodeRecord
<1>3. kids \in Seq(Nat \cup {NullNode}) /\ Len(kids) \in Nat
  BY <1>1 DEF Nodes
<1>4. /\ q.nodes = Append(pool.nodes, node)
      /\ q.children = pool.children \o kids
      /\ q.spans = Append(pool.spans, span)
      /\ q = [nodes |-> Append(pool.nodes, node), children |-> pool.children \o kids,
              spans |-> Append(pool.spans, span)]
  BY <1>q, <1>n DEF Alloc
<1>5. /\ Len(q.nodes) = Len(pool.nodes) + 1 /\ q.nodes[Len(pool.nodes) + 1] = node
      /\ \A k \in 1..Len(pool.nodes) : q.nodes[k] = pool.nodes[k]
  <2>1. node \in NodeRecord /\ pool.nodes \in Seq(NodeRecord)
    BY <1>1, <1>2
  <2>2. q.nodes = Append(pool.nodes, node)
    BY <1>4
  <2> QED
    BY <2>1, <2>2, AppendFacts
<1>6. /\ Len(q.spans) = Len(pool.spans) + 1 /\ q.spans[Len(pool.spans) + 1] = span
      /\ \A k \in 1..Len(pool.spans) : q.spans[k] = pool.spans[k]
  BY <1>1, <1>4, AppendFacts
<1>7. /\ Len(q.children) = Len(pool.children) + Len(kids)
      /\ \A k \in 1..Len(pool.children) : q.children[k] = pool.children[k]
      /\ \A k \in 1..Len(kids) : q.children[Len(pool.children) + k] = kids[k]
  BY <1>1, <1>3, <1>4, ConcatFacts
<1>8. size = Len(pool.nodes) /\ size = Len(pool.spans) /\ size \in Nat \ {0}
  BY <1>1, <1>s
<1>9. /\ Len(q.nodes) = size + 1 /\ Len(q.spans) = size + 1
      /\ Len(q.children) = Len(pool.children) + Len(kids)
      /\ size \in Nat \ {0}
  BY <1>5, <1>6, <1>7, <1>8
<1>10. q \in Pool
  <2>1. Append(pool.nodes, node) \in Seq(NodeRecord)
    BY <1>1, <1>2
  <2>2. pool.children \o kids \in Seq(Nat \cup {NullNode})
    BY <1>1, <1>3
  <2>3. Append(pool.spans, span) \in Seq(Nat \X Nat)
    BY <1>1
  <2> QED
    BY <1>4, <2>1, <2>2, <2>3 DEF Pool
<1>11. PoolSize(q) = size + 1
  BY <1>9 DEF PoolSize
<1>12. ASSUME NEW i \in Nodes(pool)
       PROVE  i \in Nodes(q) /\ NodeAt(q, i) = NodeAt(pool, i) /\ SpanOf(q, i) = SpanOf(pool, i)
  <2>1. i \in Nat /\ i + 1 \in 1..Len(pool.nodes) /\ i <= size - 1 /\ 1 <= i
    BY <1>1, <1>8 DEF Nodes
  <2>2. q.nodes[i + 1] = pool.nodes[i + 1] /\ q.spans[i + 1] = pool.spans[i + 1]
    BY <1>5, <1>6, <1>8, <2>1
  <2>3. i \in Nodes(q)
    BY <1>9, <1>11, <2>1 DEF Nodes
  <2> QED
    BY <2>2, <2>3 DEF NodeAt, SpanOf
<1>13. /\ size \in Nodes(q) /\ NodeAt(q, size) = node /\ SpanOf(q, size) = span
  <2>1. size \in Nodes(q)
    BY <1>9, <1>11 DEF Nodes
  <2>2. q.nodes[size + 1] = node /\ q.spans[size + 1] = span
    BY <1>5, <1>6, <1>8
  <2> QED
    BY <2>1, <2>2 DEF NodeAt, SpanOf
<1>14. ASSUME NEW i \in Nodes(q)
       PROVE  KidsBefore(q, i)
  <2>1. CASE i \in Nodes(pool)
    <3>1. KidsBefore(pool, i) /\ NodeAt(q, i) = NodeAt(pool, i)
      BY <1>12, <2>1 DEF PoolSound
    <3>n. PICK n : n = NodeAt(pool, i)
      OBVIOUS
    <3>2. n.begin \in Nat /\ n.count \in Nat
      <4>1. i + 1 \in 1..Len(pool.nodes) /\ n = pool.nodes[i + 1]
        <5>1. i \in 1..(size - 1)
          BY <1>s, <2>1 DEF Nodes
        <5>2. i + 1 \in 1..size
          BY <1>8, <5>1
        <5> QED
          BY <1>8, <3>n, <5>2 DEF NodeAt
      <4>2. pool.nodes[i + 1] \in NodeRecord
        BY <1>1, <4>1
      <4> QED
        BY <4>1, <4>2 DEF NodeRecord
    <3>3. /\ n.begin + n.count <= Len(pool.children)
          /\ \A k \in 1..n.count : pool.children[n.begin + k] \in 1..(i - 1) \cup {NullNode}
      BY <3>1, <3>n DEF KidsBefore
    <3>4. n.begin + n.count <= Len(q.children)
      BY <1>1, <1>3, <1>9, <3>2, <3>3
    <3>5. ASSUME NEW k \in 1..n.count
          PROVE  q.children[n.begin + k] \in 1..(i - 1) \cup {NullNode}
      <4>1. n.begin + k \in 1..Len(pool.children)
        BY <1>1, <3>2, <3>3, InSlice
      <4>2. q.children[n.begin + k] = pool.children[n.begin + k]
        BY <1>7, <4>1
      <4> QED
        BY <3>3, <4>2
    <3> QED
      BY <3>1, <3>n, <3>4, <3>5 DEF KidsBefore
  <2>2. CASE i \notin Nodes(pool)
    <3>1. i = size
      BY <1>9, <1>11, <1>s, <2>2 DEF Nodes
    <3>2. node.begin + node.count <= Len(q.children)
      BY <1>1, <1>2, <1>3, <1>9
    <3>3. ASSUME NEW k \in 1..node.count
          PROVE  q.children[node.begin + k] \in 1..(i - 1) \cup {NullNode}
      <4>1. k \in 1..Len(kids)
        BY <1>2, <1>3
      <4>2. q.children[node.begin + k] = kids[k]
        BY <1>2, <1>7, <4>1
      <4>3. kids[k] \in Nodes(pool) \cup {NullNode}
        BY <4>1
      <4> QED
        BY <1>s, <3>1, <4>2, <4>3 DEF Nodes
    <3> QED
      BY <1>13, <3>1, <3>2, <3>3 DEF KidsBefore
  <2> QED
    BY <2>1, <2>2
<1>15. Nodes(q) = Nodes(pool) \cup {size}
  BY <1>9, <1>11, <1>s DEF Nodes
<1>16. \A p \in DOMAIN q.children : q.children[p] \in Nodes(q) \cup {NullNode}
  <2>1. kids \in Seq(Nodes(pool) \cup {NullNode})
    OBVIOUS
  <2>2. pool.children \in Seq(Nodes(pool) \cup {NullNode})
    <3>1. \A p \in DOMAIN pool.children : pool.children[p] \in Nodes(pool) \cup {NullNode}
      BY DEF PoolSound
    <3>c. PICK c : c = pool.children
      OBVIOUS
    <3>2. c \in Seq(Nat \cup {NullNode})
      BY <1>1, <3>c
    <3>3. \A p \in 1..Len(c) : c[p] \in Nodes(pool) \cup {NullNode}
      BY <3>1, <3>2, <3>c
    <3>4. c \in Seq(Nodes(pool) \cup {NullNode})
      BY ONLY <3>2, <3>3
    <3> QED
      BY <3>4, <3>c
  <2>3. q.children \in Seq(Nodes(pool) \cup {NullNode})
    BY <1>4, <2>1, <2>2, ConcatFacts
  <2>4. \A p \in DOMAIN q.children : q.children[p] \in Nodes(pool) \cup {NullNode}
    BY <2>3
  <2> QED
    BY <1>15, <2>4
<1>17. ASSUME NEW i \in Nodes(pool)
       PROVE  /\ Begin(q, i) = Begin(pool, i) /\ End(q, i) = End(pool, i)
              /\ Begin(pool, i) \in Nat /\ End(pool, i) \in Nat
              /\ End(pool, i) <= Len(pool.children)
  <2>1. NodeAt(q, i) = NodeAt(pool, i)
    BY <1>12
  <2>2. i + 1 \in 1..Len(pool.nodes)
    <3>1. i \in 1..(size - 1)
      BY <1>s DEF Nodes
    <3> QED
      BY <1>8, <3>1
  <2>3. NodeAt(pool, i) \in NodeRecord
    BY <1>1, <2>2 DEF NodeAt
  <2>4. NodeAt(pool, i).begin \in Nat /\ NodeAt(pool, i).count \in Nat
    BY <2>3 DEF NodeRecord
  <2>5. KidsBefore(pool, i)
    BY DEF PoolSound
  <2>6. End(pool, i) <= Len(pool.children)
    BY <2>5 DEF KidsBefore, End
  <2> QED
    BY <2>1, <2>4, <2>6 DEF Begin, End
<1>18. Begin(q, size) = Len(pool.children) /\ End(q, size) = Len(pool.children) + node.count
  BY <1>2, <1>13 DEF Begin, End
<1>19. ASSUME NEW i \in Nodes(q), NEW j \in Nodes(q), i < j
       PROVE  End(q, i) <= Begin(q, j)
  <2>1. i \in Nodes(pool)
    BY <1>15, <1>19, <1>8, <1>s DEF Nodes
  <2>2. CASE j \in Nodes(pool)
    BY <1>17, <1>19, <2>1, <2>2 DEF PoolSound, SlicesSound
  <2>3. CASE j = size
    BY <1>17, <1>18, <2>1, <2>3
  <2> QED
    BY <1>15, <2>2, <2>3
<1>20. ASSUME Len(q.children) < CountLimit, NEW p \in DOMAIN q.children
       PROVE  \E i \in Nodes(q) : Begin(q, i) < p /\ p <= End(q, i)
  <2>0. CountLimit \in Nat
    BY LimitAssumption
  <2>1. p \in 1..(Len(pool.children) + Len(kids))
    <3>1. q.children \in Seq(Nat \cup {NullNode})
      BY <1>10 DEF Pool
    <3>2. DOMAIN q.children = 1..Len(q.children)
      BY <3>1
    <3> QED
      BY <1>9, <3>2
  <2>2. CASE p <= Len(pool.children)
    <3>1. p \in DOMAIN pool.children
      BY <1>1, <2>1, <2>2
    <3>2. Len(pool.children) < CountLimit
      BY <1>1, <1>3, <1>9, <1>20, <2>0
    <3>3. PICK i \in Nodes(pool) : Begin(pool, i) < p /\ p <= End(pool, i)
      BY <3>1, <3>2 DEF PoolSound, SlicesSound
    <3> QED
      BY <1>15, <1>17, <3>3
  <2>3. CASE ~(p <= Len(pool.children))
    <3>1. Len(kids) < CountLimit
      BY <1>1, <1>3, <1>9, <1>20, <2>0
    <3>2. node.count = Len(kids)
      BY <1>2, <3>1
    <3>3. Begin(q, size) < p /\ p <= End(q, size)
      BY <1>1, <1>3, <1>18, <2>1, <2>3, <3>2
    <3> QED
      BY <1>15, <3>3
  <2> QED
    BY <2>2, <2>3
<1>21. SlicesSound(q)
  BY <1>19, <1>20 DEF SlicesSound
<1>22. PoolSound(q)
  BY <1>9, <1>10, <1>11, <1>14, <1>16, <1>21 DEF PoolSound
<1> QED
  BY <1>q, <1>s, <1>2, <1>4, <1>11, <1>12, <1>13, <1>15, <1>22 DEF Extended

LEMMA MakeFacts ==
    ASSUME NEW s \in Sound, NEW m \in 0..Mark(s), NEW kind \in NodeKind,
           NEW span \in Nat \X Nat, NEW payload \in Payload, NEW flags \in SUBSET Flag,
           kind = "Error" => s.errs # <<>>
    PROVE  LET t == MakeFlagged(s, m, kind, span, payload, flags)
           IN  /\ t \in After(s, m) /\ Mark(t) = m + 1 /\ OnNode(t)
               /\ t.pos = s.pos /\ t.errs = s.errs /\ t.allow = s.allow
               /\ TopSpan(t) = span /\ Top(t) = PoolSize(t.pool) - 1
<1>t. PICK t : t = MakeFlagged(s, m, kind, span, payload, flags)
  OBVIOUS
<1>1. /\ s \in State /\ s.pos \in Nat /\ s.vals \in Seq(Nat \cup {NullNode})
      /\ Len(s.vals) \in Nat /\ PoolSound(s.pool) /\ m \in Nat /\ m <= Len(s.vals)
      /\ Len(s.errs) \in Nat
  <2>1. s.vals \in Seq(Nat \cup {NullNode}) /\ Len(s.vals) \in Nat /\ Len(s.errs) \in Nat
    BY SoundFields DEF Mark
  <2> QED
    BY <2>1, SoundFields DEF Mark
<1>2. s.vals \in Seq(Nodes(s.pool) \cup {NullNode})
  <2>1. \A v \in 1..Len(s.vals) : s.vals[v] \in Nodes(s.pool) \cup {NullNode}
    BY <1>1 DEF Sound
  <2> QED
    BY <1>1, <2>1
<1>k. PICK kids : kids = SubSeq(s.vals, m + 1, Len(s.vals))
  OBVIOUS
<1>b. PICK below : below = SubSeq(s.vals, 1, m)
  OBVIOUS
<1>3. kids \in Seq(Nodes(s.pool) \cup {NullNode})
  BY <1>1, <1>2, <1>k, SubSeqType
<1>4. /\ below \in Seq(Nodes(s.pool) \cup {NullNode}) /\ Len(below) = m
      /\ \A v \in 1..m : below[v] = s.vals[v]
  <2>1. /\ below \in Seq(Nodes(s.pool) \cup {NullNode})
        /\ Len(below) = IF m < 1 THEN 0 ELSE m - 1 + 1
        /\ \A k \in 1..Len(below) : below[k] = s.vals[1 + k - 1] /\ 1 + k - 1 \in 1..Len(s.vals)
    BY <1>1, <1>2, <1>b, SubSeqType
  <2>2. Len(below) = m
    BY <1>1, <2>1
  <2>3. \A v \in 1..m : below[v] = s.vals[v]
    BY <1>1, <2>1, <2>2
  <2> QED
    BY <2>1, <2>2, <2>3
<1>q. PICK q : q = Alloc(s.pool, kind, span, kids, payload, flags)
  OBVIOUS
<1>s. PICK size : size = PoolSize(s.pool)
  OBVIOUS
<1>5. /\ PoolSound(q) /\ PoolSize(q) = size + 1 /\ size \in Nodes(q)
      /\ Nodes(q) = Nodes(s.pool) \cup {size} /\ SpanOf(q, size) = span
      /\ q.children = s.pool.children \o kids /\ NodeAt(q, size).kind = kind
      /\ \A i \in Nodes(s.pool) : NodeAt(q, i) = NodeAt(s.pool, i)
  <2>p. PICK p : p = s.pool
    OBVIOUS
  <2>1. PoolSound(p) /\ kids \in Seq(Nodes(p) \cup {NullNode})
    BY <1>1, <1>3, <2>p
  <2>2. Extended(p, Alloc(p, kind, span, kids, payload, flags), kind, span, kids)
    BY <2>1, AllocFacts
  <2>3. Extended(p, q, kind, span, kids)
    BY <1>q, <2>p, <2>2
  <2> QED
    BY <1>s, <2>p, <2>3 DEF Extended
<1>6. size \in Nat
  BY <1>1, <1>s, PoolFields
<1>v. PICK vals : vals = Append(below, size)
  OBVIOUS
<1>7. /\ vals \in Seq(Nodes(q) \cup {NullNode}) /\ Len(vals) = m + 1
      /\ \A v \in 1..m : vals[v] = s.vals[v]
      /\ vals[m + 1] = size
  <2>1. below \in Seq(Nodes(q) \cup {NullNode})
    BY <1>4, <1>5
  <2>2. size \in Nodes(q) \cup {NullNode}
    BY <1>5
  <2>3. /\ vals \in Seq(Nodes(q) \cup {NullNode}) /\ Len(vals) = Len(below) + 1
        /\ \A v \in 1..Len(below) : vals[v] = below[v]
        /\ vals[Len(below) + 1] = size
    BY <1>v, <2>1, <2>2, AppendFacts
  <2> QED
    BY <1>4, <2>3
<1>8. t = [s EXCEPT !.pool = q, !.vals = vals]
  BY <1>t, <1>k, <1>b, <1>q, <1>s, <1>v DEF MakeFlagged
<1>9. t \in State
  <2>1. q \in Pool
    BY <1>5 DEF PoolSound
  <2>2. vals \in Seq(Nat \cup {NullNode})
    <3>1. Nodes(q) \cup {NullNode} \subseteq Nat \cup {NullNode}
      BY DEF Nodes
    <3> QED
      BY <1>7, <3>1
  <2> QED
    BY <1>1, <1>8, <2>1, <2>2 DEF State
<1>10. /\ t.toks = s.toks /\ t.pool = q /\ t.vals = vals /\ t.stuck = s.stuck
       /\ t.errs = s.errs /\ t.pos = s.pos /\ t.allow = s.allow
  BY <1>1, <1>8 DEF State
<1>11. /\ Unshared(q.children, vals) /\ Among(size, vals)
       /\ \A i : Among(i, s.pool.children) \/ Among(i, s.vals)
                     => Among(i, q.children) \/ Among(i, vals)
  <2> DEFINE S == Nodes(s.pool) \cup {NullNode}
             T == S \cup {size}
  <2>1. size \notin S
    <3>1. size \notin Nodes(s.pool)
      BY <1>6, <1>s DEF Nodes
    <3>2. NullNode \notin Nat
      BY LimitAssumption
    <3> QED
      BY <1>6, <3>1, <3>2
  <2>2. S \subseteq T /\ size \in T
    OBVIOUS
  <2>3. s.vals \in Seq(S)
    BY <1>2
  <2>4. s.pool.children \in Seq(S)
    <3>c. PICK c : c = s.pool.children
      OBVIOUS
    <3>1. c \in Seq(Nat \cup {NullNode})
      BY <1>1, <3>c, PoolFields
    <3>2. \A p \in DOMAIN c : c[p] \in S
      BY <1>1, <3>c DEF PoolSound
    <3>3. \A p \in 1..Len(c) : c[p] \in S
      BY <3>1, <3>2
    <3> HIDE DEF S
    <3>4. c \in Seq(S)
      BY ONLY <3>1, <3>3
    <3> QED
      BY <3>4, <3>c
  <2>5. Unshared(s.pool.children, s.vals)
    BY DEF Sound
  <2>6. m \in 0..Len(s.vals)
    BY <1>1
  <2> HIDE DEF S, T
  <2> QED
    BY <1>5, <1>k, <1>b, <1>v, <2>1, <2>2, <2>3, <2>4, <2>5, <2>6, Adoption
<1>12. Lossless(t)
  <2> SUFFICES ASSUME s.errs = <<>>, NEW i \in Nodes(q)
               PROVE  /\ NodeAt(q, i).kind # "Error"
                      /\ Among(i, q.children) \/ Among(i, vals)
    BY <1>10 DEF Lossless
  <2>1. CASE i = size
    BY <1>5, <1>11, <2>1
  <2>2. CASE i \in Nodes(s.pool)
    <3>1. /\ NodeAt(s.pool, i).kind # "Error"
          /\ Among(i, s.pool.children) \/ Among(i, s.vals)
      BY <2>2 DEF Sound, Lossless
    <3> QED
      BY <1>5, <1>11, <2>2, <3>1
  <2> QED
    BY <1>5, <2>1, <2>2
<1>13. t \in Sound
  <2>1. \A v \in DOMAIN t.vals : t.vals[v] \in Nodes(t.pool) \cup {NullNode}
    <3>1. \A v \in DOMAIN vals : vals[v] \in Nodes(q) \cup {NullNode}
      BY <1>7
    <3> QED
      BY <1>10, <3>1
  <2>4. Unshared(t.pool.children, t.vals)
    BY <1>10, <1>11
  <2>2. ErrsSound(t)
    BY <1>10, SameErrs
  <2>3. TokensSound(t.toks) /\ t.pos <= Len(t.toks) /\ ~t.stuck
    BY <1>10, SoundFields
  <2> QED
    BY <1>5, <1>9, <1>10, <1>12, <2>1, <2>2, <2>3, <2>4 DEF Sound
<1>14. t \in After(s, m)
  <2>1. m <= Len(t.vals) /\ s.pos <= t.pos /\ Len(s.errs) <= Len(t.errs)
    BY <1>1, <1>7, <1>10
  <2>2. PoolSize(s.pool) <= PoolSize(t.pool)
    BY <1>5, <1>6, <1>10, <1>s
  <2> QED
    BY <1>7, <1>10, <1>13, <2>1, <2>2 DEF After
<1>15. Mark(t) = m + 1 /\ Top(t) = size /\ t.vals # <<>>
  <2>1. Len(t.vals) = m + 1 /\ m + 1 # 0
    BY <1>1, <1>7, <1>10
  <2> QED
    BY <1>7, <1>10, <2>1 DEF Mark, Top
<1>16. Top(t) = PoolSize(t.pool) - 1
  BY <1>5, <1>6, <1>10, <1>15
<1>17. OnNode(t) /\ TopSpan(t) = span
  BY <1>5, <1>10, <1>15 DEF OnNode, TopSpan
<1> QED
  BY <1>t, <1>10, <1>14, <1>15, <1>17, <1>16

\* What a node can be that stands for something.
Proper == NodeKind \ {"Error"}

LEMMA TopSpanType ==
    ASSUME NEW s \in Sound, OnNode(s)
    PROVE  TopSpan(s) \in Nat \X Nat /\ TopSpan(s)[1] \in Nat /\ TopSpan(s)[2] \in Nat
<1>1. /\ s.pool.spans \in Seq(Nat \X Nat) /\ Len(s.pool.spans) = PoolSize(s.pool)
      /\ PoolSize(s.pool) \in Nat
  BY SoundFields, PoolFields
<1>2. Top(s) \in 1..(PoolSize(s.pool) - 1)
  BY DEF OnNode, Nodes
<1>3. Top(s) + 1 \in 1..Len(s.pool.spans)
  <2>1. PICK size : size = PoolSize(s.pool)
    OBVIOUS
  <2>2. size \in Nat /\ Top(s) \in 1..(size - 1)
    BY <1>1, <1>2, <2>1
  <2>3. Top(s) + 1 \in 1..size
    BY <2>2
  <2> QED
    BY <1>1, <2>1, <2>3
<1>4. s.pool.spans[Top(s) + 1] \in Nat \X Nat
  BY <1>1, <1>3
<1> QED
  BY <1>4 DEF TopSpan, SpanOf

\* A node of what the production that began in s has left.
LEMMA DeclYields ==
    ASSUME NEW s \in Sound, NEW t \in Adds(s), NEW kind \in Proper,
           NEW span \in Nat \X Nat, NEW payload \in Payload, NEW flags \in SUBSET Flag
    PROVE  LET u == MakeFlagged(t, Mark(s), kind, span, payload, flags)
           IN  u \in Yields(s) /\ u.pos = t.pos /\ u.errs = t.errs /\ u.allow = t.allow
                   /\ TopSpan(u) = span
<1>1. t \in Sound /\ Mark(s) \in Nat /\ Mark(t) \in Nat /\ Mark(s) <= Mark(t)
  BY SoundFields, Onward DEF Adds
<1>2. Mark(s) \in 0..Mark(t)
  BY <1>1
<1>u. PICK u : u = MakeFlagged(t, Mark(s), kind, span, payload, flags)
  OBVIOUS
<1>3. /\ u \in After(t, Mark(s)) /\ Mark(u) = Mark(s) + 1 /\ OnNode(u)
      /\ u.pos = t.pos /\ u.errs = t.errs /\ u.allow = t.allow /\ TopSpan(u) = span
  <2>1. kind \in NodeKind /\ kind # "Error"
    BY DEF Proper
  <2> QED
    BY <1>1, <1>2, <1>u, <2>1, MakeFacts
<1>4. u \in After(s, Mark(s))
  BY <1>1, <1>3, AfterAfter DEF Adds
<1> QED
  BY <1>u, <1>3, <1>4 DEF Yields, Adds

LEMMA MakeYields ==
    ASSUME NEW s \in Sound, NEW t \in Adds(s), NEW kind \in Proper,
           NEW span \in Nat \X Nat, NEW payload \in Payload
    PROVE  LET u == Make(t, Mark(s), kind, span, payload)
           IN  u \in Yields(s) /\ u.pos = t.pos /\ u.errs = t.errs /\ u.allow = t.allow
                   /\ TopSpan(u) = span
<1>1. {} \in SUBSET Flag
  OBVIOUS
<1> QED
  BY <1>1, DeclYields DEF Make

LEMMA LeafYields ==
    ASSUME NEW s \in Sound, NEW t \in Moves(s), NEW kind \in Proper,
           NEW span \in Nat \X Nat, NEW payload \in Payload
    PROVE  LET u == Leaf(t, kind, span, payload)
           IN  u \in Yields(s) /\ u.pos = t.pos /\ u.errs = t.errs /\ u.allow = t.allow
                   /\ TopSpan(u) = span
<1>1. t \in Adds(s) /\ Mark(t) = Mark(s)
  BY MovesAdds
<1> QED
  BY <1>1, MakeYields DEF Leaf

LEMMA CloseYields ==
    ASSUME NEW s \in Sound, NEW t \in Adds(s), NEW delimiter \in TokenKind,
           NEW diag \in ExpectIDs, NEW kind \in Proper, NEW payload \in Payload
    PROVE  LET u == Close(t, s, delimiter, diag, kind, payload)
           IN  u \in Yields(s) /\ t.pos <= u.pos
<1>1. t \in Sound
  BY Onward, SoundFields DEF Adds
<1>e. PICK e : e = Expect(t, delimiter, diag)
  OBVIOUS
<1>2. e \in Moves(t)
  BY <1>1, <1>e, ExpectFacts
<1>3. e \in Adds(s) /\ t.pos <= e.pos
  BY <1>1, <1>2, MovesAdds, AddsAdds
<1>4. <<Here(s), Here(t)>> \in Nat \X Nat
  BY <1>1, PlaceTypes
<1>5. LET u == Make(e, Mark(s), kind, <<Here(s), Here(t)>>, payload)
      IN  u \in Yields(s) /\ u.pos = e.pos
  BY <1>3, <1>4, MakeYields
<1> QED
  BY <1>e, <1>3, <1>5 DEF Close

LEMMA CloseDeclYields ==
    ASSUME NEW s \in Sound, NEW t \in Adds(s), NEW at \in Sound, NEW delimiter \in TokenKind,
           NEW diag \in ExpectIDs, NEW kind \in Proper, NEW payload \in Payload,
           NEW flags \in SUBSET Flag
    PROVE  LET u == CloseDecl(t, at, Mark(s), delimiter, diag, kind, payload, flags)
           IN  u \in Yields(s) /\ t.pos <= u.pos
<1>1. t \in Sound
  BY Onward, SoundFields DEF Adds
<1>e. PICK e : e = Expect(t, delimiter, diag)
  OBVIOUS
<1>2. e \in Moves(t)
  BY <1>1, <1>e, ExpectFacts
<1>3. e \in Adds(s) /\ t.pos <= e.pos
  BY <1>1, <1>2, MovesAdds, AddsAdds
<1>4. <<Here(at), Here(t)>> \in Nat \X Nat
  BY <1>1, PlaceTypes
<1>5. LET u == MakeFlagged(e, Mark(s), kind, <<Here(at), Here(t)>>, payload, flags)
      IN  u \in Yields(s) /\ u.pos = e.pos
  BY <1>3, <1>4, DeclYields
<1> QED
  BY <1>e, <1>3, <1>5 DEF CloseDecl

LEMMA UpToHereYields ==
    ASSUME NEW s \in Sound, NEW t \in Adds(s), NEW kind \in Proper, NEW payload \in Payload
    PROVE  LET u == UpToHere(t, s, kind, payload)
           IN  u \in Yields(s) /\ u.pos = t.pos
<1>1. t \in Sound
  BY Onward, SoundFields DEF Adds
<1>2. <<Here(s), Before(t)>> \in Nat \X Nat
  BY <1>1, PlaceTypes
<1> QED
  BY <1>2, MakeYields DEF UpToHere

\* An error node stands for what was reported.
LEMMA ErrorMade ==
    ASSUME NEW s \in Sound, NEW t \in Adds(s), t.errs # <<>>, NEW from \in Nat, NEW to \in Nat
    PROVE  LET u == Make(t, Mark(s), "Error", <<from, to>>, Nothing)
           IN  u \in Yields(s) /\ u.pos = t.pos /\ u.errs = t.errs
<1>1. t \in Sound /\ Mark(s) \in Nat /\ Mark(t) \in Nat /\ Mark(s) <= Mark(t)
  BY SoundFields, Onward DEF Adds
<1>2. /\ Mark(s) \in 0..Mark(t) /\ "Error" \in NodeKind /\ <<from, to>> \in Nat \X Nat
      /\ Nothing \in Payload /\ {} \in SUBSET Flag
  BY <1>1, PayloadTypes DEF NodeKind
<1>u. PICK u : u = Make(t, Mark(s), "Error", <<from, to>>, Nothing)
  OBVIOUS
<1>3. /\ u \in After(t, Mark(s)) /\ Mark(u) = Mark(s) + 1 /\ OnNode(u)
      /\ u.pos = t.pos /\ u.errs = t.errs
  BY <1>1, <1>2, <1>u, MakeFacts DEF Make
<1>4. u \in After(s, Mark(s))
  BY <1>1, <1>3, AfterAfter DEF Adds
<1> QED
  BY <1>u, <1>3, <1>4 DEF Yields, Adds

LEMMA ErrorYields ==
    ASSUME NEW s \in Sound, NEW t \in Moves(s), t.errs # <<>>, NEW from \in Nat, NEW to \in Nat
    PROVE  /\ ErrorOver(t, from, to) \in Yields(s) /\ ErrorOver(t, from, to).pos = t.pos
           /\ ErrorNode(t, from) \in Yields(s) /\ ErrorNode(t, from).pos = t.pos
<1>1. t \in Adds(s) /\ Mark(t) = Mark(s)
  BY MovesAdds
<1> QED
  BY <1>1, ErrorMade DEF ErrorNode, ErrorOver, Leaf

\* A node around the operand that is on top of the values of s.
LEMMA MakeWraps ==
    ASSUME NEW s \in Sound, OnNode(s), NEW t \in After(s, Mark(s) - 1), NEW kind \in Proper,
           NEW span \in Nat \X Nat, NEW payload \in Payload
    PROVE  LET u == Make(t, Mark(s) - 1, kind, span, payload)
           IN  u \in Wraps(s) /\ u.pos = t.pos
<1>1. Mark(s) - 1 \in Nat /\ Mark(s) \in Nat
  BY SoundFields DEF OnNode, Mark
<1>2. t \in Sound /\ Mark(t) \in Nat /\ Mark(s) - 1 <= Mark(t)
  BY <1>1, Onward
<1>3. Mark(s) - 1 \in 0..Mark(t) /\ {} \in SUBSET Flag
  BY <1>1, <1>2
<1>u. PICK u : u = Make(t, Mark(s) - 1, kind, span, payload)
  OBVIOUS
<1>4. /\ u \in After(t, Mark(s) - 1) /\ Mark(u) = Mark(s) - 1 + 1 /\ OnNode(u)
      /\ u.pos = t.pos
  <2>1. kind \in NodeKind /\ kind # "Error"
    BY DEF Proper
  <2> QED
    BY <1>2, <1>3, <1>u, <2>1, MakeFacts DEF Make
<1>5. u \in After(s, Mark(s) - 1)
  BY <1>1, <1>2, <1>4, AfterAfter
<1> QED
  BY <1>u, <1>1, <1>4, <1>5 DEF Wraps

LEMMA AroundWraps ==
    ASSUME NEW s \in Sound, OnNode(s), NEW t \in After(s, Mark(s) - 1), NEW kind \in Proper,
           NEW payload \in Payload
    PROVE  LET u == Around(t, s, kind, payload)
           IN  u \in Wraps(s) /\ u.pos = t.pos
<1>1. Mark(s) - 1 \in Nat
  BY SoundFields DEF OnNode, Mark
<1>2. t \in Sound
  BY <1>1, Onward
<1>3. <<TopSpan(s)[1], Before(t)>> \in Nat \X Nat
  BY <1>2, PlaceTypes, TopSpanType
<1> QED
  BY <1>3, MakeWraps DEF Around

\* What is dropped is lost, so something must have been reported.
LEMMA DropFacts ==
    ASSUME NEW s \in Sound, s.errs # <<>>, NEW m \in 0..Mark(s)
    PROVE  LET t == Drop(s, m)
           IN  /\ t \in After(s, m) /\ Mark(t) = m /\ t.pos = s.pos /\ t.errs = s.errs
               /\ t.pool = s.pool /\ t.vals = SubSeq(s.vals, 1, m)
<1>t. PICK t : t = Drop(s, m)
  OBVIOUS
<1>1. /\ s.vals \in Seq(Nat \cup {NullNode})
      /\ Len(s.vals) \in Nat /\ m \in Nat /\ m <= Len(s.vals) /\ Len(s.errs) \in Nat
  BY SoundFields DEF Mark
<1>2. s \in State /\ s.pos \in Nat /\ PoolSound(s.pool)
  BY SoundFields
<1>v. PICK vals : vals = SubSeq(s.vals, 1, m)
  OBVIOUS
<1>3. /\ vals \in Seq(Nat \cup {NullNode}) /\ Len(vals) = m
      /\ \A v \in 1..m : vals[v] = s.vals[v] /\ v \in DOMAIN s.vals
  <2>1. /\ vals \in Seq(Nat \cup {NullNode}) /\ Len(vals) = IF m < 1 THEN 0 ELSE m - 1 + 1
        /\ \A k \in 1..Len(vals) : vals[k] = s.vals[1 + k - 1] /\ 1 + k - 1 \in 1..Len(s.vals)
    BY <1>1, <1>v, SubSeqType
  <2>2. Len(vals) = m
    BY <1>1, <2>1
  <2>3. \A v \in 1..m : vals[v] = s.vals[v] /\ v \in 1..Len(s.vals)
    BY <1>1, <2>1, <2>2
  <2> QED
    BY <1>1, <2>1, <2>2, <2>3
<1>4. t = [s EXCEPT !.vals = vals]
  BY <1>t, <1>v DEF Drop
<1>5. t \in State
  BY <1>2, <1>3, <1>4 DEF State
<1>6. /\ t.toks = s.toks /\ t.pool = s.pool /\ t.vals = vals /\ t.stuck = s.stuck
      /\ t.errs = s.errs /\ t.pos = s.pos
  BY <1>2, <1>4 DEF State
<1>7. \A v \in DOMAIN t.vals : t.vals[v] \in Nodes(t.pool) \cup {NullNode}
  <2>1. \A v \in DOMAIN s.vals : s.vals[v] \in Nodes(s.pool) \cup {NullNode}
    BY DEF Sound
  <2>2. DOMAIN vals = 1..m
    BY <1>3
  <2> QED
    BY <1>3, <1>6, <2>1, <2>2
<1>8. t \in Sound
  <2>1. ErrsSound(t)
    BY <1>6, SameErrs
  <2>2. Lossless(t)
    BY <1>6 DEF Lossless
  <2>3. Unshared(s.pool.children, s.vals)
    BY DEF Sound
  <2>4. DOMAIN vals = 1..m
    BY <1>3
  <2>5. Unshared(t.pool.children, t.vals)
    BY <1>3, <1>6, <2>3, <2>4 DEF Unshared, Distinct, Apart
  <2> QED
    BY <1>5, <1>6, <1>7, <2>1, <2>2, <2>5 DEF Sound
<1>9. s.pos <= t.pos /\ Len(s.errs) <= Len(t.errs) /\ m <= Len(t.vals)
  BY <1>1, <1>2, <1>3, <1>6
<1>10. PoolSize(s.pool) <= PoolSize(t.pool)
  BY <1>2, <1>6, PoolFields
<1>11. \A v \in 1..m : t.vals[v] = s.vals[v]
  BY <1>3, <1>6
<1>12. t \in After(s, m)
  BY <1>6, <1>8, <1>9, <1>10, <1>11 DEF After
<1> QED
  BY <1>t, <1>v, <1>3, <1>6, <1>12 DEF Mark

\* A value that is pushed has no place yet.
LEMMA PushFacts ==
    ASSUME NEW s \in Sound, NEW i \in Nodes(s.pool) \cup {NullNode},
           i # NullNode => ~Among(i, s.pool.children) /\ ~Among(i, s.vals)
    PROVE  LET t == Push(s, i)
           IN  /\ t \in Adds(s) /\ Mark(t) = Mark(s) + 1 /\ t.pos = s.pos /\ t.errs = s.errs
               /\ t.pool = s.pool /\ Top(t) = i
               /\ i \in Nodes(s.pool) => t \in Yields(s)
<1>t. PICK t : t = Push(s, i)
  OBVIOUS
<1>1. /\ s.vals \in Seq(Nat \cup {NullNode}) /\ Len(s.vals) \in Nat /\ Len(s.errs) \in Nat
  BY SoundFields DEF Mark
<1>2. s \in State /\ s.pos \in Nat /\ PoolSound(s.pool)
  BY SoundFields
<1>3. s.vals \in Seq(Nodes(s.pool) \cup {NullNode})
  <2>1. \A v \in 1..Len(s.vals) : s.vals[v] \in Nodes(s.pool) \cup {NullNode}
    BY <1>1 DEF Sound
  <2> QED
    BY <1>1, <2>1
<1>v. PICK vals : vals = Append(s.vals, i)
  OBVIOUS
<1>4. /\ vals \in Seq(Nodes(s.pool) \cup {NullNode}) /\ Len(vals) = Len(s.vals) + 1
      /\ \A v \in 1..Len(s.vals) : vals[v] = s.vals[v]
      /\ vals[Len(s.vals) + 1] = i
  <2> QED
    BY <1>3, <1>v, AppendFacts
<1>5. t = [s EXCEPT !.vals = vals]
  BY <1>t, <1>v DEF Push
<1>6. t \in State
  <2>1. Nodes(s.pool) \cup {NullNode} \subseteq Nat \cup {NullNode}
    BY DEF Nodes
  <2>2. vals \in Seq(Nat \cup {NullNode})
    BY <1>4, <2>1
  <2> QED
    BY <1>2, <1>5, <2>2 DEF State
<1>7. /\ t.toks = s.toks /\ t.pool = s.pool /\ t.vals = vals /\ t.stuck = s.stuck
      /\ t.errs = s.errs /\ t.pos = s.pos
  BY <1>2, <1>5 DEF State
<1>8. \A v \in DOMAIN t.vals : t.vals[v] \in Nodes(t.pool) \cup {NullNode}
  <2>1. \A v \in DOMAIN vals : vals[v] \in Nodes(s.pool) \cup {NullNode}
    BY <1>4
  <2> QED
    BY <1>7, <2>1
<1>9. t \in Sound
  <2>1. ErrsSound(t)
    BY <1>7, SameErrs
  <2>n. PICK n : n = Len(s.vals)
    OBVIOUS
  <2>2. /\ n \in Nat /\ DOMAIN vals = 1..(n + 1) /\ DOMAIN s.vals = 1..n
        /\ \A v \in 1..n : vals[v] = s.vals[v]
        /\ vals[n + 1] = i
        /\ \A v \in 1..(n + 1) : v = n + 1 \/ v \in 1..n
        /\ \A v \in 1..n : v \in 1..(n + 1)
    BY <1>1, <1>4, <2>n
  <2>3. Unshared(s.pool.children, s.vals) /\ Lossless(s)
    BY DEF Sound
  <2>4. Distinct(vals)
    <3> SUFFICES ASSUME NEW j \in DOMAIN vals, NEW k \in DOMAIN vals, vals[j] = vals[k],
                        vals[j] # NullNode
                 PROVE  j = k
      BY DEF Distinct
    <3>1. CASE j \in 1..n /\ k \in 1..n
      BY <2>2, <2>3, <3>1 DEF Unshared, Distinct
    <3>2. CASE ~(j \in 1..n /\ k \in 1..n)
      BY <2>2, <3>2 DEF Among
    <3> QED
      BY <3>1, <3>2
  <2>5. Apart(s.pool.children, vals)
    BY <2>2, <2>3 DEF Unshared, Apart, Among
  <2>6. Unshared(t.pool.children, t.vals)
    BY <1>7, <2>3, <2>4, <2>5 DEF Unshared
  <2>7. \A x : Among(x, s.vals) => Among(x, vals)
    BY <2>2 DEF Among
  <2>8. Lossless(t)
    BY <1>7, <2>3, <2>7 DEF Lossless
  <2> QED
    BY <1>6, <1>7, <1>8, <2>1, <2>6, <2>8 DEF Sound
<1>10. s.pos <= t.pos /\ Len(s.errs) <= Len(t.errs) /\ Len(s.vals) <= Len(t.vals)
  BY <1>1, <1>2, <1>4, <1>7
<1>11. PoolSize(s.pool) <= PoolSize(t.pool)
  BY <1>2, <1>7, PoolFields
<1>12. \A v \in 1..Len(s.vals) : t.vals[v] = s.vals[v]
  BY <1>4, <1>7
<1>13. t \in Adds(s)
  BY <1>7, <1>9, <1>10, <1>11, <1>12 DEF Adds, After, Mark
<1>14. Mark(t) = Mark(s) + 1 /\ Top(t) = i /\ t.vals # <<>>
  <2>1. Len(t.vals) = Len(s.vals) + 1 /\ Len(t.vals) # 0
    BY <1>1, <1>4, <1>7
  <2> QED
    BY <1>4, <1>7, <2>1 DEF Mark, Top
<1>15. i \in Nodes(s.pool) => t \in Yields(s)
  BY <1>7, <1>13, <1>14 DEF Yields, OnNode
<1> QED
  BY <1>t, <1>7, <1>13, <1>14, <1>15

\* The value on top has no place but there.
LEMMA TopAlone ==
    ASSUME NEW s \in Sound, OnNode(s)
    PROVE  /\ Top(s) # NullNode /\ ~Among(Top(s), s.pool.children)
           /\ \A m \in 0..(Mark(s) - 1) : ~Among(Top(s), SubSeq(s.vals, 1, m))
<1>n. PICK n : n = Len(s.vals)
  OBVIOUS
<1>1. s.vals \in Seq(Nat \cup {NullNode}) /\ n \in Nat \ {0} /\ Top(s) = s.vals[n]
      /\ DOMAIN s.vals = 1..n /\ n \in 1..n /\ Mark(s) = n
  <2>1. s.vals \in Seq(Nat \cup {NullNode}) /\ s.vals # <<>>
    BY SoundFields DEF OnNode
  <2> QED
    BY <1>n, <2>1 DEF Top, Mark
<1>2. Top(s) # NullNode
  BY LimitAssumption DEF OnNode, Nodes
<1>3. Distinct(s.vals) /\ Apart(s.pool.children, s.vals)
  BY DEF Sound, Unshared
<1>4. ~Among(Top(s), s.pool.children)
  BY <1>1, <1>2, <1>3 DEF Among, Apart
<1>5. ASSUME NEW m \in 0..(n - 1) PROVE ~Among(Top(s), SubSeq(s.vals, 1, m))
  <2>b. PICK below : below = SubSeq(s.vals, 1, m)
    OBVIOUS
  <2>1. /\ below \in Seq(Nat \cup {NullNode})
        /\ Len(below) = (IF m < 1 THEN 0 ELSE m - 1 + 1)
        /\ \A k \in 1..Len(below) : below[k] = s.vals[1 + k - 1]
    BY <1>1, <1>n, <2>b, SubSeqType
  <2>2. DOMAIN below = 1..m
    BY <1>1, <2>1
  <2>3. \A k \in 1..m : below[k] = s.vals[k] /\ k \in 1..n /\ k # n
    BY <1>1, <2>1
  <2>4. \A k \in 1..m : below[k] # Top(s)
    BY <1>1, <1>2, <1>3, <2>3 DEF Distinct
  <2> QED
    BY <2>b, <2>2, <2>4 DEF Among
<1> QED
  BY <1>1, <1>2, <1>4, <1>5

\* The null node is put below the value on top.
LEMMA NullBelow ==
    ASSUME NEW s \in Sound, OnNode(s), NEW m \in Nat, m = Mark(s) - 1
    PROVE  Push(Push(Drop(s, m), NullNode), Top(s)) \in After(s, m)
<1>n. PICK n : n = Len(s.vals)
  OBVIOUS
<1>1. /\ s \in State /\ s.vals \in Seq(Nodes(s.pool) \cup {NullNode})
      /\ n \in Nat \ {0} /\ Top(s) = s.vals[n] /\ DOMAIN s.vals = 1..n
      /\ Mark(s) = n /\ m = n - 1
  <2>v. PICK vals : vals = s.vals
    OBVIOUS
  <2>1. vals \in Seq(Nat \cup {NullNode}) /\ vals # <<>>
    BY <2>v, SoundFields DEF OnNode
  <2>2. \A v \in DOMAIN vals : vals[v] \in Nodes(s.pool) \cup {NullNode}
    BY <2>v DEF Sound
  <2>3. \A v \in 1..Len(vals) : vals[v] \in Nodes(s.pool) \cup {NullNode}
    BY <2>1, <2>2
  <2>4. vals \in Seq(Nodes(s.pool) \cup {NullNode})
    BY ONLY <2>1, <2>3
  <2>5. n \in Nat \ {0} /\ DOMAIN vals = 1..n
    BY <1>n, <2>v, <2>1
  <2>6. Mark(s) = n /\ m = n - 1
    BY <1>n DEF Mark
  <2> QED
    BY <1>n, <2>v, <2>4, <2>5, <2>6, SoundFields DEF Top
<1>b. PICK below : below = SubSeq(s.vals, 1, m)
  OBVIOUS
<1>2. /\ below \in Seq(Nodes(s.pool) \cup {NullNode}) /\ Len(below) = m
      /\ \A k \in 1..m : below[k] = s.vals[k]
  <2>1. /\ below \in Seq(Nodes(s.pool) \cup {NullNode})
        /\ Len(below) = (IF m < 1 THEN 0 ELSE m - 1 + 1)
        /\ \A k \in 1..Len(below) : below[k] = s.vals[1 + k - 1]
    BY <1>1, <1>b, <1>n, SubSeqType
  <2>2. Len(below) = m /\ \A k \in 1..m : 1 + k - 1 = k
    BY <2>1
  <2> QED
    BY <2>1, <2>2
<1>w. PICK with : with = Append(below, NullNode)
  OBVIOUS
<1>v. PICK vals : vals = Append(with, Top(s))
  OBVIOUS
<1>3. /\ with \in Seq(Nodes(s.pool) \cup {NullNode}) /\ Len(with) = n
      /\ \A k \in 1..m : with[k] = s.vals[k]
      /\ with[n] = NullNode
  <2>1. /\ with \in Seq(Nodes(s.pool) \cup {NullNode}) /\ Len(with) = Len(below) + 1
        /\ \A k \in 1..Len(below) : with[k] = below[k]
        /\ with[Len(below) + 1] = NullNode
    BY <1>2, <1>w, AppendFacts
  <2>2. Len(below) + 1 = n
    BY <1>1, <1>2
  <2> QED
    BY <1>2, <2>1, <2>2
<1>4. /\ vals \in Seq(Nodes(s.pool) \cup {NullNode}) /\ Len(vals) = n + 1
      /\ DOMAIN vals = 1..(n + 1)
      /\ \A k \in 1..m : vals[k] = s.vals[k]
      /\ vals[n] = NullNode /\ vals[n + 1] = s.vals[n]
  <2>1. /\ vals \in Seq(Nodes(s.pool) \cup {NullNode}) /\ Len(vals) = Len(with) + 1
        /\ \A k \in 1..Len(with) : vals[k] = with[k]
        /\ vals[Len(with) + 1] = Top(s)
    <3>1. Top(s) \in Nodes(s.pool) \cup {NullNode}
      BY DEF OnNode
    <3> QED
      BY <1>3, <1>v, <3>1, AppendFacts
  <2>2. Len(vals) = n + 1 /\ DOMAIN vals = 1..(n + 1) /\ n \in 1..n
        /\ \A k \in 1..m : k \in 1..n
    BY <1>1, <1>3, <2>1
  <2> QED
    BY <1>1, <1>3, <2>1, <2>2
<1>t. PICK t : t = Push(Push(Drop(s, m), NullNode), Top(s))
  OBVIOUS
<1>5. t = [s EXCEPT !.vals = vals]
  <2>1. Drop(s, m) = [s EXCEPT !.vals = below]
    BY <1>b DEF Drop
  <2>2. Push(Drop(s, m), NullNode) = [s EXCEPT !.vals = with]
    BY <1>1, <1>w, <2>1 DEF Push, State
  <2> QED
    BY <1>1, <1>t, <1>v, <2>2 DEF Push, State
<1>6. t \in State
  <2>1. Nodes(s.pool) \cup {NullNode} \subseteq Nat \cup {NullNode}
    BY DEF Nodes
  <2>2. vals \in Seq(Nat \cup {NullNode})
    BY <1>4, <2>1
  <2> QED
    BY <1>1, <1>5, <2>2 DEF State
<1>7. /\ t.toks = s.toks /\ t.pool = s.pool /\ t.vals = vals /\ t.stuck = s.stuck
      /\ t.errs = s.errs /\ t.pos = s.pos
  BY <1>1, <1>5 DEF State
<1>8. /\ \A k \in 1..(n + 1) : k = n \/ k = n + 1 \/ (k \in 1..m /\ k \in 1..n /\ k # n)
      /\ \A k \in 1..n : k = n \/ k \in 1..m
      /\ \A k \in 1..m : k \in 1..(n + 1)
      /\ n \in 1..n /\ n + 1 \in 1..(n + 1)
  BY <1>1
<1>9. Unshared(s.pool.children, s.vals) /\ Lossless(s)
  BY DEF Sound
<1>10. Distinct(vals)
  <2> SUFFICES ASSUME NEW j \in DOMAIN vals, NEW k \in DOMAIN vals, vals[j] = vals[k],
                      vals[j] # NullNode
               PROVE  j = k
    BY DEF Distinct
  <2>1. CASE j \in 1..m /\ k \in 1..m
    BY <1>1, <1>4, <1>8, <1>9, <2>1 DEF Unshared, Distinct
  <2>2. CASE ~(j \in 1..m /\ k \in 1..m)
    BY <1>1, <1>4, <1>8, <1>9, <2>2 DEF Unshared, Distinct
  <2> QED
    BY <2>1, <2>2
<1>11. Apart(s.pool.children, vals)
  <2> SUFFICES ASSUME NEW j \in DOMAIN s.pool.children, NEW k \in DOMAIN vals,
                      s.pool.children[j] = vals[k]
               PROVE  s.pool.children[j] = NullNode
    BY DEF Apart
  <2>1. vals[k] = NullNode \/ \E v \in 1..n : vals[k] = s.vals[v]
    BY <1>4, <1>8
  <2> QED
    BY <1>1, <1>9, <2>1 DEF Unshared, Apart
<1>12. \A i : Among(i, s.vals) => Among(i, vals)
  BY <1>1, <1>4, <1>8 DEF Among
<1>13. Unshared(t.pool.children, t.vals) /\ Lossless(t)
  BY <1>7, <1>9, <1>10, <1>11, <1>12 DEF Unshared, Lossless
<1>14. \A v \in DOMAIN t.vals : t.vals[v] \in Nodes(t.pool) \cup {NullNode}
  <2>1. \A v \in DOMAIN vals : vals[v] \in Nodes(s.pool) \cup {NullNode}
    BY <1>4
  <2> QED
    BY <1>7, <2>1
<1>15. t \in Sound
  <2>1. ErrsSound(t)
    BY <1>7, SameErrs
  <2> QED
    BY <1>6, <1>7, <1>13, <1>14, <2>1 DEF Sound
<1>16. /\ s.pos <= t.pos /\ Len(s.errs) <= Len(t.errs) /\ m <= Len(t.vals)
       /\ PoolSize(s.pool) <= PoolSize(t.pool)
  <2>1. s.pos \in Nat /\ Len(s.errs) \in Nat /\ PoolSize(s.pool) \in Nat
    BY SoundFields, PoolFields
  <2> QED
    BY <1>1, <1>4, <1>7, <2>1
<1> QED
  BY <1>4, <1>7, <1>15, <1>16, <1>t DEF After

-----------------------------------------------------------------------------
(* Pieces shared by the productions.                                       *)

LEMMA SegmentFacts ==
    ASSUME NEW s \in Sound, Check(s, "::")
    PROVE  Segment(s) \in Moves(s) /\ Segment(s).pos > s.pos
<1> DEFINE round == [t \in State |-> Advance(Diag(t, "RedundantPathSeparator"))]
           more == At("::")
<1>a. PICK a : a = Advance(s)
  OBVIOUS
<1>1. a \in Moves(s) /\ a \in Sound /\ a.pos = s.pos + 1 /\ s.pos \in Nat
  <2>1. a \in Moves(s) /\ a.pos = s.pos + 1
    BY <1>a, AdvanceFacts DEF Check
  <2> QED
    BY <2>1, MovesAdds
<1>2. ASSUME NEW t \in Moves(a), more[t]
      PROVE  round[t] \in Moves(t) /\ round[t].pos > t.pos
  <2>1. t \in Sound /\ t \in State /\ t.pos \in Nat
    BY <1>1, MovesAdds DEF Sound
  <2>2. Check(t, "::") /\ round[t] = Advance(Diag(t, "RedundantPathSeparator"))
    BY <1>2, <2>1 DEF At
  <2>d. PICK d : d = Diag(t, "RedundantPathSeparator")
    OBVIOUS
  <2>3. d \in Moves(t) /\ d.pos = t.pos
    <3>1. "RedundantPathSeparator" \in BareIDs
      BY DEF DiagID, BareIDs
    <3> QED
      BY <2>1, <2>d, <3>1, PlainDiag
  <2>4. d \in Sound /\ d.toks = t.toks
    BY <2>1, <2>3, MovesAdds
  <2>5. Peek(d) # "eof"
    BY <2>1, <2>2, <2>3, <2>4, SamePeek DEF Check
  <2>6. Advance(d) \in Moves(d) /\ Advance(d).pos = t.pos + 1
    BY <2>3, <2>4, <2>5, AdvanceFacts
  <2> QED
    BY <2>1, <2>2, <2>d, <2>3, <2>6, MovesMoves
<1>w. PICK w : w = While(a, more, round)
  OBVIOUS
<1> HIDE DEF round, more
<1>3. w \in Moves(a)
  BY <1>1, <1>2, <1>w, WhileMoves
<1>4. w \in Sound /\ a.pos <= w.pos /\ w.pos \in Nat /\ w \in Moves(s)
  BY <1>1, <1>3, MovesAdds, MovesMoves
<1>5. "identifier" \in TokenKind /\ "ExpectedPathSegment" \in ExpectIDs
  BY DEF TokenKind, DiagID, ExpectIDs
<1>6. Segment(s) = Expect(w, "identifier", "ExpectedPathSegment")
  BY <1>a, <1>w DEF Segment, round, more
<1>7. Segment(s) \in Moves(w)
  BY <1>4, <1>5, <1>6, ExpectFacts
<1>8. Segment(s) \in Moves(s) /\ w.pos <= Segment(s).pos /\ Segment(s).pos \in Nat
  BY <1>4, <1>7, MovesAdds, MovesMoves
<1> QED
  BY <1>1, <1>4, <1>8

LEMMA PathSegmentsFacts ==
    ASSUME NEW s \in Sound
    PROVE  PathSegments(s) \in Moves(s)
<1> DEFINE round == [t \in State |-> Segment(t)]
           more == At("::")
<1>1. ASSUME NEW t \in Moves(s), more[t]
      PROVE  round[t] \in Moves(t) /\ round[t].pos > t.pos
  <2>1. t \in Sound /\ t \in State
    BY MovesAdds DEF Sound
  <2>2. Check(t, "::") /\ round[t] = Segment(t)
    BY <1>1, <2>1 DEF At
  <2> QED
    BY <2>1, <2>2, SegmentFacts
<1>2. PathSegments(s) = While(s, more, round)
  BY DEF PathSegments
<1> HIDE DEF round, more
<1> QED
  BY <1>1, <1>2, WhileMoves

LEMMA CommentsFacts ==
    ASSUME NEW s \in Sound, NEW token, token # "eof", NEW kind \in Proper
    PROVE  Comments(s, token, kind) \in Adds(s) /\ ~Check(Comments(s, token, kind), token)
<1> DEFINE round == [t \in State |->
                        Leaf(Advance(t), kind, <<Here(t), Here(t)>>, Named(TextHere(t)))]
           more == At(token)
<1>1. ASSUME NEW t \in Adds(s), more[t]
      PROVE  round[t] \in Adds(t) /\ round[t].pos > t.pos
  <2>1. t \in Sound /\ t \in State /\ t.pos \in Nat
    BY Onward, SoundFields DEF Adds, Sound
  <2>2. Check(t, token)
    BY <1>1, <2>1 DEF At
  <2>3. Advance(t) \in Moves(t) /\ Advance(t).pos = t.pos + 1
    BY <2>1, <2>2, AdvanceFacts DEF Check
  <2>4. <<Here(t), Here(t)>> \in Nat \X Nat /\ Named(TextHere(t)) \in Payload
    BY <2>1, PlaceTypes, PayloadTypes
  <2>5. LET u == Leaf(Advance(t), kind, <<Here(t), Here(t)>>, Named(TextHere(t)))
        IN  u \in Yields(t) /\ u.pos = Advance(t).pos
    BY <2>1, <2>3, <2>4, LeafYields
  <2>6. round[t] \in Yields(t) /\ round[t].pos = t.pos + 1
    BY <2>1, <2>3, <2>5
  <2> QED
    BY <2>1, <2>6 DEF Yields
<1>w. PICK w : w = While(s, more, round)
  OBVIOUS
<1>2. w = Comments(s, token, kind)
  BY <1>w DEF Comments
<1>3. w \in Adds(s) /\ w \in Sound /\ ~more[w]
  <2> HIDE DEF round, more
  <2>1. s \in Adds(s)
    BY Itself
  <2> QED
    BY <1>1, <1>w, <2>1, WhileAdds
<1>4. ~Check(w, token)
  BY <1>3 DEF At, Sound
<1> QED
  BY <1>2, <1>3, <1>4

\* What a function makes of the sound states over the tokens from a position on.
Adding(f, toks, q) ==
    \A t \in Sound : t.toks = toks /\ q <= t.pos => f[t] \in Adds(t)
Yielding(f, toks, q) ==
    \A t \in Sound : t.toks = toks /\ q <= t.pos => f[t] \in Yields(t)

LEMMA YieldingAdds ==
    ASSUME NEW f, NEW toks, NEW q, Yielding(f, toks, q)
    PROVE  Adding(f, toks, q)
BY DEF Adding, Yielding, Yields

LEMMA WithStructLitFacts ==
    ASSUME NEW s \in Sound, NEW allowed \in BOOLEAN, NEW f, NEW q \in Nat, q <= s.pos
    PROVE  LET u == WithStructLit(s, allowed, f)
           IN  /\ Adding(f, s.toks, q) => u \in Adds(s)
               /\ Yielding(f, s.toks, q) => u \in Yields(s)
<1>a. PICK a : a = [s EXCEPT !.allow = allowed]
  OBVIOUS
<1>b. PICK b : b = f[a]
  OBVIOUS
<1>c. PICK c : c = [b EXCEPT !.allow = s.allow]
  OBVIOUS
<1>1. WithStructLit(s, allowed, f) = c
  BY <1>a, <1>b, <1>c DEF WithStructLit
<1>2. a \in Moves(s) /\ a \in Sound /\ a.toks = s.toks /\ a.pos = s.pos /\ s.allow \in BOOLEAN
  <2>1. a \in Moves(s) /\ a.pos = s.pos
    BY <1>a, AllowFacts
  <2> QED
    BY <2>1, MovesAdds, SoundFields
<1>3. ASSUME b \in Adds(a)
      PROVE  c \in Moves(b) /\ c \in Adds(s) /\ b \in Sound
  <2>1. b \in Sound
    BY <1>2, <1>3, SoundFields, Onward DEF Adds
  <2>2. c \in Moves(b)
    BY <1>2, <1>c, <2>1, AllowFacts
  <2>3. c \in Adds(a)
    BY <1>2, <1>3, <2>1, <2>2, MovesAdds, AddsAdds
  <2> QED
    BY <1>2, <2>1, <2>2, <2>3, MovesAdds, AddsAdds
<1>4. ASSUME b \in Yields(a)
      PROVE  c \in Yields(s)
  <2>1. c \in Moves(b) /\ b \in Sound
    BY <1>3, <1>4 DEF Yields
  <2>2. c \in Yields(a)
    BY <1>2, <1>4, <2>1, YieldsMoves
  <2> QED
    BY <1>2, <2>2, MovesYields
<1>5. Adding(f, s.toks, q) => b \in Adds(a)
  BY <1>2, <1>b DEF Adding
<1>6. Yielding(f, s.toks, q) => b \in Yields(a)
  BY <1>2, <1>b DEF Yielding
<1> QED
  BY <1>1, <1>3, <1>4, <1>5, <1>6

\* From the elements of a list to the list.
LEMMA MoreElementsAdds ==
    ASSUME NEW s \in Sound, NEW u \in Adds(s), NEW closers, NEW f,
           Adding(f, s.toks, u.pos + 1)
    PROVE  MoreElements(u, closers, f) \in Adds(s)
<1> DEFINE more == [t \in State |-> Check(t, ",") /\ PeekAt(t, 1) \notin closers]
           round == [t \in State |-> f[Advance(t)]]
<1>0. u \in Sound /\ u.pos \in Nat /\ u.toks = s.toks
  BY SoundFields, Onward DEF Adds
<1>1. ASSUME NEW t \in Adds(s), more[t], u.pos <= t.pos
      PROVE  round[t] \in Adds(t) /\ round[t].pos > t.pos
  <2>1. t \in Sound /\ t \in State /\ t.pos \in Nat /\ t.toks = s.toks
    BY Onward, SoundFields DEF Adds, Sound
  <2>2. Check(t, ",") /\ round[t] = f[Advance(t)]
    BY <1>1, <2>1
  <2> HIDE DEF more, round
  <2>a. PICK a : a = Advance(t)
    OBVIOUS
  <2>3. a \in Moves(t) /\ a.pos = t.pos + 1
    BY <2>1, <2>2, <2>a, AdvanceFacts DEF Check
  <2>4. a \in Sound /\ a.toks = s.toks /\ a \in Adds(t)
    BY <2>1, <2>3, MovesAdds
  <2>5. u.pos + 1 <= a.pos
    BY <1>0, <1>1, <2>1, <2>3
  <2>6. f[a] \in Adds(a)
    BY <2>4, <2>5 DEF Adding
  <2>7. f[a] \in Adds(t) /\ a.pos <= f[a].pos /\ f[a].pos \in Nat
    BY <2>1, <2>4, <2>6, AddsAdds, SoundFields, Onward DEF Adds
  <2>8. round[t] = f[a]
    BY <2>2, <2>a
  <2>9. f[a].pos > t.pos
    BY <2>1, <2>3, <2>7
  <2> QED
    BY <2>7, <2>8, <2>9
<1>w. PICK w : w = While(u, more, round)
  OBVIOUS
<1>2. MoreElements(u, closers, f) = Consume(w, ",")
  BY <1>w DEF MoreElements
<1> HIDE DEF more, round
<1>3. w \in Adds(s) /\ w \in Sound
  BY <1>1, <1>w, WhileAdds
<1>4. Consume(w, ",") \in Moves(w)
  BY <1>3, ConsumeFacts
<1> QED
  BY <1>2, <1>3, <1>4, MovesAdds, AddsAdds

LEMMA ListElementAdding ==
    ASSUME NEW f, NEW close, NEW toks, NEW q, Adding(f, toks, q)
    PROVE  Adding(ListElement(close, f), toks, q)
<1>1. SUFFICES ASSUME NEW s \in Sound, s.toks = toks, q <= s.pos
               PROVE  ListElement(close, f)[s] \in Adds(s)
  BY DEF Adding
<1>2. f[s] \in Adds(s) /\ s \in State
  BY <1>1 DEF Adding, Sound
<1>t. PICK t : t = f[s]
  OBVIOUS
<1>3. t \in Sound
  BY <1>2, <1>t, SoundFields, Onward DEF Adds
<1>4. SkipTo(t, {",", close}) \in Moves(t)
  BY <1>3, SkipToFacts
<1>5. SkipTo(t, {",", close}) \in Adds(s)
  BY <1>2, <1>t, <1>3, <1>4, MovesAdds, AddsAdds
<1>6. ListElement(close, f)[s] \in {t, SkipTo(t, {",", close})}
  BY <1>2, <1>t DEF ListElement
<1> QED
  BY <1>2, <1>t, <1>5, <1>6

LEMMA CommaSeparatedAdds ==
    ASSUME NEW s \in Sound, NEW close, NEW f, Adding(f, s.toks, s.pos)
    PROVE  CommaSeparated(s, close, f) \in Adds(s)
<1> DEFINE one == ListElement(close, f)
<1>0. s.pos \in Nat
  BY SoundFields
<1>1. Adding(one, s.toks, s.pos)
  BY ListElementAdding
<1> HIDE DEF one
<1>2. one[s] \in Adds(s)
  BY <1>0, <1>1 DEF Adding
<1>u. PICK u : u = one[s]
  OBVIOUS
<1>3. Adding(one, s.toks, u.pos + 1)
  <2>1. u.pos \in Nat /\ s.pos <= u.pos
    BY <1>2, <1>u, SoundFields, Onward DEF Adds
  <2>2. \A t \in Sound : u.pos + 1 <= t.pos => s.pos <= t.pos
    BY <1>0, <2>1, SoundFields
  <2> QED
    BY <1>1, <2>2 DEF Adding
<1>4. MoreElements(u, {close}, one) \in Adds(s)
  BY <1>2, <1>u, <1>3, MoreElementsAdds
<1>5. CommaSeparated(s, close, f) \in {s, MoreElements(u, {close}, one)}
  BY <1>u DEF CommaSeparated, one
<1> QED
  BY <1>4, <1>5, Itself

\* Loops whose rounds replace the operand.
LEMMA WhileWraps ==
    ASSUME NEW s \in Sound, OnNode(s), NEW goesOn, NEW round,
           \A t \in Wraps(s) : goesOn[t] => round[t] \in Wraps(t) /\ round[t].pos > t.pos
    PROVE  /\ While(s, goesOn, round) \in Wraps(s)
           /\ ~goesOn[While(s, goesOn, round)]
<1>0. \A t \in Wraps(s) : /\ t \in Sound /\ OnNode(t) /\ t.toks = s.toks /\ t \in State
                          /\ t.pos \in 0..Len(s.toks) /\ ~t.stuck /\ t.pos \in Nat
  BY WrapsFacts, SoundFields
<1>1. Wraps(s) \in SUBSET State
  BY <1>0
<1>2. s \in Wraps(s)
  BY Itself, MovesWraps
<1>3. \A t \in Wraps(s) : goesOn[t] => round[t] \in Wraps(s) /\ round[t].pos > t.pos
  BY <1>0, WrapsWraps
<1> QED
  BY <1>0, <1>1, <1>2, <1>3, WhileRule

-----------------------------------------------------------------------------
(* Chains of productions.                                                  *)

LEMMA ThenAdds ==
    ASSUME NEW s \in Sound, NEW t \in Adds(s), NEW u \in Adds(t)
    PROVE  /\ u \in Adds(s) /\ u \in Sound /\ u.toks = s.toks
           /\ s.pos \in Nat /\ t.pos \in Nat /\ u.pos \in Nat
           /\ s.pos <= t.pos /\ t.pos <= u.pos
           /\ Mark(s) \in Nat /\ Mark(t) \in Nat /\ Mark(u) \in Nat
           /\ Mark(s) <= Mark(t) /\ Mark(t) <= Mark(u)
<1>1. t \in Sound /\ Mark(s) \in Nat /\ Mark(t) \in Nat
  BY SoundFields, Onward DEF Adds
<1>2. u \in Adds(s)
  BY AddsAdds
<1>3. /\ t.toks = s.toks /\ s.pos \in Nat /\ t.pos \in Nat /\ s.pos <= t.pos
      /\ Mark(s) <= Mark(t)
  BY <1>1, Onward DEF Adds
<1>4. /\ u \in Sound /\ u.toks = t.toks /\ u.pos \in Nat /\ t.pos <= u.pos
      /\ Mark(u) \in Nat /\ Mark(t) <= Mark(u)
  BY <1>1, Onward DEF Adds
<1> QED
  BY <1>1, <1>2, <1>3, <1>4

LEMMA FirstAdds ==
    ASSUME NEW s \in Sound, NEW t \in Adds(s)
    PROVE  /\ t \in Sound /\ t.toks = s.toks
           /\ s.pos \in Nat /\ t.pos \in Nat /\ s.pos <= t.pos
           /\ Mark(s) \in Nat /\ Mark(t) \in Nat /\ Mark(s) <= Mark(t)
BY SoundFields, Onward DEF Adds

LEMMA ThenMoves ==
    ASSUME NEW s \in Sound, NEW t \in Adds(s), NEW u \in Moves(t)
    PROVE  /\ u \in Adds(s) /\ u \in Sound /\ u.toks = s.toks
           /\ s.pos \in Nat /\ t.pos \in Nat /\ u.pos \in Nat
           /\ s.pos <= t.pos /\ t.pos <= u.pos
           /\ Mark(u) = Mark(t) /\ Mark(t) \in Nat
           /\ t \in Moves(s) => u \in Moves(s)
           /\ t \in Yields(s) => u \in Yields(s)
<1>1. t \in Sound
  BY FirstAdds
<1>2. u \in Adds(t) /\ Mark(u) = Mark(t)
  BY <1>1, MovesAdds
<1> QED
  BY <1>1, <1>2, ThenAdds, MovesMoves, YieldsMoves

LEMMA ThenYields ==
    ASSUME NEW s \in Sound, NEW t \in Adds(s), NEW u \in Yields(t)
    PROVE  /\ u \in Adds(s) /\ u \in Sound /\ u.toks = s.toks
           /\ s.pos \in Nat /\ t.pos \in Nat /\ u.pos \in Nat
           /\ s.pos <= t.pos /\ t.pos <= u.pos
           /\ Mark(u) = Mark(t) + 1 /\ Mark(t) \in Nat /\ OnNode(u)
           /\ t \in Moves(s) => u \in Yields(s)
<1>1. t \in Sound
  BY FirstAdds
<1>2. u \in Adds(t) /\ Mark(u) = Mark(t) + 1 /\ OnNode(u)
  BY <1>1, YieldsAdds
<1> QED
  BY <1>1, <1>2, ThenAdds, MovesYields

LEMMA AddingLater ==
    ASSUME NEW f, NEW toks, NEW q \in Nat, NEW r \in Nat, q <= r, Adding(f, toks, q)
    PROVE  Adding(f, toks, r)
<1>1. \A t \in Sound : r <= t.pos => q <= t.pos
  BY SoundFields
<1> QED
  BY <1>1 DEF Adding

\* The production that began in s comes to t, which is not before the position q;
\* and it has added nothing yet.
Reaches(s, q, t) == t \in Adds(s) /\ q <= t.pos
Comes(s, q, t) == t \in Moves(s) /\ q <= t.pos

LEMMA ReachesFacts ==
    ASSUME NEW s \in Sound, NEW q \in Nat, NEW t, Reaches(s, q, t)
    PROVE  /\ t \in Sound /\ t \in Adds(s) /\ t.toks = s.toks /\ q <= t.pos
           /\ s.pos \in Nat /\ t.pos \in Nat /\ s.pos <= t.pos
           /\ Mark(s) \in Nat /\ Mark(t) \in Nat /\ Mark(s) <= Mark(t)
BY FirstAdds DEF Reaches

LEMMA ComesReaches ==
    ASSUME NEW s \in Sound, NEW q \in Nat, NEW t, Comes(s, q, t)
    PROVE  Reaches(s, q, t) /\ Mark(t) = Mark(s) /\ t \in Moves(s)
BY MovesAdds DEF Comes, Reaches

LEMMA ReachesThen ==
    ASSUME NEW s \in Sound, NEW q \in Nat, NEW t, Reaches(s, q, t)
    PROVE  /\ \A u \in Adds(t) : Reaches(s, q, u)
           /\ \A u \in Moves(t) : Reaches(s, q, u)
           /\ \A u \in Yields(t) : Reaches(s, q, u) /\ OnNode(u) /\ Mark(u) = Mark(t) + 1
<1>1. t \in Adds(s) /\ q <= t.pos /\ t \in Sound
  BY FirstAdds DEF Reaches
<1>2. ASSUME NEW u \in Adds(t)
      PROVE  Reaches(s, q, u)
  <2>1. u \in Adds(s) /\ t.pos \in Nat /\ u.pos \in Nat /\ t.pos <= u.pos
    BY <1>1, ThenAdds
  <2>2. q <= u.pos
    BY <1>1, <2>1
  <2> QED
    BY <2>1, <2>2 DEF Reaches
<1> QED
  BY <1>1, <1>2, MovesAdds, YieldsAdds

LEMMA ComesThen ==
    ASSUME NEW s \in Sound, NEW q \in Nat, NEW t, Comes(s, q, t)
    PROVE  /\ \A u \in Moves(t) : Comes(s, q, u)
           /\ \A u \in Yields(t) : u \in Yields(s) /\ q <= u.pos
<1>1. t \in Moves(s) /\ t \in Adds(s) /\ t \in Sound /\ q <= t.pos
  BY MovesAdds DEF Comes
<1>2. ASSUME NEW u \in Moves(t)
      PROVE  Comes(s, q, u)
  <2>1. u \in Moves(s) /\ t.pos \in Nat /\ u.pos \in Nat /\ t.pos <= u.pos
    BY <1>1, ThenMoves
  <2>2. q <= u.pos
    BY <1>1, <2>1
  <2> QED
    BY <2>1, <2>2 DEF Comes
<1>3. ASSUME NEW u \in Yields(t)
      PROVE  u \in Yields(s) /\ q <= u.pos
  <2>1. u \in Yields(s) /\ t.pos \in Nat /\ u.pos \in Nat /\ t.pos <= u.pos
    BY <1>1, ThenYields
  <2> QED
    BY <1>1, <2>1
<1> QED
  BY <1>2, <1>3

LEMMA ReachesLists ==
    ASSUME NEW s \in Sound, NEW q \in Nat, NEW t, Reaches(s, q, t), NEW f, Adding(f, s.toks, q)
    PROVE  /\ \A close : Reaches(s, q, CommaSeparated(t, close, f))
           /\ \A closers : Reaches(s, q, MoreElements(t, closers, f))
<1>1. t \in Sound /\ t \in Adds(s) /\ t.toks = s.toks /\ t.pos \in Nat /\ q <= t.pos
  BY ReachesFacts
<1>2. t.pos + 1 \in Nat /\ q <= t.pos + 1
  BY <1>1
<1>3. Adding(f, t.toks, t.pos) /\ Adding(f, t.toks, t.pos + 1)
  BY <1>1, <1>2, AddingLater
<1>4. t \in Adds(t)
  BY <1>1, Itself
<1>5. \A close : CommaSeparated(t, close, f) \in Adds(t)
  BY <1>1, <1>3, CommaSeparatedAdds
<1>6. \A closers : MoreElements(t, closers, f) \in Adds(t)
  BY <1>1, <1>3, <1>4, MoreElementsAdds
<1> QED
  BY <1>5, <1>6, ReachesThen

\* The steps that add nothing.
LEMMA ReachesMoves ==
    ASSUME NEW s \in Sound, NEW q \in Nat, NEW t, Reaches(s, q, t)
    PROVE  /\ Reaches(s, q, Advance(t)) /\ Reaches(s, q, ExpectName(t))
           /\ Reaches(s, q, SkipRegime(t)) /\ Reaches(s, q, ExpectSemi(t))
           /\ Reaches(s, q, Synchronize(t))
           /\ \A kind : Reaches(s, q, Consume(t, kind))
           /\ \A kinds : Reaches(s, q, SkipTo(t, kinds))
           /\ \A diag \in BareIDs : Reaches(s, q, Diag(t, diag))
           /\ \A diag \in DiagID, args \in Args :
                  Filled(t.toks, [id |-> diag, args |-> args]) =>
                      Reaches(s, q, DiagWith(t, diag, args))
           /\ \A kind \in TokenKind, diag \in ExpectIDs : Reaches(s, q, Expect(t, kind, diag))
<1>1. t \in Sound
  BY ReachesFacts
<1>2. \A u \in Moves(t) : Reaches(s, q, u)
  BY ReachesThen
<1>3. /\ Advance(t) \in Moves(t) /\ ExpectName(t) \in Moves(t)
      /\ SkipRegime(t) \in Moves(t) /\ ExpectSemi(t) \in Moves(t)
      /\ Synchronize(t) \in Moves(t)
  BY <1>1, AdvanceFacts, ExpectNameFacts, SkipRegimeFacts, ExpectSemiFacts, SynchronizeFacts
<1>4. (\A kind : Consume(t, kind) \in Moves(t)) /\ (\A kinds : SkipTo(t, kinds) \in Moves(t))
  BY <1>1, ConsumeFacts, SkipToFacts
<1>5. /\ \A diag \in BareIDs : Diag(t, diag) \in Moves(t)
      /\ \A diag \in DiagID, args \in Args :
             Filled(t.toks, [id |-> diag, args |-> args]) => DiagWith(t, diag, args) \in Moves(t)
      /\ \A kind \in TokenKind, diag \in ExpectIDs : Expect(t, kind, diag) \in Moves(t)
  BY <1>1, PlainDiag, DiagFacts, ExpectFacts
<1> QED
  BY <1>2, <1>3, <1>4, <1>5

LEMMA ComesMoves ==
    ASSUME NEW s \in Sound, NEW q \in Nat, NEW t, Comes(s, q, t)
    PROVE  /\ Comes(s, q, Advance(t)) /\ Comes(s, q, ExpectName(t))
           /\ Comes(s, q, SkipRegime(t)) /\ Comes(s, q, PathSegments(t))
           /\ Comes(s, q, Synchronize(t)) /\ Comes(s, q, NameMissing(t))
           /\ \A diag \in BareIDs : Comes(s, q, Diag(t, diag))
           /\ \A diag \in DiagID, args \in Args :
                  Filled(t.toks, [id |-> diag, args |-> args]) =>
                      Comes(s, q, DiagWith(t, diag, args))
           /\ \A kind \in TokenKind, diag \in ExpectIDs : Comes(s, q, Expect(t, kind, diag))
           /\ \A kind : Comes(s, q, Consume(t, kind))
<1>1. t \in Sound
  BY MovesAdds DEF Comes
<1>2. \A u \in Moves(t) : Comes(s, q, u)
  BY ComesThen
<1>3. /\ Advance(t) \in Moves(t) /\ ExpectName(t) \in Moves(t)
      /\ SkipRegime(t) \in Moves(t) /\ PathSegments(t) \in Moves(t)
      /\ Synchronize(t) \in Moves(t) /\ NameMissing(t) \in Moves(t)
  BY <1>1, AdvanceFacts, ExpectNameFacts, SkipRegimeFacts, PathSegmentsFacts,
     SynchronizeFacts, NameMissingFacts
<1>4. /\ \A diag \in BareIDs : Diag(t, diag) \in Moves(t)
      /\ \A diag \in DiagID, args \in Args :
             Filled(t.toks, [id |-> diag, args |-> args]) => DiagWith(t, diag, args) \in Moves(t)
      /\ \A kind \in TokenKind, diag \in ExpectIDs : Expect(t, kind, diag) \in Moves(t)
      /\ \A kind : Consume(t, kind) \in Moves(t)
  BY <1>1, PlainDiag, DiagFacts, ExpectFacts, ConsumeFacts
<1> QED
  BY <1>2, <1>3, <1>4

\* How a production begins: where it is, or behind its first token.
LEMMA Begins ==
    ASSUME NEW s \in Sound
    PROVE  /\ s.pos \in Nat /\ s.pos + 1 \in Nat
           /\ Comes(s, s.pos, s)
           /\ Peek(s) # "eof" => Comes(s, s.pos + 1, Advance(s))
           /\ \A kind \in TokenKind, diag \in ExpectIDs :
                  Check(s, kind) /\ kind # "eof" => Comes(s, s.pos + 1, Expect(s, kind, diag))
<1>1. s.pos \in Nat /\ s \in Moves(s)
  BY SoundFields, Itself
<1>2. Peek(s) # "eof" => Comes(s, s.pos + 1, Advance(s))
  BY <1>1, AdvanceFacts DEF Comes
<1>3. ASSUME NEW kind \in TokenKind, NEW diag \in ExpectIDs, Check(s, kind), kind # "eof"
      PROVE  Comes(s, s.pos + 1, Expect(s, kind, diag))
  BY <1>1, <1>3, ExpectFacts DEF Comes
<1> QED
  BY <1>1, <1>2, <1>3 DEF Comes

-----------------------------------------------------------------------------
(* What a call is asked for, and what it gives.                            *)

\* Before these tokens a production may leave the cursor where it is.
Stays(rule) ==
    CASE rule = "pat" -> {"eof"}
      [] rule = "stmt" -> {"}", "eof"}
      [] rule = "decl" -> {"eof"}
      [] rule = "expr" -> {";", "}", ")", "]", ",", "eof"}
      [] OTHER -> TokenKind

Asks(rule, s) ==
    /\ rule = "infix" => OnNode(s)
    /\ rule = "if" => Check(s, "if")

Keeps(rule, s, t) ==
    IF rule = "infix" THEN t \in Wraps(s)
    ELSE t \in Yields(s) /\ (Peek(s) \notin Stays(rule) => t.pos > s.pos)

\* The calls through P keep to it, from a position on.
Ready(P, rules, toks, q) ==
    \A rule \in rules, bp \in Nat, s \in Sound :
        s.toks = toks /\ q <= s.pos /\ Asks(rule, s) => Keeps(rule, s, P[<<rule, bp, s>>])

LEMMA OperandCalls ==
    ASSUME NEW P, NEW toks, NEW q, Ready(P, {"type", "expr"}, toks, q),
           NEW s \in Sound, s.toks = toks, q <= s.pos
    PROVE  /\ ParseType(P, s) \in Yields(s)
           /\ \A bp \in Nat :
                 /\ ParseExpr(P, s, bp) \in Yields(s)
                 /\ Peek(s) \notin {";", "}", ")", "]", ",", "eof"} =>
                        ParseExpr(P, s, bp).pos > s.pos
           /\ ParseAnyExpr(P, s) \in Yields(s)
           /\ Peek(s) \notin {";", "}", ")", "]", ",", "eof"} =>
                  ParseAnyExpr(P, s).pos > s.pos
           /\ ParseConstExpr(P, s) = ParseAnyExpr(P, s)
<1>1. \A rule \in {"type", "expr"}, bp \in Nat : Keeps(rule, s, P[<<rule, bp, s>>])
  BY DEF Ready, Asks
<1>2. ParseType(P, s) \in Yields(s)
  BY <1>1 DEF ParseType, Keeps
<1>3. ASSUME NEW bp \in Nat
      PROVE  /\ ParseExpr(P, s, bp) \in Yields(s)
             /\ Peek(s) \notin {";", "}", ")", "]", ",", "eof"} =>
                    ParseExpr(P, s, bp).pos > s.pos
  BY <1>1 DEF ParseExpr, Keeps, Stays
<1>4. 0 \in Nat
  OBVIOUS
<1> QED
  BY <1>2, <1>3, <1>4 DEF ParseAnyExpr, ParseConstExpr

LEMMA ReadyOperands ==
    ASSUME NEW P, NEW toks, NEW q, Ready(P, Rules, toks, q)
    PROVE  Ready(P, {"type", "expr"}, toks, q)
BY DEF Ready, Rules

LEMMA NestedCalls ==
    ASSUME NEW P, NEW toks, NEW q, Ready(P, Rules, toks, q),
           NEW s \in Sound, s.toks = toks, q <= s.pos
    PROVE  /\ ParsePat(P, s) \in Yields(s)
           /\ Peek(s) # "eof" => ParsePat(P, s).pos > s.pos
           /\ StmtAt(P)[s] \in Yields(s)
           /\ Peek(s) \notin {"}", "eof"} => StmtAt(P)[s].pos > s.pos
           /\ DeclAt(P)[s] \in Yields(s)
           /\ Peek(s) # "eof" => DeclAt(P)[s].pos > s.pos
           /\ Check(s, "if") => P[<<"if", 0, s>>] \in Yields(s)
           /\ \A bp \in Nat : OnNode(s) => P[<<"infix", bp, s>>] \in Wraps(s)
<1>1. \A rule \in Rules, bp \in Nat : Asks(rule, s) => Keeps(rule, s, P[<<rule, bp, s>>])
  BY DEF Ready
<1>2. {"pat", "stmt", "decl", "if", "infix"} \subseteq Rules /\ 0 \in Nat
  BY DEF Rules
<1>3. s \in State
  BY SoundFields
<1>4. ParsePat(P, s) \in Yields(s) /\ (Peek(s) # "eof" => ParsePat(P, s).pos > s.pos)
  <2>1. Keeps("pat", s, P[<<"pat", 0, s>>])
    BY <1>1, <1>2 DEF Asks
  <2> QED
    BY <2>1 DEF ParsePat, Keeps, Stays
<1>5. /\ StmtAt(P)[s] \in Yields(s)
      /\ Peek(s) \notin {"}", "eof"} => StmtAt(P)[s].pos > s.pos
  <2>1. Keeps("stmt", s, P[<<"stmt", 0, s>>])
    BY <1>1, <1>2 DEF Asks
  <2> QED
    BY <1>3, <2>1 DEF StmtAt, Keeps, Stays
<1>6. /\ DeclAt(P)[s] \in Yields(s)
      /\ Peek(s) # "eof" => DeclAt(P)[s].pos > s.pos
  <2>1. Keeps("decl", s, P[<<"decl", 0, s>>])
    BY <1>1, <1>2 DEF Asks
  <2> QED
    BY <1>3, <2>1 DEF DeclAt, Keeps, Stays
<1>7. Check(s, "if") => P[<<"if", 0, s>>] \in Yields(s)
  <2>1. Check(s, "if") => Keeps("if", s, P[<<"if", 0, s>>])
    BY <1>1, <1>2 DEF Asks
  <2> QED
    BY <2>1 DEF Keeps
<1>8. ASSUME NEW bp \in Nat, OnNode(s)
      PROVE  P[<<"infix", bp, s>>] \in Wraps(s)
  <2>1. Keeps("infix", s, P[<<"infix", bp, s>>])
    BY <1>1, <1>2, <1>8 DEF Asks
  <2> QED
    BY <2>1 DEF Keeps
<1> QED
  BY <1>4, <1>5, <1>6, <1>7, <1>8

LEMMA ListsOfOperands ==
    ASSUME NEW P, NEW toks, NEW q, Ready(P, {"type", "expr"}, toks, q)
    PROVE  Yielding(TypeAt(P), toks, q) /\ Yielding(ExprAt(P), toks, q)
           /\ Adding(TypeAt(P), toks, q) /\ Adding(ExprAt(P), toks, q)
<1>1. \A t \in Sound : t \in State /\ (t.toks = toks /\ q <= t.pos =>
          ParseType(P, t) \in Yields(t) /\ ParseAnyExpr(P, t) \in Yields(t))
  BY OperandCalls, SoundFields
<1>2. Yielding(TypeAt(P), toks, q) /\ Yielding(ExprAt(P), toks, q)
  BY <1>1 DEF Yielding, TypeAt, ExprAt
<1> QED
  BY <1>2, YieldingAdds

LEMMA ListsOfPats ==
    ASSUME NEW P, NEW toks, NEW q, Ready(P, Rules, toks, q)
    PROVE  Adding(PatAt(P), toks, q)
<1>1. \A t \in Sound : t \in State /\ (t.toks = toks /\ q <= t.pos =>
          ParsePat(P, t) \in Yields(t))
  BY NestedCalls, SoundFields
<1> QED
  BY <1>1, YieldingAdds DEF Yielding, PatAt

LEMMA ReachesCalls ==
    ASSUME NEW s \in Sound, NEW q \in Nat, NEW t, Reaches(s, q, t),
           NEW P, Ready(P, {"type", "expr"}, s.toks, q)
    PROVE  /\ ParseType(P, t) \in Yields(t) /\ ParseAnyExpr(P, t) \in Yields(t)
           /\ ParseConstExpr(P, t) \in Yields(t)
           /\ \A bp \in Nat : ParseExpr(P, t, bp) \in Yields(t)
           /\ Reaches(s, q, ParseType(P, t)) /\ OnNode(ParseType(P, t))
           /\ Reaches(s, q, ParseAnyExpr(P, t)) /\ OnNode(ParseAnyExpr(P, t))
           /\ Reaches(s, q, ParseConstExpr(P, t)) /\ OnNode(ParseConstExpr(P, t))
           /\ \A bp \in Nat : Reaches(s, q, ParseExpr(P, t, bp)) /\ OnNode(ParseExpr(P, t, bp))
<1>1. t \in Sound /\ t.toks = s.toks /\ q <= t.pos
  BY ReachesFacts
<1>2. /\ ParseType(P, t) \in Yields(t) /\ ParseAnyExpr(P, t) \in Yields(t)
      /\ ParseConstExpr(P, t) \in Yields(t)
      /\ \A bp \in Nat : ParseExpr(P, t, bp) \in Yields(t)
  BY <1>1, OperandCalls
<1> QED
  BY <1>2, ReachesThen

LEMMA ReadyLater ==
    ASSUME NEW P, NEW rules, NEW toks, NEW q \in Nat, Ready(P, rules, toks, q),
           NEW r \in Nat, q <= r
    PROVE  Ready(P, rules, toks, r)
<1>1. \A t \in Sound : r <= t.pos => q <= t.pos
  BY SoundFields
<1> QED
  BY <1>1 DEF Ready

-----------------------------------------------------------------------------
(* Types.                                                                  *)

LEMMA DimensionsReach ==
    ASSUME NEW P, NEW s \in Sound, NEW q \in Nat, Adding(ExprAt(P), s.toks, q),
           NEW t, Reaches(s, q, t)
    PROVE  Reaches(s, q, Dimensions(P, t))
<1>1. Reaches(s, q, CommaSeparated(t, "]", ExprAt(P)))
  BY ReachesLists
<1>u. PICK u : u = CommaSeparated(t, "]", ExprAt(P))
  OBVIOUS
<1>2. "ExpectedTensorLitDim" \in BareIDs
  BY DEF DiagID, BareIDs
<1>3. Reaches(s, q, Diag(u, "ExpectedTensorLitDim"))
  BY <1>1, <1>u, <1>2, ReachesMoves
<1> QED
  BY <1>1, <1>u, <1>3 DEF Dimensions

LEMMA NamedTypeYields ==
    ASSUME NEW s \in Sound
    PROVE  ParseNamedType(s) \in Yields(s)
<1>1. "NamedType" \in Proper /\ "ExpectedTypeName" \in BareIDs
  BY DEF NodeKind, Proper, TypeKinds, DiagID, BareIDs
<1>2. CASE Peek(s) \in {"identifier", "Self"}
  <2> DEFINE t == PathSegments(Advance(s))
  <2>1. Comes(s, s.pos + 1, Advance(s)) /\ s.pos + 1 \in Nat
    BY <1>2, Begins
  <2>2. t \in Moves(s) /\ t \in Sound
    <3>1. Comes(s, s.pos + 1, t)
      BY <2>1, ComesMoves
    <3> QED
      BY <3>1, MovesAdds DEF Comes
  <2> HIDE DEF t
  <2>3. <<Here(s), Before(t)>> \in Nat \X Nat /\ Named(Text(s, Here(s), Before(t))) \in Payload
    BY <2>2, PlaceTypes, TextType, PayloadTypes
  <2> QED
    BY <1>1, <1>2, <2>2, <2>3, LeafYields DEF ParseNamedType, t
<1>3. CASE Peek(s) \notin {"identifier", "Self"}
  <2>1. /\ Diag(s, "ExpectedTypeName") \in Moves(s) /\ Here(s) \in Nat
        /\ Diag(s, "ExpectedTypeName").errs # <<>>
    BY <1>1, PlainDiag, PlaceTypes, Reported
  <2> QED
    BY <1>3, <2>1, ErrorYields DEF ParseNamedType
<1> QED
  BY <1>2, <1>3

LEMMA TypeRuleYields ==
    ASSUME NEW P, NEW s \in Sound, Ready(P, Rules, s.toks, s.pos + 1)
    PROVE  TypeRule(P, s) \in Yields(s)
<1> DEFINE q == s.pos + 1
           a == Advance(s)
<1>q. q \in Nat /\ Ready(P, {"type", "expr"}, s.toks, q)
  BY ReadyOperands, Begins
<1>1. Adding(TypeAt(P), s.toks, q) /\ Adding(ExprAt(P), s.toks, q)
  BY <1>q, ListsOfOperands
<1>2. Peek(s) # "eof" => Comes(s, q, a) /\ Reaches(s, q, a)
  BY <1>q, Begins, ComesReaches
<1>3. Nothing \in Payload
  BY PayloadTypes
<1> HIDE DEF q
<1>4. CASE Check(s, "(")
  <2>1. Reaches(s, q, a)
    BY <1>2, <1>4 DEF Check
  <2>2. Reaches(s, q, CommaSeparated(a, ")", TypeAt(P)))
    BY <1>q, <1>1, <2>1, ReachesLists
  <2>3. ")" \in TokenKind /\ "ExpectedTupleTypeClose" \in ExpectIDs /\ "TupleType" \in Proper
    BY DEF TokenKind, Fixed, Symbols, DiagID, ExpectIDs, NodeKind, Proper, TypeKinds
  <2>4. ParseTupleType(P, s) \in Yields(s)
    BY <1>q, <1>3, <2>2, <2>3, CloseYields DEF ParseTupleType, Reaches
  <2> QED
    BY <1>4, <2>4 DEF TypeRule, Check
<1>5. CASE Check(s, "[")
  <2>1. Reaches(s, q, a)
    BY <1>2, <1>5 DEF Check
  <2>2. /\ {";", "]"} \subseteq TokenKind /\ "ArrayType" \in Proper
        /\ {"ExpectedArrayTypeSemi", "ExpectedArrayTypeClose"} \subseteq ExpectIDs
    BY DEF TokenKind, Fixed, Symbols, DiagID, ExpectIDs, NodeKind, Proper, TypeKinds
  <2> DEFINE t == ParseType(P, a)
             elem == Expect(t, ";", "ExpectedArrayTypeSemi")
  <2>3. Reaches(s, q, t)
    BY <1>q, <2>1, ReachesCalls
  <2> HIDE DEF t
  <2>4. Reaches(s, q, elem)
    BY <1>q, <2>2, <2>3, ReachesMoves
  <2> HIDE DEF elem
  <2>5. Reaches(s, q, ParseConstExpr(P, elem))
    BY <1>q, <2>4, ReachesCalls
  <2>6. ParseArrayType(P, s) \in Yields(s)
    BY <1>3, <2>2, <2>5, CloseYields DEF ParseArrayType, Reaches, t, elem
  <2> QED
    BY <1>5, <2>6 DEF TypeRule, Check
<1>6. CASE Check(s, "tensor")
  <2>1. Reaches(s, q, a)
    BY <1>2, <1>6 DEF Check
  <2>2. /\ {"[", ";", "]"} \subseteq TokenKind /\ "TensorType" \in Proper
        /\ {"ExpectedTensorOpen", "ExpectedTensorTypeSemi", "ExpectedTensorTypeClose"}
               \subseteq ExpectIDs
    BY DEF TokenKind, Fixed, Symbols, DiagID, ExpectIDs, NodeKind, Proper, TypeKinds
  <2> DEFINE open == Expect(a, "[", "ExpectedTensorOpen")
             t == ParseType(P, open)
             elem == Expect(t, ";", "ExpectedTensorTypeSemi")
  <2>3. Reaches(s, q, open)
    BY <1>q, <2>1, <2>2, ReachesMoves
  <2> HIDE DEF open
  <2>4. Reaches(s, q, t)
    BY <1>q, <2>3, ReachesCalls
  <2> HIDE DEF t
  <2>5. Reaches(s, q, elem)
    BY <1>q, <2>2, <2>4, ReachesMoves
  <2> HIDE DEF elem
  <2>6. Reaches(s, q, Dimensions(P, elem))
    BY <1>q, <1>1, <2>5, DimensionsReach
  <2>7. ParseTensorType(P, s) \in Yields(s)
    BY <1>3, <2>2, <2>6, CloseYields DEF ParseTensorType, Reaches, open, t, elem
  <2> QED
    BY <1>6, <2>7 DEF TypeRule, Check
<1>7. CASE Peek(s) \notin {"(", "[", "tensor"}
  <2>1. ParseNamedType(s) \in Yields(s)
    BY NamedTypeYields
  <2> QED
    BY <1>7, <2>1 DEF TypeRule, Check
<1> QED
  BY <1>4, <1>5, <1>6, <1>7 DEF Check

-----------------------------------------------------------------------------
(* How a production ends.                                                  *)

\* It leaves one node, not before the position q.
Gives(s, q, t) == t \in Yields(s) /\ q <= t.pos

LEMMA GivesFacts ==
    ASSUME NEW s \in Sound, NEW q \in Nat, NEW t, Gives(s, q, t)
    PROVE  /\ Reaches(s, q, t) /\ t \in Yields(s) /\ OnNode(t) /\ t \in Sound
           /\ Mark(t) = Mark(s) + 1
BY YieldsAdds DEF Gives, Reaches

LEMMA ReachesEnds ==
    ASSUME NEW s \in Sound, NEW q \in Nat, NEW t, Reaches(s, q, t), NEW kind \in Proper
    PROVE  /\ \A payload \in Payload : Gives(s, q, UpToHere(t, s, kind, payload))
           /\ \A payload \in Payload, span \in Nat \X Nat :
                  Gives(s, q, Make(t, Mark(s), kind, span, payload))
           /\ \A delimiter \in TokenKind, diag \in ExpectIDs, payload \in Payload :
                  Gives(s, q, Close(t, s, delimiter, diag, kind, payload))
<1>1. t \in Adds(s) /\ t.pos \in Nat /\ q <= t.pos
  BY ReachesFacts
<1>2. \A u \in Yields(s) : u.pos \in Nat
  BY YieldsAdds
<1>3. \A u \in Yields(s) : t.pos <= u.pos => q <= u.pos
  BY <1>1, <1>2
<1>4. ASSUME NEW payload \in Payload
      PROVE  Gives(s, q, UpToHere(t, s, kind, payload))
  BY <1>1, UpToHereYields DEF Gives
<1>5. ASSUME NEW payload \in Payload, NEW span \in Nat \X Nat
      PROVE  Gives(s, q, Make(t, Mark(s), kind, span, payload))
  BY <1>1, MakeYields DEF Gives
<1>6. ASSUME NEW delimiter \in TokenKind, NEW diag \in ExpectIDs, NEW payload \in Payload
      PROVE  Gives(s, q, Close(t, s, delimiter, diag, kind, payload))
  BY <1>1, <1>3, CloseYields DEF Gives
<1> QED
  BY <1>4, <1>5, <1>6

\* Of a declaration, which has comments on the values before it begins in at.
LEMMA ReachesDeclEnds ==
    ASSUME NEW s \in Sound, NEW q \in Nat, NEW t, Reaches(s, q, t), NEW kind \in Proper,
           NEW flags \in SUBSET Flag, NEW payload \in Payload
    PROVE  /\ \A span \in Nat \X Nat :
                  Gives(s, q, MakeFlagged(t, Mark(s), kind, span, payload, flags))
           /\ \A at \in Sound, delimiter \in TokenKind, diag \in ExpectIDs :
                  Gives(s, q, CloseDecl(t, at, Mark(s), delimiter, diag, kind, payload, flags))
<1>1. t \in Adds(s) /\ t.pos \in Nat /\ q <= t.pos
  BY ReachesFacts
<1>2. \A u \in Yields(s) : u.pos \in Nat
  BY YieldsAdds
<1>3. \A u \in Yields(s) : t.pos <= u.pos => q <= u.pos
  BY <1>1, <1>2
<1>4. ASSUME NEW span \in Nat \X Nat
      PROVE  Gives(s, q, MakeFlagged(t, Mark(s), kind, span, payload, flags))
  BY <1>1, DeclYields DEF Gives
<1>5. ASSUME NEW at \in Sound, NEW delimiter \in TokenKind, NEW diag \in ExpectIDs
      PROVE  Gives(s, q, CloseDecl(t, at, Mark(s), delimiter, diag, kind, payload, flags))
  BY <1>1, <1>3, CloseDeclYields DEF Gives
<1> QED
  BY <1>4, <1>5

LEMMA ComesEnds ==
    ASSUME NEW s \in Sound, NEW q \in Nat, NEW t, Comes(s, q, t)
    PROVE  /\ \A kind \in Proper, span \in Nat \X Nat, payload \in Payload :
                  Gives(s, q, Leaf(t, kind, span, payload))
           /\ t.errs # <<>> =>
                  /\ \A from \in Nat : Gives(s, q, ErrorNode(t, from))
                  /\ \A from, to \in Nat : Gives(s, q, ErrorOver(t, from, to))
<1>1. t \in Moves(s) /\ q <= t.pos
  BY DEF Comes
<1>2. ASSUME NEW kind \in Proper, NEW span \in Nat \X Nat, NEW payload \in Payload
      PROVE  Gives(s, q, Leaf(t, kind, span, payload))
  BY <1>1, LeafYields DEF Gives
<1>3. ASSUME t.errs # <<>>, NEW from \in Nat, NEW to \in Nat
      PROVE  Gives(s, q, ErrorNode(t, from)) /\ Gives(s, q, ErrorOver(t, from, to))
  BY <1>1, <1>3, ErrorYields DEF Gives
<1> QED
  BY <1>2, <1>3

\* What stands at a state, for spans and payloads.
LEMMA Texts ==
    ASSUME NEW s \in Sound
    PROVE  /\ Here(s) \in Nat /\ Before(s) \in Nat
           /\ <<Here(s), Here(s)>> \in Nat \X Nat
           /\ Named(TextHere(s)) \in Payload
           /\ \A regime \in Regime : WithRegime(TextHere(s), regime) \in Payload
           /\ RegimeHere(s) \in Regime /\ NoRegime \in Regime
           /\ Nothing \in Payload /\ Named(<<>>) \in Payload
           /\ \A n \in Nat : <<Here(s), n>> \in Nat \X Nat
           /\ \A t \in Sound : /\ <<Here(s), Before(t)>> \in Nat \X Nat
                               /\ <<Here(s), Here(t)>> \in Nat \X Nat
                               /\ Text(s, Here(s), Before(t)) \in Seq(Token)
                               /\ Text(s, Before(s), Before(t)) \in Seq(Token)
<1>1. \A t \in Sound : /\ Here(t) \in Nat \ {0} /\ Before(t) \in Nat \ {0}
                       /\ TextHere(t) \in Seq(Token) /\ RegimeHere(t) \in Regime
  BY PlaceTypes
<1>2. \A t \in Sound : /\ Text(s, Here(s), Before(t)) \in Seq(Token)
                       /\ Text(s, Before(s), Before(t)) \in Seq(Token)
  BY <1>1, TextType
<1> QED
  BY <1>1, <1>2, PayloadTypes DEF Nothing

-----------------------------------------------------------------------------
(* Patterns.                                                               *)

LEMMA FieldPatYields ==
    ASSUME NEW P, NEW s \in Sound, Ready(P, Rules, s.toks, s.pos + 1)
    PROVE  ParseFieldPat(P, s) \in Yields(s)
<1>1. Named(TextHere(s)) \in Payload /\ Here(s) \in Nat /\ <<Here(s), Here(s)>> \in Nat \X Nat
      /\ \A n \in Nat : <<Here(s), n>> \in Nat \X Nat
  BY Texts
<1>2. "FieldPat" \in Proper /\ "ExpectedFieldPatName" \in BareIDs
  BY DEF NodeKind, Proper, PatKinds, DiagID, BareIDs
<1>3. CASE ~Check(s, "identifier")
  <2>1. Comes(s, s.pos, Diag(s, "ExpectedFieldPatName")) /\ s.pos \in Nat
    BY <1>2, Begins, ComesMoves
  <2> QED
    <3>1. ParseFieldPat(P, s) = ErrorNode(Diag(s, "ExpectedFieldPatName"), Here(s))
      BY <1>3 DEF ParseFieldPat, Check
    <3> QED
      BY <1>1, <2>1, <3>1, ComesEnds, Reported DEF Gives
<1>4. CASE Check(s, "identifier")
  <2>1. Comes(s, s.pos + 1, Advance(s)) /\ s.pos + 1 \in Nat
    BY <1>4, Begins DEF Check
  <2>n. PICK name : name = Advance(s)
    OBVIOUS
  <2>2. CASE Check(name, ":")
    <3>1. Comes(s, s.pos + 1, Advance(name))
      BY <2>1, <2>n, ComesMoves
    <3>2. Reaches(s, s.pos + 1, Advance(name))
      BY <2>1, <3>1, ComesReaches
    <3>3. Advance(name) \in Sound /\ Advance(name).toks = s.toks
          /\ s.pos + 1 <= Advance(name).pos
      BY <2>1, <3>2, ReachesFacts
    <3>t. PICK t : t = ParsePat(P, Advance(name))
      OBVIOUS
    <3>4. t \in Yields(Advance(name))
      BY <3>3, <3>t, NestedCalls
    <3>5. Reaches(s, s.pos + 1, t) /\ OnNode(t)
      BY <2>1, <3>2, <3>4, ReachesThen
    <3>6. <<Here(s), TopSpan(t)[2]>> \in Nat \X Nat
      BY <1>1, <2>1, <3>5, ReachesFacts, TopSpanType
    <3> QED
      BY <1>1, <1>2, <1>4, <2>1, <2>n, <2>2, <3>t, <3>5, <3>6, ReachesEnds
      DEF ParseFieldPat, Gives
  <2>3. CASE ~Check(name, ":")
    BY <1>1, <1>2, <1>4, <2>1, <2>n, <2>3, ComesEnds DEF ParseFieldPat, Leaf, Gives
  <2> QED
    BY <2>2, <2>3
<1> QED
  BY <1>3, <1>4

LEMMA PatRuleGives ==
    ASSUME NEW P, NEW s \in Sound, Ready(P, Rules, s.toks, s.pos + 1)
    PROVE  /\ PatRule(P, s) \in Yields(s)
           /\ Peek(s) # "eof" => s.pos + 1 <= PatRule(P, s).pos
<1> DEFINE q == s.pos + 1
<1>q. q \in Nat /\ s.pos \in Nat
  BY Begins
<1>1. Adding(PatAt(P), s.toks, q)
  BY ListsOfPats
<1>2. Adding([u \in State |-> ParseFieldPat(P, u)], s.toks, q)
  <2>1. ASSUME NEW t \in Sound, t.toks = s.toks, q <= t.pos
        PROVE  ParseFieldPat(P, t) \in Yields(t) /\ t \in State
    <3>1. t.pos + 1 \in Nat /\ q <= t.pos + 1 /\ t \in State
      BY <1>q, <2>1, SoundFields
    <3>2. Ready(P, Rules, t.toks, t.pos + 1)
      BY <1>q, <2>1, <3>1, ReadyLater
    <3> QED
      BY <3>1, <3>2, FieldPatYields
  <2> QED
    BY <2>1, YieldingAdds DEF Yielding
<1>3. /\ {"TuplePat", "StructPat", "IdentPat", "WildcardPat", "LiteralPat"} \subseteq Proper
      /\ {"ExpectedTuplePatClose", "ExpectedStructPatClose"} \subseteq ExpectIDs
      /\ "ExpectedPattern" \in BareIDs
      /\ {")", "}"} \subseteq TokenKind
  BY DEF NodeKind, Proper, PatKinds, DiagID, ExpectIDs, BareIDs, TokenKind, Fixed, Symbols
<1>4. Peek(s) # "eof" => Comes(s, q, Advance(s))
  BY Begins
<1> HIDE DEF q
<1>5. ASSUME NEW t, Reaches(s, q, Advance(t)), NEW payload \in Payload
      PROVE  Gives(s, q, ParseTuplePat(P, t, s, payload))
  <2>1. Reaches(s, q, CommaSeparated(Advance(t), ")", PatAt(P)))
    BY <1>q, <1>1, <1>5, ReachesLists
  <2> QED
    BY <1>q, <1>3, <1>5, <2>1, ReachesEnds DEF ParseTuplePat
<1>6. ASSUME NEW t, Reaches(s, q, Advance(t)), NEW payload \in Payload
      PROVE  Gives(s, q, ParseStructPat(P, t, s, payload))
  <2>1. Reaches(s, q, CommaSeparated(Advance(t), "}", [u \in State |-> ParseFieldPat(P, u)]))
    BY <1>q, <1>2, <1>6, ReachesLists
  <2> QED
    BY <1>q, <1>3, <1>6, <2>1, ReachesEnds DEF ParseStructPat
<1>7. CASE Check(s, "identifier") /\ TextHere(s) = <<"_">>
  <2>1. Gives(s, q, Leaf(Advance(s), "WildcardPat", <<Here(s), Here(s)>>, Nothing))
    BY <1>q, <1>3, <1>4, <1>7, Texts, ComesEnds DEF Check
  <2>2. PatRule(P, s) = Leaf(Advance(s), "WildcardPat", <<Here(s), Here(s)>>, Nothing)
    BY <1>7 DEF PatRule, Check, Literals
  <2> QED
    BY <2>1, <2>2 DEF Gives, q
<1>8. CASE Check(s, "identifier") /\ TextHere(s) # <<"_">>
  <2>t. PICK t : t = PathSegments(Advance(s))
    OBVIOUS
  <2>1. Comes(s, q, t)
    BY <1>q, <1>4, <1>8, <2>t, ComesMoves DEF Check
  <2>2. Comes(s, q, Advance(t)) /\ t \in Sound
    BY <1>q, <2>1, ComesMoves, MovesAdds DEF Comes
  <2>3. Reaches(s, q, Advance(t))
    BY <1>q, <2>2, ComesReaches
  <2>x. PICK text : text = Text(s, Here(s), Before(t))
    OBVIOUS
  <2>4. Named(text) \in Payload /\ WithRegime(text, NoRegime) \in Payload
        /\ <<Here(s), Before(t)>> \in Nat \X Nat
    BY <2>2, <2>x, Texts, PayloadTypes
  <2>5. Gives(s, q, ParseNamePat(P, s))
    <3>1. CASE Check(t, "(")
      <4>1. ParseNamePat(P, s) = ParseTuplePat(P, t, s, Named(text))
        BY <2>t, <2>x, <3>1 DEF ParseNamePat, Check
      <4> QED
        BY <4>1, <1>5, <2>3, <2>4
    <3>2. CASE Check(t, "{")
      <4>1. ParseNamePat(P, s) = ParseStructPat(P, t, s, Named(text))
        BY <2>t, <2>x, <3>2 DEF ParseNamePat, Check
      <4> QED
        BY <4>1, <1>6, <2>3, <2>4
    <3>3. CASE ~Check(t, "(") /\ ~Check(t, "{")
      <4>1. ParseNamePat(P, s) = Leaf(t, "IdentPat", <<Here(s), Before(t)>>,
                                      WithRegime(text, NoRegime))
        BY <2>t, <2>x, <3>3 DEF ParseNamePat
      <4> QED
        BY <4>1, <1>q, <1>3, <2>1, <2>4, ComesEnds
    <3> QED
      BY <3>1, <3>2, <3>3
  <2>6. PatRule(P, s) = ParseNamePat(P, s)
    BY <1>8 DEF PatRule, Check, Literals
  <2> QED
    BY <2>5, <2>6 DEF Gives, q
<1>9. CASE Check(s, "(")
  <2>1. Reaches(s, q, Advance(s))
    BY <1>q, <1>4, <1>9, ComesReaches DEF Check
  <2>2. Gives(s, q, ParseTuplePat(P, s, s, Named(<<>>)))
    BY <1>5, <2>1, Texts
  <2>3. PatRule(P, s) = ParseTuplePat(P, s, s, Named(<<>>))
    BY <1>9 DEF PatRule, Check, Literals
  <2> QED
    BY <2>2, <2>3 DEF Gives, q
<1>10. CASE Peek(s) \in Literals
  <2>1. Peek(s) # "eof" /\ Peek(s) # "identifier" /\ Peek(s) # "("
    BY <1>10 DEF Literals
  <2>2. Gives(s, q, Leaf(Advance(s), "LiteralPat", <<Here(s), Here(s)>>, Named(TextHere(s))))
    BY <1>q, <1>3, <1>4, <2>1, Texts, ComesEnds
  <2>3. PatRule(P, s) = Leaf(Advance(s), "LiteralPat", <<Here(s), Here(s)>>, Named(TextHere(s)))
    BY <1>10, <2>1 DEF PatRule, Check
  <2> QED
    BY <2>2, <2>3 DEF Gives, q
<1>11. CASE Peek(s) \notin Literals \cup {"identifier", "("}
  <2>d. PICK d : d = Diag(s, "ExpectedPattern")
    OBVIOUS
  <2>1. d \in Moves(s) /\ d.pos = s.pos /\ d \in Sound /\ d.toks = s.toks
    BY <1>3, <2>d, PlainDiag, MovesAdds
  <2>e. d.errs # <<>> /\ Advance(d).errs = d.errs
    BY <2>1, <2>d, Reported, AdvanceFacts
  <2>2. Peek(d) = Peek(s)
    BY <2>1, SamePeek
  <2>3. Advance(d) \in Moves(s)
    BY <2>1, AdvanceFacts, MovesMoves
  <2>4. Peek(s) # "eof" => Advance(d).pos = s.pos + 1
    BY <2>1, <2>2, AdvanceFacts
  <2>5. Here(s) \in Nat
    BY Texts
  <2>6. ErrorNode(Advance(d), Here(s)) \in Yields(s)
        /\ ErrorNode(Advance(d), Here(s)).pos = Advance(d).pos
    BY <2>3, <2>5, <2>e, ErrorYields
  <2>7. PatRule(P, s) = ErrorNode(Advance(d), Here(s))
    BY <1>11, <2>d DEF PatRule, Check
  <2> QED
    BY <1>q, <2>4, <2>6, <2>7
<1> QED
  BY <1>7, <1>8, <1>9, <1>10, <1>11 DEF Check

-----------------------------------------------------------------------------
(* Statements and the expressions with blocks.                             *)

\* From the position q on a production may call others: it stands there already,
\* or it is one token before it and consumes that.
Starts(s, q, kind) == q \in Nat /\ (q <= s.pos \/ (q = s.pos + 1 /\ Check(s, kind)))

LEMMA StartsFacts ==
    ASSUME NEW s \in Sound, NEW kind \in TokenKind \ {"eof"}, NEW q, Starts(s, q, kind)
    PROVE  /\ q \in Nat /\ Reaches(s, q, Advance(s)) /\ Comes(s, q, Advance(s))
           /\ \A diag \in ExpectIDs : /\ Comes(s, q, Expect(s, kind, diag))
                                   /\ Reaches(s, q, Expect(s, kind, diag))
<1>1. q \in Nat /\ s.pos \in Nat
  BY SoundFields DEF Starts
<1>2. CASE q <= s.pos
  <2>1. Comes(s, q, s)
    BY <1>2, Itself DEF Comes
  <2> QED
    BY <1>1, <2>1, ComesMoves, ComesReaches
<1>3. CASE q = s.pos + 1 /\ Check(s, kind)
  <2>1. Comes(s, q, Advance(s)) /\ \A diag \in ExpectIDs : Comes(s, q, Expect(s, kind, diag))
    BY <1>3, Begins DEF Check
  <2> QED
    BY <1>1, <2>1, ComesReaches
<1> QED
  BY <1>2, <1>3 DEF Starts

LEMMA HeaderReaches ==
    ASSUME NEW s \in Sound, NEW q \in Nat, NEW t, Reaches(s, q, t),
           NEW P, Ready(P, {"type", "expr"}, s.toks, q)
    PROVE  Reaches(s, q, Header(P, t)) /\ OnNode(Header(P, t))
<1>1. t \in Sound /\ t.toks = s.toks /\ q <= t.pos
  BY ReachesFacts
<1>2. Yielding(ExprAt(P), t.toks, q)
  BY <1>1, ListsOfOperands
<1>3. Header(P, t) \in Yields(t)
  BY <1>1, <1>2, WithStructLitFacts DEF Header
<1> QED
  BY <1>3, ReachesThen

LEMMA StatementsReach ==
    ASSUME NEW s \in Sound, NEW q \in Nat, NEW t, Reaches(s, q, t),
           NEW P, Ready(P, Rules, s.toks, q)
    PROVE  Reaches(s, q, Statements(P, t))
<1>1. t \in Sound /\ t.toks = s.toks /\ q <= t.pos /\ t.pos \in Nat
  BY ReachesFacts
<1>2. ASSUME NEW u \in Adds(t), Until({"}", "eof"})[u]
      PROVE  StmtAt(P)[u] \in Adds(u) /\ StmtAt(P)[u].pos > u.pos
  <2>1. u \in Sound /\ u.toks = s.toks /\ q <= u.pos /\ u \in State
    BY <1>1, FirstAdds, SoundFields
  <2>2. Peek(u) \notin {"}", "eof"}
    BY <1>2, <2>1 DEF Until
  <2>3. StmtAt(P)[u] \in Yields(u) /\ StmtAt(P)[u].pos > u.pos
    BY <2>1, <2>2, NestedCalls
  <2> QED
    BY <2>1, <2>3, YieldsAdds
<1>3. t \in Adds(t)
  BY <1>1, Itself
<1>4. Statements(P, t) \in Adds(t)
  BY <1>1, <1>2, <1>3, WhileAdds DEF Statements
<1> QED
  BY <1>4, ReachesThen

LEMMA BlockGives ==
    ASSUME NEW P, NEW s \in Sound, NEW q, Starts(s, q, "{"), Ready(P, Rules, s.toks, q)
    PROVE  Gives(s, q, ParseBlockExpr(P, s)) /\ q \in Nat
<1>1. /\ {"{", "}"} \subseteq TokenKind \ {"eof"} /\ "BlockExpr" \in Proper
      /\ {"ExpectedOpen", "ExpectedClose"} \subseteq ExpectIDs
  <2>1. {"{", "}"} \subseteq TokenKind \ {"eof"} /\ "BlockExpr" \in Proper
    BY DEF TokenKind, Fixed, Symbols, NodeKind, Proper, ExprKinds
  <2>2. {"ExpectedOpen", "ExpectedClose"} \subseteq ExpectIDs
    BY DEF DiagID, ExpectIDs
  <2> QED
    BY <2>1, <2>2
<1>2. q \in Nat /\ Reaches(s, q, Expect(s, "{", "ExpectedOpen"))
  BY <1>1, StartsFacts
<1>3. Reaches(s, q, Statements(P, Expect(s, "{", "ExpectedOpen")))
  BY <1>2, StatementsReach
<1> QED
  BY <1>1, <1>2, <1>3, ReachesEnds, PayloadTypes DEF ParseBlockExpr

LEMMA BlockReaches ==
    ASSUME NEW s \in Sound, NEW q \in Nat, NEW t, Reaches(s, q, t),
           NEW P, Ready(P, Rules, s.toks, q)
    PROVE  Reaches(s, q, ParseBlockExpr(P, t)) /\ OnNode(ParseBlockExpr(P, t))
<1>1. t \in Sound /\ t.toks = s.toks /\ q <= t.pos
  BY ReachesFacts
<1>2. Gives(t, q, ParseBlockExpr(P, t))
  BY <1>1, BlockGives DEF Starts
<1> QED
  BY <1>2, ReachesThen DEF Gives

LEMMA UnsafeHere ==
    ASSUME NEW s \in Sound, Check(s, "unsafe")
    PROVE  s.pos + 1 \in 1..(Len(s.toks) - 1) /\ s.toks[s.pos + 1] = "unsafe"
<1>1. Peek(s) = "unsafe"
  BY DEF Check
<1>2. s.pos + 1 \in 1..(Len(s.toks) - 1) /\ Kind(s.toks[s.pos + 1]) = "unsafe"
  BY <1>1, PeekHere
<1>3. \A token : Kind(token) = "unsafe" => token = "unsafe"
  BY VocabularyAssumption DEF Kind, LiteralKinds
<1> QED
  BY <1>2, <1>3

LEMMA UnsafeBlockGives ==
    ASSUME NEW P, NEW s \in Sound, Check(s, "unsafe"), Ready(P, Rules, s.toks, s.pos + 1)
    PROVE  Gives(s, s.pos + 1, ParseUnsafeBlock(P, s))
<1> DEFINE q == s.pos + 1
           kw == Expect(s, "unsafe", "ExpectedKeyword")
           open == IF Check(kw, "{") THEN Advance(kw)
                   ELSE DiagWith(kw, "ExpectedOpen", [tok |-> "{", context |-> Context])
<1>1. /\ {"{", "}"} \subseteq TokenKind /\ "UnsafeBlock" \in Proper
      /\ {"ExpectedOpen", "ExpectedClose", "ExpectedKeyword"} \subseteq ExpectIDs
      /\ "unsafe" \in TokenKind \ {"eof"}
  BY DEF TokenKind, Fixed, Symbols, Keywords, DiagID, ExpectIDs, NodeKind, Proper, ExprKinds
<1>2. q \in Nat /\ Starts(s, q, "unsafe")
  BY Begins DEF Starts
<1> HIDE DEF q
<1>3. Reaches(s, q, kw)
  BY <1>1, <1>2, StartsFacts
<1> HIDE DEF kw
<1>4. [tok |-> "{", context |-> Context] \in Args
  BY <1>1, ArgsTypes
<1>5. Reaches(s, q, open)
  <2>1. kw.toks = s.toks
    BY <1>2, <1>3, ReachesFacts
  <2>2. /\ "ExpectedOpen" \in DiagID
        /\ Filled(kw.toks, [id |-> "ExpectedOpen", args |-> [tok |-> "{", context |-> Context]])
    <3>1. s.pos + 1 \in 1..(Len(s.toks) - 1) /\ s.toks[s.pos + 1] = "unsafe"
      BY UnsafeHere
    <3> QED
      BY <2>1, <3>1, UnsafeFits DEF DiagID
  <2>3. Reaches(s, q, DiagWith(kw, "ExpectedOpen", [tok |-> "{", context |-> Context]))
    BY <1>2, <1>3, <1>4, <2>2, ReachesMoves
  <2>4. Reaches(s, q, Advance(kw))
    BY <1>2, <1>3, ReachesMoves
  <2> QED
    BY <2>3, <2>4
<1> HIDE DEF open
<1>6. Reaches(s, q, Statements(P, open))
  BY <1>2, <1>5, StatementsReach DEF q
<1>7. Gives(s, q, ParseUnsafeBlock(P, s))
  BY <1>1, <1>2, <1>6, ReachesEnds, PayloadTypes DEF ParseUnsafeBlock, open, kw
<1> QED
  BY <1>7 DEF q

LEMMA IfGives ==
    ASSUME NEW P, NEW s \in Sound, Check(s, "if"), Ready(P, Rules, s.toks, s.pos + 1)
    PROVE  Gives(s, s.pos + 1, ParseIfExpr(P, s))
<1> DEFINE q == s.pos + 1
           kw == Expect(s, "if", "ExpectedKeyword")
           cond == Header(P, kw)
           then == ParseBlockExpr(P, cond)
           else == Advance(then)
           t == CASE ~Check(then, "else") -> then
                  [] Check(then, "else") /\ Check(else, "if") -> P[<<"if", 0, else>>]
                  [] OTHER -> ParseBlockExpr(P, else)
<1>1. /\ "if" \in TokenKind \ {"eof"} /\ "IfExpr" \in Proper /\ "ExpectedKeyword" \in ExpectIDs
  BY DEF TokenKind, Fixed, Keywords, DiagID, ExpectIDs, NodeKind, Proper, ExprKinds
<1>2. q \in Nat /\ Starts(s, q, "if") /\ Ready(P, Rules, s.toks, q)
      /\ Ready(P, {"type", "expr"}, s.toks, q)
  BY Begins, ReadyOperands DEF Starts
<1> HIDE DEF q
<1>3. Reaches(s, q, kw)
  BY <1>1, <1>2, StartsFacts
<1> HIDE DEF kw
<1>4. Reaches(s, q, cond)
  BY <1>2, <1>3, HeaderReaches
<1> HIDE DEF cond
<1>5. Reaches(s, q, then)
  BY <1>2, <1>4, BlockReaches
<1> HIDE DEF then
<1>6. Reaches(s, q, else)
  BY <1>2, <1>5, ReachesMoves
<1> HIDE DEF else
<1>7. Reaches(s, q, ParseBlockExpr(P, else))
  BY <1>2, <1>6, BlockReaches
<1>8. Check(else, "if") => Reaches(s, q, P[<<"if", 0, else>>])
  <2>1. else \in Sound /\ else.toks = s.toks /\ q <= else.pos
    BY <1>2, <1>6, ReachesFacts
  <2>2. Check(else, "if") => P[<<"if", 0, else>>] \in Yields(else)
    BY <1>2, <2>1, NestedCalls
  <2> QED
    BY <1>2, <1>6, <2>2, ReachesThen
<1>9. Reaches(s, q, t)
  <2>1. t \in {then, ParseBlockExpr(P, else)} \/ (t = P[<<"if", 0, else>>] /\ Check(else, "if"))
    OBVIOUS
  <2> HIDE DEF t
  <2> QED
    BY <1>5, <1>7, <1>8, <2>1
<1> HIDE DEF t
<1>10. Gives(s, q, UpToHere(t, s, "IfExpr", Nothing))
  BY <1>1, <1>2, <1>9, ReachesEnds, PayloadTypes
<1>11. ParseIfExpr(P, s) = UpToHere(t, s, "IfExpr", Nothing)
  BY DEF ParseIfExpr, t, else, then, cond, kw
<1> QED
  BY <1>10, <1>11 DEF q

LEMMA WhileStmtGives ==
    ASSUME NEW P, NEW s \in Sound, Check(s, "while"), Ready(P, Rules, s.toks, s.pos + 1)
    PROVE  Gives(s, s.pos + 1, ParseWhileStmt(P, s))
<1> DEFINE q == s.pos + 1
           kw == Expect(s, "while", "ExpectedKeyword")
<1>1. "while" \in TokenKind \ {"eof"} /\ "WhileStmt" \in Proper /\ "ExpectedKeyword" \in ExpectIDs
  BY DEF TokenKind, Fixed, Keywords, DiagID, ExpectIDs, NodeKind, Proper, StmtKinds
<1>2. q \in Nat /\ Starts(s, q, "while") /\ Ready(P, Rules, s.toks, q)
      /\ Ready(P, {"type", "expr"}, s.toks, q)
  BY Begins, ReadyOperands DEF Starts
<1> HIDE DEF q
<1>3. Reaches(s, q, kw)
  BY <1>1, <1>2, StartsFacts
<1> HIDE DEF kw
<1>4. Reaches(s, q, ParseBlockExpr(P, Header(P, kw)))
  BY <1>2, <1>3, HeaderReaches, BlockReaches
<1>5. Gives(s, q, ParseWhileStmt(P, s))
  BY <1>1, <1>2, <1>4, ReachesEnds, PayloadTypes DEF ParseWhileStmt, kw
<1> QED
  BY <1>5 DEF q

LEMMA ForStmtGives ==
    ASSUME NEW P, NEW s \in Sound, Check(s, "for"), Ready(P, Rules, s.toks, s.pos + 1)
    PROVE  Gives(s, s.pos + 1, ParseForStmt(P, s))
<1> DEFINE q == s.pos + 1
           kw == Expect(s, "for", "ExpectedKeyword")
           name == SkipRegime(kw)
           range == Expect(ExpectName(name), "in", "ExpectedKeyword")
           t == ParseBlockExpr(P, Header(P, range))
<1>1. "for" \in TokenKind \ {"eof"} /\ "in" \in TokenKind
      /\ "ForStmt" \in Proper /\ "ExpectedKeyword" \in ExpectIDs
  BY DEF TokenKind, Fixed, Keywords, DiagID, ExpectIDs, NodeKind, Proper, StmtKinds
<1>2. q \in Nat /\ Starts(s, q, "for") /\ Ready(P, Rules, s.toks, q)
      /\ Ready(P, {"type", "expr"}, s.toks, q)
  BY Begins, ReadyOperands DEF Starts
<1> HIDE DEF q
<1>3. Reaches(s, q, kw)
  BY <1>1, <1>2, StartsFacts
<1> HIDE DEF kw
<1>4. Reaches(s, q, name)
  BY <1>2, <1>3, ReachesMoves
<1> HIDE DEF name
<1>5. Reaches(s, q, range)
  BY <1>1, <1>2, <1>4, ReachesMoves
<1> HIDE DEF range
<1>6. Reaches(s, q, t) /\ OnNode(t)
  BY <1>2, <1>5, HeaderReaches, BlockReaches
<1> HIDE DEF t
<1>7. <<Here(s), TopSpan(t)[2]>> \in Nat \X Nat
  BY <1>2, <1>6, ReachesFacts, TopSpanType, Texts
<1>8. WithRegime(TextHere(name), RegimeHere(kw)) \in Payload
  <2>1. name \in Sound /\ kw \in Sound
    BY <1>2, <1>3, <1>4, ReachesFacts
  <2> QED
    BY <2>1, Texts
<1>9. Gives(s, q, Make(t, Mark(s), "ForStmt", <<Here(s), TopSpan(t)[2]>>,
                       WithRegime(TextHere(name), RegimeHere(kw))))
  BY <1>1, <1>2, <1>6, <1>7, <1>8, ReachesEnds
<1> QED
  BY <1>9 DEF q, ParseForStmt, t, range, name, kw

LEMMA NextPosition ==
    ASSUME NEW a \in Nat, NEW b \in Nat, NEW c \in Nat, b > a, b <= c
    PROVE  a + 1 <= c
OBVIOUS

LEMMA NodeInPool ==
    ASSUME NEW n \in Nat, NEW i \in 1..(n - 1)
    PROVE  i + 1 \in 1..n
OBVIOUS

\* A value held below the top names a node still.
LEMMA HeldNode ==
    ASSUME NEW s \in Sound, OnNode(s), NEW t \in Adds(s)
    PROVE  /\ t.vals[Mark(s)] = Top(s) /\ t.vals[Mark(s)] \in Nodes(t.pool)
           /\ SpanOf(t.pool, t.vals[Mark(s)]) \in Nat \X Nat
<1>1. s.vals \in Seq(Nat \cup {NullNode}) /\ s.vals # <<>> /\ Top(s) \in Nodes(s.pool)
  BY SoundFields DEF OnNode
<1>2. Mark(s) \in 1..Mark(s)
  BY <1>1 DEF Mark
<1>3. /\ t.vals[Mark(s)] = s.vals[Mark(s)] /\ t \in Sound
      /\ PoolSize(s.pool) <= PoolSize(t.pool)
  BY <1>2 DEF Adds, After
<1>4. PoolSound(s.pool) /\ PoolSound(t.pool)
  BY <1>3, SoundFields
<1>5. PoolSize(s.pool) \in Nat /\ PoolSize(t.pool) \in Nat
      /\ t.pool.spans \in Seq(Nat \X Nat) /\ Len(t.pool.spans) = PoolSize(t.pool)
  BY <1>4, PoolFields
<1>6. t.vals[Mark(s)] = Top(s)
  BY <1>3 DEF Top, Mark
<1>7. t.vals[Mark(s)] \in Nodes(t.pool)
  BY <1>1, <1>3, <1>5, <1>6 DEF Nodes
<1>8. t.vals[Mark(s)] + 1 \in 1..Len(t.pool.spans)
  BY <1>5, <1>7, NodeInPool DEF Nodes
<1>9. SpanOf(t.pool, t.vals[Mark(s)]) \in Nat \X Nat
  BY <1>5, <1>8 DEF SpanOf
<1> QED
  BY <1>6, <1>7, <1>9

LEMMA MatchArmGives ==
    ASSUME NEW P, NEW s \in Sound, NEW q \in Nat, q <= s.pos, Ready(P, Rules, s.toks, q)
    PROVE  /\ Gives(s, s.pos, ParseMatchArm(P, s))
           /\ Peek(s) # "eof" => Gives(s, s.pos + 1, ParseMatchArm(P, s))
<1> DEFINE pat == ParsePat(P, s)
           arrow == Expect(pat, "=>", "ExpectedFatArrow")
           u == ParseAnyExpr(P, arrow)
           comma == IF Check(u, ",") THEN Advance(u) ELSE Consume(u, ";")
           span == <<SpanOf(u.pool, u.vals[Mark(s) + 1])[1], TopSpan(u)[2]>>
<1>1. "=>" \in TokenKind /\ "ExpectedFatArrow" \in ExpectIDs /\ "MatchArm" \in Proper
  BY DEF TokenKind, Fixed, Symbols, DiagID, ExpectIDs, NodeKind, Proper
<1>2. pat \in Yields(s) /\ (Peek(s) # "eof" => pat.pos > s.pos)
  BY NestedCalls
<1> HIDE DEF pat
<1>3. ASSUME NEW r \in Nat, r <= pat.pos, q <= r
      PROVE  Gives(s, r, ParseMatchArm(P, s))
  <2>1. Reaches(s, r, pat) /\ pat \in Sound /\ OnNode(pat) /\ Mark(pat) = Mark(s) + 1
        /\ pat.toks = s.toks /\ Ready(P, {"type", "expr"}, s.toks, r)
    BY <1>2, <1>3, YieldsAdds, ReadyLater, ReadyOperands DEF Reaches
  <2>2. Reaches(pat, r, arrow)
    <3>1. Reaches(pat, r, pat)
      BY <1>3, <2>1, Itself DEF Reaches
    <3> QED
      BY <1>1, <2>1, <3>1, ReachesMoves
  <2> HIDE DEF arrow
  <2>3. Reaches(pat, r, u) /\ OnNode(u)
    BY <2>1, <2>2, ReachesCalls
  <2> HIDE DEF u
  <2>4. Reaches(pat, r, comma)
    BY <2>1, <2>3, ReachesMoves
  <2> HIDE DEF comma
  <2>5. Reaches(s, r, comma)
    BY <2>1, <2>4, ReachesThen DEF Reaches
  <2>6. span \in Nat \X Nat
    <3>1. u \in Adds(pat) /\ u \in Sound
      BY <2>1, <2>3, ReachesFacts
    <3>2. SpanOf(u.pool, u.vals[Mark(s) + 1]) \in Nat \X Nat
      BY <2>1, <3>1, HeldNode
    <3> QED
      BY <2>3, <3>1, <3>2, TopSpanType
  <2> HIDE DEF span
  <2>7. Gives(s, r, Make(comma, Mark(s), "MatchArm", span, Nothing))
    BY <1>1, <2>5, <2>6, ReachesEnds, PayloadTypes
  <2>8. ParseMatchArm(P, s) = EndMatchArm(u, Mark(s))
    BY DEF ParseMatchArm, u, arrow, pat
  <2>9. EndMatchArm(u, Mark(s)) = Make(comma, Mark(s), "MatchArm", span, Nothing)
    BY DEF EndMatchArm, comma, span
  <2> QED
    BY <2>7, <2>8, <2>9
<1>4. s.pos \in Nat /\ pat.pos \in Nat /\ s.pos <= pat.pos
  BY <1>2, YieldsAdds
<1>5. Peek(s) # "eof" => s.pos + 1 <= pat.pos
  BY <1>2, <1>4
<1> QED
  BY <1>3, <1>4, <1>5

LEMMA MatchGives ==
    ASSUME NEW P, NEW s \in Sound, Check(s, "match"), Ready(P, Rules, s.toks, s.pos + 1)
    PROVE  Gives(s, s.pos + 1, ParseMatchExpr(P, s))
<1> DEFINE q == s.pos + 1
           kw == Expect(s, "match", "ExpectedKeyword")
           head == Header(P, kw)
           open == Expect(head, "{", "ExpectedOpen")
           more == Until({"}", "eof"})
           round == [t \in State |-> ParseMatchArm(P, t)]
           arms == While(open, more, round)
<1>1. /\ "match" \in TokenKind \ {"eof"} /\ {"{", "}"} \subseteq TokenKind
      /\ "MatchExpr" \in Proper
      /\ {"ExpectedKeyword", "ExpectedOpen", "ExpectedClose"} \subseteq ExpectIDs
  BY DEF TokenKind, Fixed, Symbols, Keywords, DiagID, ExpectIDs, NodeKind, Proper, ExprKinds
<1>2. q \in Nat /\ Starts(s, q, "match") /\ Ready(P, Rules, s.toks, q)
      /\ Ready(P, {"type", "expr"}, s.toks, q)
  BY Begins, ReadyOperands DEF Starts
<1> HIDE DEF q
<1>3. Reaches(s, q, kw)
  BY <1>1, <1>2, StartsFacts
<1> HIDE DEF kw
<1>4. Reaches(s, q, head)
  BY <1>2, <1>3, HeaderReaches
<1> HIDE DEF head
<1>5. Reaches(s, q, open)
  BY <1>1, <1>2, <1>4, ReachesMoves
<1> HIDE DEF open
<1>6. open \in Sound /\ open.toks = s.toks /\ q <= open.pos /\ open.pos \in Nat
  BY <1>2, <1>5, ReachesFacts
<1>7. ASSUME NEW u \in Adds(open), more[u]
      PROVE  round[u] \in Adds(u) /\ round[u].pos > u.pos
  <2>1. u \in Sound /\ u.toks = s.toks /\ q <= u.pos /\ u \in State /\ u.pos \in Nat
    BY <1>2, <1>6, FirstAdds, SoundFields
  <2>2. Peek(u) # "eof"
    BY <1>7, <2>1 DEF Until
  <2>3. Gives(u, u.pos + 1, ParseMatchArm(P, u))
    BY <1>2, <2>1, <2>2, MatchArmGives
  <2>4. round[u] = ParseMatchArm(P, u)
    BY <2>1
  <2> HIDE DEF round
  <2>5. round[u] \in Yields(u) /\ u.pos + 1 <= round[u].pos
    BY <2>3, <2>4 DEF Gives
  <2>6. round[u] \in Adds(u) /\ round[u].pos \in Nat
    BY <2>1, <2>5, YieldsAdds
  <2> QED
    BY <2>1, <2>5, <2>6
<1> HIDE DEF more, round
<1>8. arms \in Adds(open)
  BY <1>6, <1>7, Itself, WhileAdds
<1> HIDE DEF arms
<1>9. Reaches(s, q, arms)
  BY <1>2, <1>5, <1>8, ReachesThen
<1>10. Gives(s, q, Close(arms, s, "}", "ExpectedClose", "MatchExpr", Nothing))
  BY <1>1, <1>2, <1>9, ReachesEnds, PayloadTypes
<1> QED
  BY <1>10 DEF q, ParseMatchExpr, arms, open, head, kw, more, round

LEMMA LetStmtGives ==
    ASSUME NEW P, NEW s \in Sound, Check(s, "let"), Ready(P, Rules, s.toks, s.pos + 1)
    PROVE  Gives(s, s.pos + 1, ParseLetStmt(P, s))
<1> DEFINE q == s.pos + 1
           kw == Expect(s, "let", "ExpectedKeyword")
           name == SkipRegime(kw)
           bound == ExpectName(name)
           typed == IF Check(bound, ":") THEN ParseType(P, Advance(bound)) ELSE bound
           init == IF Check(typed, "=") THEN ParseAnyExpr(P, Advance(typed)) ELSE typed
           t == IF Mark(init) > Mark(s) /\ TopIsError(init)
                THEN Consume(SkipTo(init, {";", "}"}), ";")
                ELSE ExpectSemi(init)
<1>1. "let" \in TokenKind \ {"eof"} /\ "LetStmt" \in Proper /\ "ExpectedKeyword" \in ExpectIDs
  BY DEF TokenKind, Fixed, Keywords, DiagID, ExpectIDs, NodeKind, Proper, StmtKinds
<1>2. q \in Nat /\ Starts(s, q, "let") /\ Ready(P, {"type", "expr"}, s.toks, q)
  BY Begins, ReadyOperands DEF Starts
<1> HIDE DEF q
<1>3. Reaches(s, q, kw)
  BY <1>1, <1>2, StartsFacts
<1> HIDE DEF kw
<1>4. Reaches(s, q, name)
  BY <1>2, <1>3, ReachesMoves
<1> HIDE DEF name
<1>5. Reaches(s, q, bound)
  BY <1>2, <1>4, ReachesMoves
<1> HIDE DEF bound
<1>6. Reaches(s, q, typed)
  BY <1>2, <1>5, ReachesMoves, ReachesCalls
<1> HIDE DEF typed
<1>7. Reaches(s, q, init)
  BY <1>2, <1>6, ReachesMoves, ReachesCalls
<1> HIDE DEF init
<1>8. Reaches(s, q, t)
  BY <1>2, <1>7, ReachesMoves
<1> HIDE DEF t
<1>9. WithRegime(TextHere(name), RegimeHere(kw)) \in Payload
  <2>1. name \in Sound /\ kw \in Sound
    BY <1>2, <1>3, <1>4, ReachesFacts
  <2> QED
    BY <2>1, Texts
<1>10. Gives(s, q, UpToHere(t, s, "LetStmt", WithRegime(TextHere(name), RegimeHere(kw))))
  BY <1>1, <1>2, <1>8, <1>9, ReachesEnds
<1> QED
  BY <1>10 DEF q, ParseLetStmt, t, init, typed, bound, name, kw

LEMMA RetStmtGives ==
    ASSUME NEW P, NEW s \in Sound, Check(s, "ret"), Ready(P, Rules, s.toks, s.pos + 1)
    PROVE  Gives(s, s.pos + 1, ParseRetStmt(P, s))
<1> DEFINE q == s.pos + 1
           kw == Expect(s, "ret", "ExpectedKeyword")
<1>1. /\ "ret" \in TokenKind \ {"eof"} /\ ";" \in TokenKind /\ "RetStmt" \in Proper
      /\ {"ExpectedKeyword", "ExpectedSemi"} \subseteq ExpectIDs
  BY DEF TokenKind, Fixed, Symbols, Keywords, DiagID, ExpectIDs, NodeKind, Proper, StmtKinds
<1>2. q \in Nat /\ Starts(s, q, "ret") /\ Ready(P, {"type", "expr"}, s.toks, q)
  BY Begins, ReadyOperands DEF Starts
<1> HIDE DEF q
<1>3. Reaches(s, q, kw)
  BY <1>1, <1>2, StartsFacts
<1> HIDE DEF kw
<1>4. Reaches(s, q, ParseAnyExpr(P, kw))
  BY <1>2, <1>3, ReachesCalls
<1>5. Gives(s, q, ParseRetStmt(P, s))
  BY <1>1, <1>2, <1>4, ReachesEnds, PayloadTypes DEF ParseRetStmt, kw
<1> QED
  BY <1>5 DEF q

LEMMA JumpGives ==
    ASSUME NEW s \in Sound, Peek(s) # "eof", NEW kind \in {"BreakStmt", "ContinueStmt"}
    PROVE  Gives(s, s.pos + 1, ParseJump(s, kind))
<1>1. s.pos + 1 \in Nat /\ Comes(s, s.pos + 1, Advance(s))
  BY Begins
<1>2. ";" \in TokenKind /\ "ExpectedBreakOrContinueSemi" \in ExpectIDs /\ kind \in Proper
  BY DEF TokenKind, Fixed, Symbols, DiagID, ExpectIDs, NodeKind, Proper, StmtKinds
<1>3. Comes(s, s.pos + 1, Expect(Advance(s), ";", "ExpectedBreakOrContinueSemi"))
  BY <1>1, <1>2, ComesMoves
<1> QED
  BY <1>1, <1>2, <1>3, ComesEnds, Texts DEF ParseJump

\* Where a statement begins with an operand.
LEMMA OperandHere ==
    ASSUME NEW P, NEW s \in Sound, Ready(P, {"type", "expr"}, s.toks, s.pos)
    PROVE  /\ ParseType(P, s) \in Yields(s) /\ ParseAnyExpr(P, s) \in Yields(s)
           /\ Peek(s) \notin {";", "}", ")", "]", ",", "eof"} =>
                  ParseAnyExpr(P, s).pos > s.pos
<1>1. s.pos \in Nat
  BY SoundFields
<1>2. \A n \in Nat : n <= n
  OBVIOUS
<1>3. s.pos <= s.pos
  BY <1>1, <1>2
<1> QED
  BY <1>3, OperandCalls

LEMMA ExprStmtGives ==
    ASSUME NEW P, NEW s \in Sound, Ready(P, {"type", "expr"}, s.toks, s.pos),
           Peek(s) \notin {";", "}", ")", "]", ",", "eof"}
    PROVE  Gives(s, s.pos + 1, ParseExprStmt(P, s))
<1>1. s.pos \in Nat /\ s.pos + 1 \in Nat
  BY Begins
<1>t. PICK t : t = ParseAnyExpr(P, s)
  OBVIOUS
<1>2. t \in Yields(s) /\ t.pos > s.pos
  <2>2. ParseAnyExpr(P, s) \in Yields(s) /\ ParseAnyExpr(P, s).pos > s.pos
    BY OperandHere
  <2> QED
    BY <1>t, <2>2
<1>3. t \in Sound /\ t.pos \in Nat
  BY <1>2, YieldsAdds
<1>u. PICK u : u = IF TopIsError(t) THEN Synchronize(t) ELSE ExpectSemi(t)
  OBVIOUS
<1>4. u \in Moves(t)
  BY <1>3, <1>u, SynchronizeFacts, ExpectSemiFacts
<1>5. u \in Yields(s) /\ u.pos \in Nat /\ t.pos <= u.pos
  BY <1>2, <1>3, <1>4, YieldsMoves, MovesAdds
<1>6. ParseExprStmt(P, s) = u
  BY <1>t, <1>u DEF ParseExprStmt
<1>7. s.pos + 1 <= u.pos
  BY <1>1, <1>2, <1>3, <1>5, NextPosition
<1> QED
  BY <1>5, <1>6, <1>7 DEF Gives

\* Recovery that reports and then skips: one token at least unless none is left.
LEMMA SyncGives ==
    ASSUME NEW s \in Sound, NEW d \in Moves(s), d.pos = s.pos, d.errs # <<>>, NEW from \in Nat
    PROVE  LET t == ErrorNode(Synchronize(d), from)
           IN  t \in Yields(s) /\ (Peek(s) # "eof" => Gives(s, s.pos + 1, t))
<1>1. d \in Sound /\ d.toks = s.toks /\ s.pos \in Nat
  BY MovesAdds
<1>2. Peek(d) = Peek(s)
  BY <1>1, SamePeek
<1>u. PICK u : u = Synchronize(d)
  OBVIOUS
<1>3. u \in Moves(s) /\ (Peek(s) # "eof" => u.pos > s.pos)
  BY <1>1, <1>2, <1>u, SynchronizeFacts, MovesMoves
<1>4. u.pos \in Nat
  BY <1>3, MovesAdds
<1>e. u.errs # <<>>
  BY <1>1, <1>u, SynchronizeFacts, MovesAdds, Reported
<1>5. ErrorNode(u, from) \in Yields(s) /\ ErrorNode(u, from).pos = u.pos
  BY <1>3, <1>e, ErrorYields
<1>6. Peek(s) # "eof" => s.pos + 1 <= u.pos
  BY <1>1, <1>3, <1>4
<1> QED
  BY <1>u, <1>5, <1>6 DEF Gives

LEMMA StmtRuleGives ==
    ASSUME NEW P, NEW s \in Sound, Ready(P, Rules, s.toks, s.pos + 1),
           Ready(P, {"type", "expr"}, s.toks, s.pos)
    PROVE  /\ StmtRule(P, s) \in Yields(s)
           /\ Peek(s) # "eof" => Gives(s, s.pos + 1, StmtRule(P, s))
<1> DEFINE words == {"let", "if", "for", "while", "{", "ret", "break", "continue", "unsafe"}
           exprs == Literals \cup {"identifier", "(", "[", "!", "-", "&", "*", "tensor", "match"}
<1>1. CASE Check(s, "let")
  <2>1. StmtRule(P, s) = ParseLetStmt(P, s)
    BY <1>1 DEF StmtRule, Check, Literals
  <2> QED
    BY <1>1, <2>1, LetStmtGives DEF Check, Gives
<1>2. CASE Check(s, "if")
  <2>1. StmtRule(P, s) = ParseIfExpr(P, s)
    BY <1>2 DEF StmtRule, Check, Literals
  <2> QED
    BY <1>2, <2>1, IfGives DEF Check, Gives
<1>3. CASE Check(s, "for")
  <2>1. StmtRule(P, s) = ParseForStmt(P, s)
    BY <1>3 DEF StmtRule, Check, Literals
  <2> QED
    BY <1>3, <2>1, ForStmtGives DEF Check, Gives
<1>4. CASE Check(s, "while")
  <2>1. StmtRule(P, s) = ParseWhileStmt(P, s)
    BY <1>4 DEF StmtRule, Check, Literals
  <2> QED
    BY <1>4, <2>1, WhileStmtGives DEF Check, Gives
<1>5. CASE Check(s, "{")
  <2>1. StmtRule(P, s) = ParseBlockExpr(P, s)
    BY <1>5 DEF StmtRule, Check, Literals
  <2>2. Gives(s, s.pos + 1, ParseBlockExpr(P, s))
    <3>1. Starts(s, s.pos + 1, "{")
      BY <1>5, Begins DEF Starts
    <3> QED
      BY <3>1, BlockGives
  <2> QED
    BY <1>5, <2>1, <2>2 DEF Check, Gives
<1>6. CASE Check(s, "ret")
  <2>1. StmtRule(P, s) = ParseRetStmt(P, s)
    BY <1>6 DEF StmtRule, Check, Literals
  <2> QED
    BY <1>6, <2>1, RetStmtGives DEF Check, Gives
<1>7. CASE Check(s, "break")
  <2>1. StmtRule(P, s) = ParseJump(s, "BreakStmt")
    BY <1>7 DEF StmtRule, Check, Literals
  <2> QED
    BY <1>7, <2>1, JumpGives DEF Check, Gives
<1>8. CASE Check(s, "continue")
  <2>1. StmtRule(P, s) = ParseJump(s, "ContinueStmt")
    BY <1>8 DEF StmtRule, Check, Literals
  <2> QED
    BY <1>8, <2>1, JumpGives DEF Check, Gives
<1>9. CASE Check(s, "unsafe")
  <2>1. StmtRule(P, s) = ParseUnsafeBlock(P, s)
    BY <1>9 DEF StmtRule, Check, Literals
  <2> QED
    BY <1>9, <2>1, UnsafeBlockGives DEF Check, Gives
<1>10. CASE Peek(s) \in exprs
  <2>1. Peek(s) \notin words /\ Peek(s) \notin {";", "}", ")", "]", ",", "eof"}
    BY <1>10 DEF Literals
  <2>2. StmtRule(P, s) = ParseExprStmt(P, s)
    BY <1>10, <2>1 DEF StmtRule, Check, Literals
  <2> QED
    BY <2>1, <2>2, ExprStmtGives DEF Gives
<1>11. CASE Peek(s) \notin words \cup exprs
  <2>1. "ExpectedStmt" \in BareIDs /\ Here(s) \in Nat
    BY Texts DEF DiagID, BareIDs
  <2>2. StmtRule(P, s) = ErrorNode(Synchronize(Diag(s, "ExpectedStmt")), Here(s))
    BY <1>11 DEF StmtRule, Check, Literals
  <2>3. Diag(s, "ExpectedStmt") \in Moves(s) /\ Diag(s, "ExpectedStmt").pos = s.pos
    BY <2>1, PlainDiag
  <2> QED
    BY <2>1, <2>2, <2>3, SyncGives, Reported
<1> QED
  BY <1>1, <1>2, <1>3, <1>4, <1>5, <1>6, <1>7, <1>8, <1>9, <1>10, <1>11 DEF Check

-----------------------------------------------------------------------------
(* Postfix expressions and operators.                                      *)

\* The operand of s has been replaced, and the cursor is not before q.
Turns(s, q, t) == t \in Wraps(s) /\ q <= t.pos

LEMMA ReachesTurns ==
    ASSUME NEW s \in Sound, OnNode(s), NEW q \in Nat, NEW t, Reaches(s, q, t),
           NEW kind \in Proper, NEW payload \in Payload
    PROVE  /\ Turns(s, q, Around(t, s, kind, payload))
           /\ \A span \in Nat \X Nat : Turns(s, q, Make(t, Mark(s) - 1, kind, span, payload))
<1>1. t \in Adds(s) /\ q <= t.pos /\ t \in After(s, Mark(s) - 1)
  BY ReachesFacts, AddsBelow
<1>2. Turns(s, q, Around(t, s, kind, payload))
  BY <1>1, AroundWraps DEF Turns
<1>3. ASSUME NEW span \in Nat \X Nat
      PROVE  Turns(s, q, Make(t, Mark(s) - 1, kind, span, payload))
  BY <1>1, MakeWraps DEF Turns
<1> QED
  BY <1>2, <1>3

\* Functions that productions pass to WithStructLit.
LEMMA OperandsAdding ==
    ASSUME NEW P, NEW toks, NEW q \in Nat, Ready(P, {"type", "expr"}, toks, q)
    PROVE  /\ \A closers : Adding([t \in State |->
                  MoreElements(ParseAnyExpr(P, t), closers, ExprAt(P))], toks, q)
           /\ Adding([t \in State |-> IF Check(t, ")") THEN t
                  ELSE MoreElements(ParseAnyExpr(P, t), {}, ExprAt(P))], toks, q)
<1>1. ASSUME NEW t \in Sound, t.toks = toks, q <= t.pos, NEW closers
      PROVE  MoreElements(ParseAnyExpr(P, t), closers, ExprAt(P)) \in Adds(t)
  <2>1. Reaches(t, q, t)
    BY <1>1, Itself DEF Reaches
  <2>2. Reaches(t, q, ParseAnyExpr(P, t))
    BY <1>1, <2>1, ReachesCalls
  <2>3. Adding(ExprAt(P), t.toks, q)
    BY <1>1, ListsOfOperands
  <2> QED
    BY <2>2, <2>3, ReachesLists DEF Reaches
<1>2. \A t \in Sound : t \in State /\ t \in Adds(t)
  BY SoundFields, Itself
<1> QED
  BY <1>1, <1>2 DEF Adding

LEMMA ReachesWithStructLit ==
    ASSUME NEW s \in Sound, NEW q \in Nat, NEW t, Reaches(s, q, t), NEW f, Adding(f, s.toks, q)
    PROVE  Reaches(s, q, WithStructLit(t, TRUE, f))
<1>1. t \in Sound /\ t.toks = s.toks /\ q <= t.pos
  BY ReachesFacts
<1>2. WithStructLit(t, TRUE, f) \in Adds(t)
  BY <1>1, WithStructLitFacts
<1> QED
  BY <1>2, ReachesThen

LEMMA ArgListGives ==
    ASSUME NEW P, NEW s \in Sound, Check(s, "("), Ready(P, Rules, s.toks, s.pos + 1)
    PROVE  Gives(s, s.pos + 1, ParseArgList(P, s))
<1> DEFINE q == s.pos + 1
           open == Expect(s, "(", "ExpectedOpen")
           args == [t \in State |-> IF Check(t, ")") THEN t
                       ELSE MoreElements(ParseAnyExpr(P, t), {}, ExprAt(P))]
<1>1. /\ "(" \in TokenKind \ {"eof"} /\ ")" \in TokenKind /\ "ArgList" \in Proper
      /\ {"ExpectedOpen", "ExpectedArgListClose"} \subseteq ExpectIDs
  BY DEF TokenKind, Fixed, Symbols, DiagID, ExpectIDs, NodeKind, Proper
<1>2. q \in Nat /\ Starts(s, q, "(") /\ Ready(P, {"type", "expr"}, s.toks, q)
  BY Begins, ReadyOperands DEF Starts
<1> HIDE DEF q
<1>3. Reaches(s, q, open)
  BY <1>1, <1>2, StartsFacts
<1>4. Adding(args, s.toks, q)
  BY <1>2, OperandsAdding
<1> HIDE DEF open, args
<1>5. Reaches(s, q, WithStructLit(open, TRUE, args))
  BY <1>2, <1>3, <1>4, ReachesWithStructLit
<1>6. Gives(s, q, Close(WithStructLit(open, TRUE, args), s, ")", "ExpectedArgListClose",
                        "ArgList", Nothing))
  BY <1>1, <1>2, <1>5, ReachesEnds, PayloadTypes
<1> QED
  BY <1>6 DEF q, ParseArgList, open, args

LEMMA CallTurns ==
    ASSUME NEW P, NEW s \in Sound, OnNode(s), Check(s, "("), Ready(P, Rules, s.toks, s.pos + 1)
    PROVE  Turns(s, s.pos + 1, ParseCall(P, s))
<1> DEFINE q == s.pos + 1
<1>q. q \in Nat
  BY Begins
<1>t. PICK t : t = ParseArgList(P, s)
  OBVIOUS
<1>1. Gives(s, q, t)
  BY <1>t, ArgListGives
<1> HIDE DEF q
<1>2. Reaches(s, q, t) /\ OnNode(t) /\ t \in Sound
  BY <1>q, <1>1, GivesFacts
<1>3. <<TopSpan(s)[1], TopSpan(t)[2]>> \in Nat \X Nat /\ "CallExpr" \in Proper
  BY <1>2, TopSpanType DEF NodeKind, Proper, ExprKinds
<1>4. Turns(s, q, ParseCall(P, s))
  BY <1>q, <1>t, <1>2, <1>3, ReachesTurns, PayloadTypes DEF ParseCall
<1> QED
  BY <1>4 DEF q

\* The text of one token.
LEMMA TextHereIs ==
    ASSUME NEW s \in Sound, Peek(s) # "eof"
    PROVE  /\ s.pos + 1 \in DOMAIN s.toks /\ s.toks[s.pos + 1] \in Token
           /\ Kind(s.toks[s.pos + 1]) = Peek(s)
           /\ TextHere(s) \in Seq(Token) /\ Len(TextHere(s)) = 1
           /\ TextHere(s)[1] = s.toks[s.pos + 1]
<1> DEFINE k == s.pos + 1
<1>1. k \in 1..(Len(s.toks) - 1) /\ Peek(s) = Kind(s.toks[k])
  BY PeekHere
<1>2. s.toks \in Seq(Token) /\ Len(s.toks) \in Nat \ {0} /\ Here(s) = k /\ s.pos \in Nat
  BY SoundFields, PlaceTypes
<1> HIDE DEF k
<1>3. k \in Nat \ {0} /\ k < Len(s.toks) /\ k <= Len(s.toks) /\ k \in 1..Len(s.toks)
  BY <1>1, <1>2
<1>4. TextHere(s) = SubSeq(s.toks, k, k)
  BY <1>2, <1>3 DEF TextHere, Text
<1>5. /\ SubSeq(s.toks, k, k) \in Seq(Token) /\ Len(SubSeq(s.toks, k, k)) = 1
      /\ SubSeq(s.toks, k, k)[1] = s.toks[k]
  <2> DEFINE sub == SubSeq(s.toks, k, k)
  <2>1. /\ sub \in Seq(Token) /\ Len(sub) = IF k < k THEN 0 ELSE k - k + 1
        /\ \A i \in 1..Len(sub) : sub[i] = s.toks[k + i - 1]
    BY <1>2, <1>3, SubSeqType
  <2> HIDE DEF sub
  <2>2. Len(sub) = 1
    BY <1>3, <2>1
  <2>3. sub[1] = s.toks[k + 1 - 1] /\ k + 1 - 1 = k
    BY <1>3, <2>1, <2>2
  <2> QED
    BY <2>1, <2>2, <2>3 DEF sub
<1>6. k \in DOMAIN s.toks /\ s.toks[k] \in Token
  BY <1>2, <1>3
<1> QED
  BY <1>1, <1>4, <1>5, <1>6 DEF k

LEMMA TupleIndexTurns ==
    ASSUME NEW s \in Sound, OnNode(s), NEW indexes \in Seq(Token), Len(indexes) \in {1, 2}
    PROVE  ParseTupleIndex(s, indexes) \in Wraps(s)
<1>1. indexes[1] \in Token /\ (Len(indexes) = 2 => indexes[2] \in Token)
  OBVIOUS
<1>2. ASSUME NEW x \in Token
      PROVE  <<x>> \in Seq(Token)
  OBVIOUS
<1>3. /\ Named(<<indexes[1]>>) \in Payload
      /\ Len(indexes) = 2 => Named(<<indexes[2]>>) \in Payload
  BY <1>1, <1>2, PayloadTypes
<1>4. "TupleIndexExpr" \in Proper
  BY DEF NodeKind, Proper, ExprKinds
<1>5. Advance(s) \in After(s, Mark(s) - 1)
  BY AdvanceFacts, MovesAdds, AddsBelow
<1>t. PICK t : t = Around(Advance(s), s, "TupleIndexExpr", Named(<<indexes[1]>>))
  OBVIOUS
<1>6. t \in Wraps(s)
  BY <1>t, <1>3, <1>4, <1>5, AroundWraps
<1>7. t \in After(s, Mark(s) - 1)
  BY <1>6 DEF Wraps
<1>8. Len(indexes) = 2 => Around(t, s, "TupleIndexExpr", Named(<<indexes[2]>>)) \in Wraps(s)
  BY <1>3, <1>4, <1>7, AroundWraps
<1> QED
  BY <1>t, <1>6, <1>8 DEF ParseTupleIndex

LEMMA MemberTurns ==
    ASSUME NEW s \in Sound, OnNode(s)
    PROVE  ParseMember(s) \in Wraps(s)
<1>1. CASE Check(s, "integer_literal")
  <2>1. TextHere(s) \in Seq(Token) /\ Len(TextHere(s)) = 1
    BY <1>1, TextHereIs DEF Check
  <2>2. ParseTupleIndex(s, TextHere(s)) \in Wraps(s)
    BY <2>1, TupleIndexTurns
  <2> QED
    BY <1>1, <2>2 DEF ParseMember, Check
<1>2. CASE Check(s, "float_literal") /\ TupleIndexes[TextHere(s)[1]] # <<>>
  <2> DEFINE tok == s.toks[s.pos + 1]
  <2>1. tok = TextHere(s)[1] /\ s.pos + 1 \in DOMAIN s.toks /\ Kind(tok) = "float_literal"
    BY <1>2, TextHereIs DEF Check
  <2>2. tok \in DOMAIN TupleIndexes
    BY <2>1, SoundFields DEF TokensSound
  <2> HIDE DEF tok
  <2>3. TupleIndexes[tok] \in {<<i>> : i \in Token} \cup (Token \X Token)
    BY <1>2, <2>1, <2>2, VocabularyAssumption
  <2>4. TupleIndexes[tok] \in Seq(Token) /\ Len(TupleIndexes[tok]) \in {1, 2}
    <3>1. CASE TupleIndexes[tok] \in {<<i>> : i \in Token}
      <4>x. PICK a \in Token : TupleIndexes[tok] = <<a>>
        BY <3>1
      <4>1. <<a>> \in Seq(Token) /\ Len(<<a>>) = 1
        OBVIOUS
      <4> QED
        BY <4>x, <4>1
    <3>2. CASE TupleIndexes[tok] \in Token \X Token
      <4>x. PICK a \in Token, b \in Token : TupleIndexes[tok] = <<a, b>>
        BY <3>2
      <4>1. <<a, b>> \in Seq(Token) /\ Len(<<a, b>>) = 2
        OBVIOUS
      <4> QED
        BY <4>x, <4>1
    <3> QED
      BY <2>3, <3>1, <3>2
  <2>5. ParseTupleIndex(s, TupleIndexes[tok]) \in Wraps(s)
    BY <2>4, TupleIndexTurns
  <2>6. ParseMember(s) = ParseTupleIndex(s, TupleIndexes[tok])
    BY <1>2, <2>1 DEF ParseMember, Check
  <2> QED
    BY <2>5, <2>6
<1>3. CASE ~Check(s, "integer_literal")
           /\ ~(Check(s, "float_literal") /\ TupleIndexes[TextHere(s)[1]] # <<>>)
  <2>1. "identifier" \in TokenKind /\ "ExpectedFieldName" \in ExpectIDs /\ "FieldExpr" \in Proper
    BY DEF TokenKind, DiagID, ExpectIDs, NodeKind, Proper, ExprKinds
  <2>2. Expect(s, "identifier", "ExpectedFieldName") \in After(s, Mark(s) - 1)
    BY <2>1, ExpectFacts, MovesAdds, AddsBelow
  <2>3. ParseField(s) \in Wraps(s)
    BY <2>1, <2>2, Texts, AroundWraps DEF ParseField
  <2> QED
    BY <1>3, <2>3 DEF ParseMember
<1> QED
  BY <1>1, <1>2, <1>3

LEMMA IndexTurns ==
    ASSUME NEW P, NEW s \in Sound, OnNode(s), Check(s, "["), Ready(P, Rules, s.toks, s.pos + 1)
    PROVE  Turns(s, s.pos + 1, ParsePostfixIndex(P, s))
<1> DEFINE q == s.pos + 1
           indexes == [t \in State |-> MoreElements(ParseAnyExpr(P, t), {"]"}, ExprAt(P))]
           t == WithStructLit(Advance(s), TRUE, indexes)
           tensor == Mark(t) > Mark(s) + 1
           diag == IF tensor THEN "ExpectedTensorIndexClose" ELSE "ExpectedRSquare"
           kind == IF tensor THEN "TensorIndexExpr" ELSE "IndexExpr"
           close == Expect(t, "]", diag)
           span == <<TopSpan(s)[1], Here(t)>>
<1>1. "]" \in TokenKind /\ diag \in ExpectIDs /\ kind \in Proper
  BY DEF TokenKind, Fixed, Symbols, DiagID, ExpectIDs, NodeKind, Proper, ExprKinds
<1>2. q \in Nat /\ Ready(P, {"type", "expr"}, s.toks, q) /\ Comes(s, q, Advance(s))
  BY Begins, ReadyOperands DEF Check
<1> HIDE DEF q
<1>3. Adding(indexes, s.toks, q)
  BY <1>2, OperandsAdding
<1> HIDE DEF indexes, diag, kind
<1>4. Reaches(s, q, t)
  BY <1>2, <1>3, ComesReaches, ReachesWithStructLit
<1> HIDE DEF t
<1>5. Reaches(s, q, close)
  BY <1>1, <1>2, <1>4, ReachesMoves
<1> HIDE DEF close
<1>6. span \in Nat \X Nat
  BY <1>2, <1>4, ReachesFacts, TopSpanType, Texts
<1> HIDE DEF span
<1>7. Turns(s, q, Make(close, Mark(s) - 1, kind, span, Nothing))
  BY <1>1, <1>2, <1>5, <1>6, ReachesTurns, PayloadTypes
<1> QED
  BY <1>7 DEF q, ParsePostfixIndex, close, span, kind, diag, t, indexes

LEMMA CastTurns ==
    ASSUME NEW P, NEW s \in Sound, OnNode(s), Check(s, "as"), Ready(P, Rules, s.toks, s.pos + 1)
    PROVE  Turns(s, s.pos + 1, ParseCast(P, s))
<1> DEFINE q == s.pos + 1
<1>1. q \in Nat /\ Ready(P, {"type", "expr"}, s.toks, q) /\ Comes(s, q, Advance(s))
  BY Begins, ReadyOperands DEF Check
<1> HIDE DEF q
<1>t. PICK t : t = ParseType(P, Advance(s))
  OBVIOUS
<1>2. Reaches(s, q, t) /\ OnNode(t)
  BY <1>1, <1>t, ComesReaches, ReachesCalls
<1>3. <<TopSpan(s)[1], TopSpan(t)[2]>> \in Nat \X Nat /\ "CastExpr" \in Proper
  BY <1>1, <1>2, ReachesFacts, TopSpanType DEF NodeKind, Proper, ExprKinds
<1>4. Turns(s, q, ParseCast(P, s))
  BY <1>1, <1>t, <1>2, <1>3, ReachesTurns, PayloadTypes DEF ParseCast
<1> QED
  BY <1>4 DEF q

LEMMA PostfixOnceTurns ==
    ASSUME NEW P, NEW s \in Sound, OnNode(s), Ready(P, Rules, s.toks, s.pos + 1),
           Peek(s) \in {"(", ".", "[", "?", "as"}
    PROVE  Turns(s, s.pos + 1, PostfixOnce(P, s))
<1>1. CASE Check(s, "(")
  <2>1. PostfixOnce(P, s) = ParseCall(P, s)
    BY <1>1 DEF PostfixOnce, Check
  <2> QED
    BY <1>1, <2>1, CallTurns
<1>2. CASE Check(s, "[")
  <2>1. PostfixOnce(P, s) = ParsePostfixIndex(P, s)
    BY <1>2 DEF PostfixOnce, Check
  <2> QED
    BY <1>2, <2>1, IndexTurns
<1>3. CASE Check(s, "as")
  <2>1. PostfixOnce(P, s) = ParseCast(P, s)
    BY <1>3 DEF PostfixOnce, Check
  <2> QED
    BY <1>3, <2>1, CastTurns
<1>4. s.pos + 1 \in Nat /\ Comes(s, s.pos + 1, Advance(s))
  BY Begins
<1>5. CASE Check(s, "?")
  <2>1. PostfixOnce(P, s) = Around(Advance(s), s, "PropagateExpr", Nothing)
    BY <1>5 DEF PostfixOnce, Check
  <2>2. "PropagateExpr" \in Proper /\ Nothing \in Payload
    BY PayloadTypes DEF NodeKind, Proper, ExprKinds
  <2> QED
    BY <1>4, <2>1, <2>2, ComesReaches, ReachesTurns
<1>6. CASE Check(s, ".")
  <2>1. PostfixOnce(P, s) = ParseMember(Advance(s))
    BY <1>6 DEF PostfixOnce, Check
  <2>a. PICK a : a = Advance(s)
    OBVIOUS
  <2>2. a \in Moves(s) /\ a \in Sound /\ OnNode(a) /\ a \in Wraps(s) /\ s.pos + 1 <= a.pos
    BY <1>4, <2>a, AdvanceFacts, MovesAdds, OnNodeStays, MovesWraps DEF Comes
  <2>m. PICK m : m = ParseMember(a)
    OBVIOUS
  <2>3. m \in Wraps(a)
    BY <2>2, <2>m, MemberTurns
  <2>4. m \in Wraps(s) /\ a.pos <= m.pos /\ a.pos \in Nat /\ m.pos \in Nat
    BY <2>2, <2>3, WrapsWraps, WrapsFacts
  <2>5. s.pos + 1 <= m.pos
    BY <1>4, <2>2, <2>4
  <2> QED
    BY <2>1, <2>a, <2>m, <2>4, <2>5 DEF Turns
<1> QED
  BY <1>1, <1>2, <1>3, <1>5, <1>6 DEF Check

LEMMA PostfixWraps ==
    ASSUME NEW P, NEW s \in Sound, OnNode(s), Ready(P, Rules, s.toks, s.pos + 1)
    PROVE  Postfix(P, s) \in Wraps(s)
<1> DEFINE more == [t \in State |-> Peek(t) \in {"(", ".", "[", "?", "as"}]
           round == [t \in State |-> PostfixOnce(P, t)]
<1>1. ASSUME NEW t \in Wraps(s), more[t]
      PROVE  round[t] \in Wraps(t) /\ round[t].pos > t.pos
  <2>1. t \in Sound /\ OnNode(t) /\ t.toks = s.toks /\ s.pos \in Nat /\ t.pos \in Nat
        /\ s.pos <= t.pos /\ t \in State
    BY WrapsFacts, SoundFields
  <2>2. s.pos + 1 \in Nat /\ t.pos + 1 \in Nat /\ s.pos + 1 <= t.pos + 1
    BY <2>1
  <2>3. Ready(P, Rules, t.toks, t.pos + 1)
    BY <2>1, <2>2, ReadyLater
  <2>4. Peek(t) \in {"(", ".", "[", "?", "as"} /\ round[t] = PostfixOnce(P, t)
    BY <1>1, <2>1
  <2> HIDE DEF round
  <2>5. round[t] \in Wraps(t) /\ t.pos + 1 <= round[t].pos
    BY <2>1, <2>3, <2>4, PostfixOnceTurns DEF Turns
  <2>6. round[t].pos \in Nat
    BY <2>1, <2>5, WrapsFacts
  <2> QED
    BY <2>1, <2>5, <2>6
<1> HIDE DEF more, round
<1>2. While(s, more, round) \in Wraps(s)
  BY <1>1, WhileWraps
<1> QED
  BY <1>2 DEF Postfix, more, round

-----------------------------------------------------------------------------
(* The loop of parseExpr.                                                  *)

LEMMA InfixPower ==
    ASSUME NEW op, NEW bp \in Nat, InfixBindingPower(op)[1] >= bp
    PROVE  op # "eof" /\ InfixBindingPower(op)[2] \in Nat
<1>1. CASE InfixBindingPower(op) = <<-1, -1>>
  <2>1. InfixBindingPower(op)[1] = -1
    BY <1>1
  <2>2. FALSE
    BY <2>1
  <2> QED
    BY <2>2
<1>2. CASE InfixBindingPower(op) # <<-1, -1>>
  <2>1. op # "eof"
    BY <1>2 DEF InfixBindingPower, Assignments
  <2>2. InfixBindingPower(op) \in
            {<<10, 9>>, <<20, 21>>, <<30, 31>>, <<40, 41>>, <<50, 51>>, <<60, 61>>,
             <<70, 71>>, <<80, 81>>, <<90, 91>>, <<100, 101>>}
    BY <1>2 DEF InfixBindingPower
  <2>3. \A x \in {<<10, 9>>, <<20, 21>>, <<30, 31>>, <<40, 41>>, <<50, 51>>, <<60, 61>>,
                  <<70, 71>>, <<80, 81>>, <<90, 91>>, <<100, 101>>} : x[2] \in Nat
    OBVIOUS
  <2> QED
    BY <2>1, <2>2, <2>3
<1> QED
  BY <1>1, <1>2

LEMMA RightInsteadWraps ==
    ASSUME NEW s \in Sound, OnNode(s), NEW rhs \in Adds(s), OnNode(rhs), TopIsError(rhs)
    PROVE  RightInstead(rhs, Mark(s) - 1) \in Wraps(s)
<1> DEFINE m == Mark(s) - 1
           d == Drop(rhs, m)
           t == Push(d, Top(rhs))
<1>1. rhs \in Sound /\ rhs \in After(s, m) /\ m \in Nat /\ Mark(rhs) \in Nat /\ Mark(s) <= Mark(rhs)
  BY FirstAdds, AddsBelow
<1>2. m \in 0..Mark(rhs) /\ m + 1 = Mark(s)
  <2>1. Mark(s) \in Nat
    BY SoundFields
  <2> QED
    BY <1>1, <2>1
<1>e. rhs.errs # <<>>
  BY <1>1 DEF TopIsError, OnNode, Sound, Lossless
<1>p. m \in 0..(Mark(rhs) - 1)
  BY <1>1, <1>2
<1> HIDE DEF m
<1>3. d \in After(rhs, m) /\ Mark(d) = m /\ d.pool = rhs.pool /\ d.vals = SubSeq(rhs.vals, 1, m)
  BY <1>1, <1>2, <1>e, DropFacts
<1> HIDE DEF d
<1>a. ~Among(Top(rhs), d.pool.children) /\ ~Among(Top(rhs), d.vals)
  BY <1>1, <1>3, <1>p, TopAlone
<1>4. d \in Sound
  BY <1>1, <1>3, Onward
<1>5. Top(rhs) \in Nodes(d.pool)
  BY <1>3 DEF OnNode
<1>6. t \in Adds(d) /\ Mark(t) = m + 1 /\ OnNode(t)
  <2>1. t \in Yields(d) /\ Mark(t) = Mark(d) + 1
    BY <1>4, <1>5, <1>a, PushFacts
  <2> QED
    BY <1>3, <1>4, <2>1, YieldsAdds
<1> HIDE DEF t
<1>7. \A n \in Nat : n <= n
  OBVIOUS
<1>8. d \in After(s, m)
  BY <1>1, <1>3, <1>7, AfterAfter
<1>9. t \in After(s, m)
  BY <1>1, <1>3, <1>4, <1>6, <1>7, <1>8, AfterAfter DEF Adds
<1>10. t \in Wraps(s)
  BY <1>2, <1>6, <1>9 DEF Wraps, m
<1> QED
  BY <1>10 DEF t, d, m, RightInstead

LEMMA InfixWraps ==
    ASSUME NEW P, NEW s \in Sound, OnNode(s), NEW minBP \in Nat,
           Ready(P, Rules, s.toks, s.pos + 1)
    PROVE  Infix(P, s, minBP) \in Wraps(s)
<1>l. PICK lhs : lhs = Postfix(P, s)
  OBVIOUS
<1>b. PICK bp : bp = InfixBindingPower(Peek(lhs))
  OBVIOUS
<1>1. lhs \in Wraps(s)
  BY <1>l, PostfixWraps
<1>2. lhs \in Sound /\ OnNode(lhs) /\ lhs.toks = s.toks /\ s.pos \in Nat /\ lhs.pos \in Nat
      /\ s.pos <= lhs.pos
  BY <1>1, WrapsFacts
<1>3. CASE bp[1] < minBP
  BY <1>l, <1>b, <1>1, <1>3 DEF Infix
<1>4. CASE ~(bp[1] < minBP)
  <2>1. Peek(lhs) # "eof" /\ bp[2] \in Nat
    <3>1. bp[1] \in Int
      BY <1>b DEF InfixBindingPower
    <3>2. bp[1] >= minBP
      BY <1>4, <3>1
    <3> QED
      BY <1>b, <3>2, InfixPower
  <2>q. PICK q : q = lhs.pos + 1
    OBVIOUS
  <2>2. q \in Nat /\ Comes(lhs, q, Advance(lhs))
    BY <1>2, <2>1, <2>q, Begins
  <2>3. Ready(P, Rules, lhs.toks, q)
    <3>1. s.pos + 1 \in Nat /\ s.pos + 1 <= q
      BY <1>2, <2>q
    <3> QED
      BY <1>2, <2>2, <3>1, ReadyLater
  <2>r. PICK rhs : rhs = ParseExpr(P, Advance(lhs), bp[2])
    OBVIOUS
  <2>4. Reaches(lhs, q, rhs) /\ OnNode(rhs)
    BY <1>2, <2>1, <2>2, <2>3, <2>r, ComesReaches, ReachesCalls, ReadyOperands
  <2>5. rhs \in Adds(lhs) /\ rhs \in Sound
    BY <1>2, <2>2, <2>4, ReachesFacts
  <2>6. Infix(P, s, minBP) = EndInfix(P, lhs, rhs, minBP)
    BY <1>l, <1>b, <1>4, <2>r DEF Infix
  <2>7. EndInfix(P, lhs, rhs, minBP) \in Wraps(lhs)
    <3>1. CASE TopIsError(rhs)
      BY <1>2, <2>4, <2>5, <3>1, RightInsteadWraps DEF EndInfix
    <3>2. CASE ~TopIsError(rhs)
      <4>m. PICK made : made = Make(rhs, Mark(lhs) - 1, "BinaryExpr",
                                    <<TopSpan(lhs)[1], TopSpan(rhs)[2]>>, Named(TextHere(lhs)))
        OBVIOUS
      <4>1. <<TopSpan(lhs)[1], TopSpan(rhs)[2]>> \in Nat \X Nat /\ "BinaryExpr" \in Proper
            /\ Named(TextHere(lhs)) \in Payload
        BY <1>2, <2>4, <2>5, TopSpanType, Texts DEF NodeKind, Proper, ExprKinds
      <4>2. Turns(lhs, q, made)
        BY <1>2, <2>2, <2>4, <4>m, <4>1, ReachesTurns
      <4>3. made \in Wraps(lhs) /\ made \in Sound /\ OnNode(made) /\ made.toks = lhs.toks
            /\ q <= made.pos
        BY <1>2, <4>2, WrapsFacts DEF Turns
      <4>4. P[<<"infix", minBP, made>>] \in Wraps(made)
        BY <2>3, <4>3, NestedCalls
      <4>5. P[<<"infix", minBP, made>>] \in Wraps(lhs)
        BY <1>2, <4>3, <4>4, WrapsWraps
      <4> QED
        BY <3>2, <4>m, <4>5 DEF EndInfix
    <3> QED
      BY <3>1, <3>2
  <2> QED
    BY <1>1, <2>6, <2>7, WrapsWraps
<1> QED
  BY <1>3, <1>4

-----------------------------------------------------------------------------
(* Prefix expressions.                                                     *)

\* From a production at every state to the function that a list is given.
LEMMA FieldInitYields ==
    ASSUME NEW P, NEW s \in Sound, Ready(P, Rules, s.toks, s.pos + 1)
    PROVE  ParseFieldInit(P, s) \in Yields(s)
<1> DEFINE q == s.pos + 1
<1>1. Named(TextHere(s)) \in Payload /\ Here(s) \in Nat /\ <<Here(s), Here(s)>> \in Nat \X Nat
      /\ \A n \in Nat : <<Here(s), n>> \in Nat \X Nat
  BY Texts
<1>2. {"FieldInit", "IdentExpr"} \subseteq Proper /\ "ExpectedFieldInitName" \in BareIDs
  BY DEF NodeKind, Proper, ExprKinds, DiagID, BareIDs
<1>3. CASE ~Check(s, "identifier")
  <2>1. Comes(s, s.pos, Diag(s, "ExpectedFieldInitName")) /\ s.pos \in Nat
    BY <1>2, Begins, ComesMoves
  <2>2. ParseFieldInit(P, s) = ErrorNode(Diag(s, "ExpectedFieldInitName"), Here(s))
    BY <1>3 DEF ParseFieldInit, Check
  <2> QED
    BY <1>1, <2>1, <2>2, ComesEnds, Reported DEF Gives
<1>4. CASE Check(s, "identifier")
  <2>1. Comes(s, q, Advance(s)) /\ q \in Nat /\ Ready(P, {"type", "expr"}, s.toks, q)
    BY <1>4, Begins, ReadyOperands DEF Check
  <2> HIDE DEF q
  <2>n. PICK name : name = Advance(s)
    OBVIOUS
  <2>2. CASE Check(name, ":")
    <3>1. Reaches(s, q, Advance(name))
      BY <2>1, <2>n, ComesMoves, ComesReaches
    <3>t. PICK t : t = ParseAnyExpr(P, Advance(name))
      OBVIOUS
    <3>2. Reaches(s, q, t) /\ OnNode(t)
      BY <2>1, <3>1, <3>t, ReachesCalls
    <3>3. <<Here(s), TopSpan(t)[2]>> \in Nat \X Nat
      BY <1>1, <2>1, <3>2, ReachesFacts, TopSpanType
    <3>4. Gives(s, q, Make(t, Mark(s), "FieldInit", <<Here(s), TopSpan(t)[2]>>,
                           Named(TextHere(s))))
      BY <1>1, <1>2, <2>1, <3>2, <3>3, ReachesEnds
    <3>5. ParseFieldInit(P, s) = Make(t, Mark(s), "FieldInit", <<Here(s), TopSpan(t)[2]>>,
                                      Named(TextHere(s)))
      BY <1>4, <2>n, <2>2, <3>t DEF ParseFieldInit
    <3> QED
      BY <3>4, <3>5 DEF Gives
  <2>3. CASE ~Check(name, ":")
    <3>t. PICK t : t = Leaf(name, "IdentExpr", <<Here(s), Here(s)>>, Named(TextHere(s)))
      OBVIOUS
    <3>1. Reaches(s, q, t)
      BY <1>1, <1>2, <2>1, <2>n, <3>t, ComesEnds, GivesFacts
    <3>2. Gives(s, q, Make(t, Mark(s), "FieldInit", <<Here(s), Here(s)>>, Named(TextHere(s))))
      BY <1>1, <1>2, <2>1, <3>1, ReachesEnds
    <3>3. ParseFieldInit(P, s)
              = Make(t, Mark(s), "FieldInit", <<Here(s), Here(s)>>, Named(TextHere(s)))
      BY <1>4, <2>n, <2>3, <3>t DEF ParseFieldInit
    <3> QED
      BY <3>2, <3>3 DEF Gives
  <2> QED
    BY <2>2, <2>3
<1> QED
  BY <1>3, <1>4

LEMMA ListAdding ==
    ASSUME NEW f, NEW toks, NEW q \in Nat, Adding(f, toks, q), NEW close
    PROVE  Adding([u \in State |-> CommaSeparated(u, close, f)], toks, q)
<1>1. ASSUME NEW t \in Sound, t.toks = toks, q <= t.pos
      PROVE  CommaSeparated(t, close, f) \in Adds(t) /\ t \in State
  <2>1. t.pos \in Nat /\ t \in State
    BY SoundFields
  <2>2. Adding(f, t.toks, t.pos)
    BY <1>1, <2>1, AddingLater
  <2> QED
    BY <2>1, <2>2, CommaSeparatedAdds
<1> QED
  BY <1>1 DEF Adding

LEMMA FieldInitsAdding ==
    ASSUME NEW P, NEW toks, NEW q \in Nat, Ready(P, Rules, toks, q)
    PROVE  Adding([v \in State |-> ParseFieldInit(P, v)], toks, q)
<1>1. ASSUME NEW t \in Sound, t.toks = toks, q <= t.pos
      PROVE  ParseFieldInit(P, t) \in Yields(t) /\ t \in State
  <2>1. t.pos \in Nat /\ t \in State
    BY SoundFields
  <2>2. t.pos + 1 \in Nat /\ q <= t.pos + 1
    BY <1>1, <2>1
  <2>3. Ready(P, Rules, t.toks, t.pos + 1)
    BY <1>1, <2>2, ReadyLater
  <2> QED
    BY <2>1, <2>3, FieldInitYields
<1> QED
  BY <1>1, YieldingAdds DEF Yielding

LEMMA NameExprGives ==
    ASSUME NEW P, NEW s \in Sound, Check(s, "identifier"), Ready(P, Rules, s.toks, s.pos + 1)
    PROVE  Gives(s, s.pos + 1, ParseNameExpr(P, s))
<1> DEFINE q == s.pos + 1
           inits == [v \in State |-> ParseFieldInit(P, v)]
           fields == [u \in State |-> CommaSeparated(u, "}", inits)]
<1>1. q \in Nat /\ Ready(P, Rules, s.toks, q) /\ Comes(s, q, Advance(s))
  BY Begins DEF Check
<1>2. /\ {"StructLitExpr", "PathExpr", "IdentExpr"} \subseteq Proper
      /\ "ExpectedStructLitClose" \in ExpectIDs /\ "}" \in TokenKind
  BY DEF NodeKind, Proper, ExprKinds, DiagID, ExpectIDs, TokenKind, Fixed, Symbols
<1> HIDE DEF q
<1>3. Adding(inits, s.toks, q)
  BY <1>1, FieldInitsAdding
<1> HIDE DEF inits
<1>4. Adding(fields, s.toks, q)
  BY <1>1, <1>3, ListAdding
<1> HIDE DEF fields
<1>t. PICK t : t = PathSegments(Advance(s))
  OBVIOUS
<1>5. Comes(s, q, t) /\ Comes(s, q, Advance(t))
  BY <1>1, <1>t, ComesMoves
<1>6. t \in Sound
  BY <1>5, MovesAdds DEF Comes
<1>x. PICK text : text = Text(s, Here(s), Before(t))
  OBVIOUS
<1>7. Named(text) \in Payload /\ <<Here(s), Before(t)>> \in Nat \X Nat
  BY <1>6, <1>x, Texts, PayloadTypes
<1>8. CASE t.allow /\ Check(t, "{")
  <2>1. Reaches(s, q, WithStructLit(Advance(t), TRUE, fields))
    BY <1>1, <1>4, <1>5, ComesReaches, ReachesWithStructLit
  <2>2. Gives(s, q, Close(WithStructLit(Advance(t), TRUE, fields), s, "}",
                          "ExpectedStructLitClose", "StructLitExpr", Named(text)))
    BY <1>1, <1>2, <1>7, <2>1, ReachesEnds
  <2>3. ParseNameExpr(P, s) = ParseStructLitExpr(P, t, s, text)
    BY <1>t, <1>x, <1>8 DEF ParseNameExpr
  <2> QED
    BY <2>2, <2>3 DEF ParseStructLitExpr, fields, inits, q
<1>9. CASE ~(t.allow /\ Check(t, "{"))
  <2>k. PICK kind : kind = IF t.pos > s.pos + 1 THEN "PathExpr" ELSE "IdentExpr"
    OBVIOUS
  <2>1. kind \in Proper
    BY <1>2, <2>k
  <2>2. Gives(s, q, Leaf(t, kind, <<Here(s), Before(t)>>, Named(text)))
    BY <1>1, <1>5, <1>7, <2>1, ComesEnds
  <2>3. ParseNameExpr(P, s) = Leaf(t, kind, <<Here(s), Before(t)>>, Named(text))
    BY <1>t, <1>x, <1>9, <2>k DEF ParseNameExpr
  <2> QED
    BY <2>2, <2>3 DEF q
<1> QED
  BY <1>8, <1>9

\* The whole of a parenthesised or array expression is read with struct literals
\* allowed.
LEMMA WithStructLitGives ==
    ASSUME NEW s \in Sound, NEW q \in Nat, NEW a, Comes(s, q, a), NEW f,
           Gives(s, q, f[[a EXCEPT !.allow = TRUE]])
    PROVE  Gives(s, q, WithStructLit(a, TRUE, f))
<1>u. PICK u : u = f[[a EXCEPT !.allow = TRUE]]
  OBVIOUS
<1>1. u \in Yields(s) /\ u \in Sound /\ q <= u.pos /\ a.allow \in BOOLEAN
  BY <1>u, GivesFacts, MovesAdds, SoundFields DEF Gives, Comes
<1>2. [u EXCEPT !.allow = a.allow] \in Moves(u) /\ [u EXCEPT !.allow = a.allow].pos = u.pos
  BY <1>1, AllowFacts
<1>3. [u EXCEPT !.allow = a.allow] \in Yields(s)
  BY <1>1, <1>2, YieldsMoves
<1> QED
  BY <1>u, <1>1, <1>2, <1>3 DEF WithStructLit, Gives

LEMMA ParenGives ==
    ASSUME NEW P, NEW s \in Sound, Peek(s) # "eof", Ready(P, Rules, s.toks, s.pos + 1)
    PROVE  Gives(s, s.pos + 1, ParseParenExpr(P, s))
<1> DEFINE q == s.pos + 1
           inside ==
               [t \in State |->
                   LET e == ParseAnyExpr(P, t)
                   IN  CASE Check(t, ")") ->
                                Close(t, s, ")", "ExpectedTupleExprClose", "TupleExpr",
                                      Nothing)
                         [] ~Check(t, ")") /\ Check(e, ",") ->
                                Close(MoreElements(e, {")"}, ExprAt(P)), s,
                                      ")", "ExpectedTupleExprClose", "TupleExpr", Nothing)
                         [] OTHER -> Expect(e, ")", "ExpectedParenExprClose")]
<1>1. q \in Nat /\ Ready(P, {"type", "expr"}, s.toks, q) /\ Comes(s, q, Advance(s))
  BY Begins, ReadyOperands
<1>2. ")" \in TokenKind /\ "TupleExpr" \in Proper
      /\ {"ExpectedTupleExprClose", "ExpectedParenExprClose"} \subseteq ExpectIDs
  BY DEF TokenKind, Fixed, Symbols, NodeKind, Proper, ExprKinds, DiagID, ExpectIDs
<1> HIDE DEF q
<1>3. Adding(ExprAt(P), s.toks, q)
  BY <1>1, ListsOfOperands
<1>b. PICK b : b = [Advance(s) EXCEPT !.allow = TRUE]
  OBVIOUS
<1>4. Comes(s, q, b) /\ b \in State /\ Reaches(s, q, b)
  <2>1. Advance(s) \in Sound
    BY AdvanceFacts, MovesAdds
  <2>2. b \in Moves(Advance(s))
    BY <1>b, <2>1, AllowFacts
  <2>3. b \in Sound
    BY <2>1, <2>2, MovesAdds
  <2> QED
    BY <1>1, <2>2, <2>3, ComesThen, ComesReaches, SoundFields
<1>e. PICK e : e = ParseAnyExpr(P, b)
  OBVIOUS
<1>5. Reaches(s, q, e) /\ e \in Yields(b)
  BY <1>1, <1>4, <1>e, ReachesCalls
<1>6. inside[b] =
          CASE Check(b, ")") ->
                   Close(b, s, ")", "ExpectedTupleExprClose", "TupleExpr", Nothing)
            [] ~Check(b, ")") /\ Check(e, ",") ->
                   Close(MoreElements(e, {")"}, ExprAt(P)), s,
                         ")", "ExpectedTupleExprClose", "TupleExpr", Nothing)
            [] OTHER -> Expect(e, ")", "ExpectedParenExprClose")
  BY <1>4, <1>e
<1> HIDE DEF inside
<1>7. Gives(s, q, Close(b, s, ")", "ExpectedTupleExprClose", "TupleExpr", Nothing))
  BY <1>1, <1>2, <1>4, ReachesEnds, PayloadTypes
<1>8. Gives(s, q, Close(MoreElements(e, {")"}, ExprAt(P)), s,
                        ")", "ExpectedTupleExprClose", "TupleExpr", Nothing))
  <2>1. Reaches(s, q, MoreElements(e, {")"}, ExprAt(P)))
    BY <1>1, <1>3, <1>5, ReachesLists
  <2> QED
    BY <1>1, <1>2, <2>1, ReachesEnds, PayloadTypes
<1>9. Gives(s, q, Expect(e, ")", "ExpectedParenExprClose"))
  <2>1. e \in Yields(s) /\ e \in Sound
    BY <1>1, <1>4, <1>5, ComesThen, ReachesFacts
  <2>2. Expect(e, ")", "ExpectedParenExprClose") \in Moves(e)
    BY <1>2, <2>1, ExpectFacts
  <2>3. Reaches(s, q, Expect(e, ")", "ExpectedParenExprClose"))
    BY <1>1, <1>5, <2>2, ReachesThen
  <2> QED
    BY <2>1, <2>2, <2>3, YieldsMoves DEF Gives, Reaches
<1>10. Gives(s, q, inside[b])
  BY <1>6, <1>7, <1>8, <1>9
<1>11. Gives(s, q, WithStructLit(Advance(s), TRUE, inside))
  BY <1>b, <1>1, <1>10, WithStructLitGives
<1> QED
  BY <1>11 DEF ParseParenExpr, inside, q

LEMMA ArrayLitGives ==
    ASSUME NEW P, NEW s \in Sound, Peek(s) # "eof", Ready(P, Rules, s.toks, s.pos + 1)
    PROVE  Gives(s, s.pos + 1, ParseArrayLitExpr(P, s))
<1> DEFINE q == s.pos + 1
           Closed(t, kind) == Close(t, s, "]", "ExpectedArrayLitClose", kind, Nothing)
           inside ==
               [t \in State |->
                   LET first == ParseAnyExpr(P, t)
                   IN  CASE Check(t, "]") -> Closed(t, "ArrayLitExpr")
                         [] ~Check(t, "]") /\ Check(first, ";") ->
                                Closed(ParseConstExpr(P, Advance(first)), "ArrayRepeatExpr")
                         [] OTHER -> Closed(MoreElements(first, {"]"}, ExprAt(P)),
                                            "ArrayLitExpr")]
<1>1. q \in Nat /\ Ready(P, {"type", "expr"}, s.toks, q) /\ Comes(s, q, Advance(s))
  BY Begins, ReadyOperands
<1>2. /\ "]" \in TokenKind /\ {"ArrayLitExpr", "ArrayRepeatExpr"} \subseteq Proper
      /\ "ExpectedArrayLitClose" \in ExpectIDs
  BY DEF TokenKind, Fixed, Symbols, NodeKind, Proper, ExprKinds, DiagID, ExpectIDs
<1> HIDE DEF q
<1>3. Adding(ExprAt(P), s.toks, q)
  BY <1>1, ListsOfOperands
<1>b. PICK b : b = [Advance(s) EXCEPT !.allow = TRUE]
  OBVIOUS
<1>4. Comes(s, q, b) /\ b \in State /\ Reaches(s, q, b)
  <2>1. Advance(s) \in Sound
    BY AdvanceFacts, MovesAdds
  <2>2. b \in Moves(Advance(s))
    BY <1>b, <2>1, AllowFacts
  <2>3. b \in Sound
    BY <2>1, <2>2, MovesAdds
  <2> QED
    BY <1>1, <2>2, <2>3, ComesThen, ComesReaches, SoundFields
<1>e. PICK first : first = ParseAnyExpr(P, b)
  OBVIOUS
<1>5. Reaches(s, q, first)
  BY <1>1, <1>4, <1>e, ReachesCalls
<1> HIDE DEF Closed
<1>6. inside[b] =
          CASE Check(b, "]") -> Closed(b, "ArrayLitExpr")
            [] ~Check(b, "]") /\ Check(first, ";") ->
                   Closed(ParseConstExpr(P, Advance(first)), "ArrayRepeatExpr")
            [] OTHER -> Closed(MoreElements(first, {"]"}, ExprAt(P)), "ArrayLitExpr")
  BY <1>4, <1>e
<1> HIDE DEF inside
<1>7. ASSUME NEW t, Reaches(s, q, t), NEW kind \in {"ArrayLitExpr", "ArrayRepeatExpr"}
      PROVE  Gives(s, q, Closed(t, kind))
  BY <1>1, <1>2, <1>7, ReachesEnds, PayloadTypes DEF Closed
<1>8. Reaches(s, q, ParseConstExpr(P, Advance(first)))
  BY <1>1, <1>5, ReachesMoves, ReachesCalls
<1>9. Reaches(s, q, MoreElements(first, {"]"}, ExprAt(P)))
  BY <1>1, <1>3, <1>5, ReachesLists
<1>10. Gives(s, q, inside[b])
  BY <1>4, <1>6, <1>7, <1>8, <1>9
<1>11. Gives(s, q, WithStructLit(Advance(s), TRUE, inside))
  BY <1>b, <1>1, <1>10, WithStructLitGives
<1> QED
  BY <1>11 DEF ParseArrayLitExpr, inside, q, Closed

LEMMA TensorLitGives ==
    ASSUME NEW P, NEW s \in Sound, Peek(s) # "eof", Ready(P, Rules, s.toks, s.pos + 1)
    PROVE  Gives(s, s.pos + 1, ParseTensorLitExpr(P, s))
<1> DEFINE q == s.pos + 1
           open == Expect(Advance(s), "[", "ExpectedTensorOpen")
           list == [t \in State |-> MoreElements(ParseAnyExpr(P, t), {";", "]"}, ExprAt(P))]
           values == WithStructLit(open, TRUE, list)
           semi == Expect(values, ";", "ExpectedSemi")
           dims == Dimensions(P, semi)
           number == [values |-> (Mark(values) - Mark(s)) % CountLimit]
<1>1. q \in Nat /\ Ready(P, {"type", "expr"}, s.toks, q) /\ Comes(s, q, Advance(s))
  BY Begins, ReadyOperands
<1>2. /\ {"[", ";", "]"} \subseteq TokenKind /\ "TensorLitExpr" \in Proper
      /\ {"ExpectedTensorOpen", "ExpectedSemi", "ExpectedTensorLitClose"} \subseteq ExpectIDs
  BY DEF TokenKind, Fixed, Symbols, NodeKind, Proper, ExprKinds, DiagID, ExpectIDs
<1> HIDE DEF q
<1>3. Adding(ExprAt(P), s.toks, q) /\ Adding(list, s.toks, q)
  BY <1>1, ListsOfOperands, OperandsAdding
<1> HIDE DEF list
<1>4. Reaches(s, q, open)
  BY <1>1, <1>2, ComesReaches, ReachesMoves
<1> HIDE DEF open
<1>5. Reaches(s, q, values)
  BY <1>1, <1>3, <1>4, ReachesWithStructLit
<1> HIDE DEF values
<1>6. Reaches(s, q, semi)
  BY <1>1, <1>2, <1>5, ReachesMoves
<1> HIDE DEF semi
<1>7. Reaches(s, q, dims)
  BY <1>1, <1>3, <1>6, DimensionsReach
<1> HIDE DEF dims
<1>8. number \in Payload
  <2>1. Mark(values) \in Nat /\ Mark(s) \in Nat /\ Mark(s) <= Mark(values)
    BY <1>1, <1>5, ReachesFacts
  <2>2. CountLimit \in Nat \ {0}
    BY LimitAssumption
  <2>3. (Mark(values) - Mark(s)) % CountLimit \in Nat
    BY <2>1, <2>2
  <2> QED
    BY <2>3, PayloadTypes
<1> HIDE DEF number
<1>9. Gives(s, q, Close(dims, s, "]", "ExpectedTensorLitClose", "TensorLitExpr", number))
  BY <1>1, <1>2, <1>7, <1>8, ReachesEnds
<1> QED
  BY <1>9 DEF ParseTensorLitExpr, number, dims, semi, values, list, open, q

LEMMA UnaryGives ==
    ASSUME NEW P, NEW s \in Sound, Peek(s) # "eof", Ready(P, Rules, s.toks, s.pos + 1)
    PROVE  Gives(s, s.pos + 1, ParseUnaryExpr(P, s)) /\ Gives(s, s.pos + 1, ParseStarExpr(P, s))
<1> DEFINE q == s.pos + 1
<1>1. q \in Nat /\ Ready(P, {"type", "expr"}, s.toks, q) /\ Comes(s, q, Advance(s))
  BY Begins, ReadyOperands
<1>2. {"UnaryExpr", "ProjAssignExpr"} \subseteq Proper /\ PrefixBindingPower \in Nat
      /\ Named(TextHere(s)) \in Payload /\ Nothing \in Payload
  BY Texts DEF NodeKind, Proper, ExprKinds, PrefixBindingPower
<1> HIDE DEF q
<1>t. PICK t : t = ParseExpr(P, Advance(s), PrefixBindingPower)
  OBVIOUS
<1>3. Reaches(s, q, t) /\ OnNode(t)
  BY <1>1, <1>2, <1>t, ComesReaches, ReachesCalls
<1>4. ASSUME NEW u, Reaches(s, q, u), OnNode(u)
      PROVE  <<Here(s), TopSpan(u)[2]>> \in Nat \X Nat
  BY <1>1, <1>4, ReachesFacts, TopSpanType, Texts
<1>5. Gives(s, q, Make(t, Mark(s), "UnaryExpr", <<Here(s), TopSpan(t)[2]>>, Named(TextHere(s))))
  BY <1>1, <1>2, <1>3, <1>4, ReachesEnds
<1>r. PICK rhs : rhs = ParseAnyExpr(P, Advance(t))
  OBVIOUS
<1>6. Reaches(s, q, Advance(t))
  BY <1>1, <1>3, ReachesMoves
<1>7. Reaches(s, q, rhs) /\ OnNode(rhs)
  BY <1>1, <1>6, <1>r, ReachesCalls
<1>8. Gives(s, q, Make(rhs, Mark(s), "ProjAssignExpr", <<Here(s), TopSpan(rhs)[2]>>, Nothing))
  BY <1>1, <1>2, <1>4, <1>7, ReachesEnds
<1>9. Gives(s, q, ParseUnaryExpr(P, s))
  BY <1>t, <1>5 DEF ParseUnaryExpr
<1>10. Gives(s, q, ParseStarExpr(P, s))
  BY <1>t, <1>r, <1>5, <1>8 DEF ParseStarExpr
<1> QED
  BY <1>9, <1>10 DEF q

LEMMA ExpectedExprYields ==
    ASSUME NEW s \in Sound
    PROVE  /\ ExpectedExpr(s) \in Yields(s)
           /\ Peek(s) \notin {";", "}", ")", "]", ",", "eof"} =>
                  Gives(s, s.pos + 1, ExpectedExpr(s))
<1>1. "ExpectedExpr" \in BareIDs /\ Here(s) \in Nat
  BY Texts DEF DiagID, BareIDs
<1>t. PICK t : t = Diag(s, "ExpectedExpr")
  OBVIOUS
<1>2. t \in Moves(s) /\ t.pos = s.pos /\ t \in Sound /\ t.toks = s.toks /\ s.pos \in Nat
  BY <1>1, <1>t, PlainDiag, MovesAdds
<1>3. Peek(t) = Peek(s)
  BY <1>2, SamePeek
<1>4. Advance(t) \in Moves(s) /\ (Peek(s) # "eof" => Advance(t).pos = s.pos + 1)
  BY <1>2, <1>3, AdvanceFacts, MovesMoves
<1>e. t.errs # <<>> /\ Advance(t).errs # <<>>
  <2>1. t.errs # <<>>
    BY <1>t, Reported
  <2>2. Advance(t) \in Adds(t)
    BY <1>2, AdvanceFacts, MovesAdds
  <2> QED
    BY <1>2, <2>1, <2>2, Reported
<1>u. PICK u : u = IF Peek(s) \in {";", "}", ")", "]", ","} THEN t ELSE Advance(t)
  OBVIOUS
<1>5. /\ u \in Moves(s)
      /\ Peek(s) \notin {";", "}", ")", "]", ",", "eof"} => u.pos = s.pos + 1
  BY <1>u, <1>2, <1>4
<1>i. u.errs # <<>>
  BY <1>e, <1>u
<1>6. ErrorNode(u, Here(s)) \in Yields(s) /\ ErrorNode(u, Here(s)).pos = u.pos
  BY <1>1, <1>5, <1>i, ErrorYields
<1>7. ExpectedExpr(s) = ErrorNode(u, Here(s))
  BY <1>t, <1>u DEF ExpectedExpr
<1>8. ASSUME Peek(s) \notin {";", "}", ")", "]", ",", "eof"}
      PROVE  s.pos + 1 <= ErrorNode(u, Here(s)).pos
  <2>1. ErrorNode(u, Here(s)).pos = s.pos + 1
    BY <1>5, <1>6, <1>8
  <2>2. s.pos + 1 \in Nat
    BY <1>2
  <2>3. \A m, n \in Nat : m = n => n <= m
    OBVIOUS
  <2> QED
    BY <2>1, <2>2, <2>3
<1> QED
  BY <1>6, <1>7, <1>8 DEF Gives

LEMMA PrefixGives ==
    ASSUME NEW P, NEW s \in Sound, Ready(P, Rules, s.toks, s.pos + 1)
    PROVE  /\ ParsePrefixExpr(P, s) \in Yields(s)
           /\ Peek(s) \notin {";", "}", ")", "]", ",", "eof"} =>
                  Gives(s, s.pos + 1, ParsePrefixExpr(P, s))
<1> DEFINE words == {"identifier", "(", "[", "if", "while", "match", "unsafe", "{", "tensor",
                     "!", "-", "&", "*"}
<1>1. CASE Peek(s) \in Literals
  <2>1. Peek(s) # "eof"
    BY <1>1 DEF Literals
  <2>2. "LitExpr" \in Proper /\ <<Here(s), Here(s)>> \in Nat \X Nat
        /\ WithRegime(TextHere(s), NoRegime) \in Payload
    BY Texts DEF NodeKind, Proper, ExprKinds
  <2>3. Gives(s, s.pos + 1, Leaf(Advance(s), "LitExpr", <<Here(s), Here(s)>>,
                                 WithRegime(TextHere(s), NoRegime)))
    BY <2>1, <2>2, Begins, ComesEnds
  <2>4. ParsePrefixExpr(P, s) = Leaf(Advance(s), "LitExpr", <<Here(s), Here(s)>>,
                                     WithRegime(TextHere(s), NoRegime))
    BY <1>1 DEF ParsePrefixExpr, Check, Literals
  <2> QED
    BY <2>3, <2>4 DEF Gives
<1>2. CASE Peek(s) \in words
  <2>1. Gives(s, s.pos + 1, ParsePrefixExpr(P, s))
    <3>0. Peek(s) # "eof"
      BY <1>2
    <3>1. CASE Check(s, "identifier")
      <4>1. ParsePrefixExpr(P, s) = ParseNameExpr(P, s)
        BY <3>1 DEF ParsePrefixExpr, Check, Literals
      <4> QED
        BY <3>1, <4>1, NameExprGives
    <3>2. CASE Check(s, "(")
      <4>1. ParsePrefixExpr(P, s) = ParseParenExpr(P, s)
        BY <3>2 DEF ParsePrefixExpr, Check, Literals
      <4> QED
        BY <3>0, <4>1, ParenGives
    <3>3. CASE Check(s, "[")
      <4>1. ParsePrefixExpr(P, s) = ParseArrayLitExpr(P, s)
        BY <3>3 DEF ParsePrefixExpr, Check, Literals
      <4> QED
        BY <3>0, <4>1, ArrayLitGives
    <3>4. CASE Check(s, "if")
      <4>1. ParsePrefixExpr(P, s) = ParseIfExpr(P, s)
        BY <3>4 DEF ParsePrefixExpr, Check, Literals
      <4> QED
        BY <3>4, <4>1, IfGives
    <3>5. CASE Check(s, "while")
      <4>1. ParsePrefixExpr(P, s) = ParseWhileStmt(P, s)
        BY <3>5 DEF ParsePrefixExpr, Check, Literals
      <4> QED
        BY <3>5, <4>1, WhileStmtGives
    <3>6. CASE Check(s, "match")
      <4>1. ParsePrefixExpr(P, s) = ParseMatchExpr(P, s)
        BY <3>6 DEF ParsePrefixExpr, Check, Literals
      <4> QED
        BY <3>6, <4>1, MatchGives
    <3>7. CASE Check(s, "unsafe")
      <4>1. ParsePrefixExpr(P, s) = ParseUnsafeBlock(P, s)
        BY <3>7 DEF ParsePrefixExpr, Check, Literals
      <4> QED
        BY <3>7, <4>1, UnsafeBlockGives
    <3>8. CASE Check(s, "{")
      <4>1. ParsePrefixExpr(P, s) = ParseBlockExpr(P, s)
        BY <3>8 DEF ParsePrefixExpr, Check, Literals
      <4>2. Starts(s, s.pos + 1, "{")
        BY <3>8, Begins DEF Starts
      <4> QED
        BY <4>1, <4>2, BlockGives
    <3>9. CASE Check(s, "tensor")
      <4>1. ParsePrefixExpr(P, s) = ParseTensorLitExpr(P, s)
        BY <3>9 DEF ParsePrefixExpr, Check, Literals
      <4> QED
        BY <3>0, <4>1, TensorLitGives
    <3>10. CASE Peek(s) \in {"!", "-", "&"}
      <4>1. ParsePrefixExpr(P, s) = ParseUnaryExpr(P, s)
        BY <3>10 DEF ParsePrefixExpr, Check, Literals
      <4> QED
        BY <3>0, <4>1, UnaryGives
    <3>11. CASE Check(s, "*")
      <4>1. ParsePrefixExpr(P, s) = ParseStarExpr(P, s)
        BY <3>11 DEF ParsePrefixExpr, Check, Literals
      <4> QED
        BY <3>0, <4>1, UnaryGives
    <3> QED
      BY <1>2, <3>1, <3>2, <3>3, <3>4, <3>5, <3>6, <3>7, <3>8, <3>9, <3>10, <3>11 DEF Check
  <2> QED
    BY <2>1 DEF Gives
<1>3. CASE Peek(s) \notin Literals \cup words
  <2>1. ParsePrefixExpr(P, s) = ExpectedExpr(s)
    BY <1>3 DEF ParsePrefixExpr, Check, Literals
  <2> QED
    BY <2>1, ExpectedExprYields
<1> QED
  BY <1>1, <1>2, <1>3

LEMMA ExprRuleGives ==
    ASSUME NEW P, NEW s \in Sound, NEW minBP \in Nat, Ready(P, Rules, s.toks, s.pos + 1)
    PROVE  /\ ExprRule(P, s, minBP) \in Yields(s)
           /\ Peek(s) \notin {";", "}", ")", "]", ",", "eof"} =>
                  Gives(s, s.pos + 1, ExprRule(P, s, minBP))
<1>t. PICK t : t = ParsePrefixExpr(P, s)
  OBVIOUS
<1>1. t \in Yields(s) /\ (Peek(s) \notin {";", "}", ")", "]", ",", "eof"} => s.pos + 1 <= t.pos)
  BY <1>t, PrefixGives DEF Gives
<1>2. t \in Sound /\ OnNode(t) /\ t.toks = s.toks /\ s.pos \in Nat /\ t.pos \in Nat
      /\ s.pos <= t.pos
  BY <1>1, YieldsAdds
<1>3. s.pos + 1 \in Nat /\ t.pos + 1 \in Nat /\ s.pos + 1 <= t.pos + 1
  BY <1>2
<1>4. Ready(P, Rules, t.toks, t.pos + 1)
  BY <1>2, <1>3, ReadyLater
<1>u. PICK u : u = Infix(P, t, minBP)
  OBVIOUS
<1>5. u \in Wraps(t)
  BY <1>2, <1>4, <1>u, InfixWraps
<1>6. u \in Yields(s) /\ t.pos <= u.pos /\ u.pos \in Nat
  BY <1>1, <1>2, <1>5, YieldsWraps, WrapsFacts
<1>7. s.pos + 1 <= t.pos => s.pos + 1 <= u.pos
  BY <1>2, <1>3, <1>6
<1>8. ExprRule(P, s, minBP) = u
  BY <1>t, <1>u DEF ExprRule
<1> QED
  BY <1>1, <1>6, <1>7, <1>8 DEF Gives

-----------------------------------------------------------------------------
(* Generics and functions.                                                 *)

LEMMA ReachesPush ==
    ASSUME NEW s \in Sound, NEW q \in Nat, NEW t, Reaches(s, q, t)
    PROVE  Reaches(s, q, Push(t, NullNode))
<1>1. t \in Sound
  BY ReachesFacts
<1>2. Push(t, NullNode) \in Adds(t)
  BY <1>1, PushFacts
<1> QED
  BY <1>2, ReachesThen

LEMMA GenericParamYields ==
    ASSUME NEW P, NEW s \in Sound, Ready(P, Rules, s.toks, s.pos + 1)
    PROVE  ParseGenericParam(P, s) \in Yields(s)
<1> DEFINE q == s.pos + 1
           name == Advance(s)
           t == IF Check(name, ":") THEN ParseType(P, Advance(name)) ELSE Push(name, NullNode)
<1>1. "GenericParam" \in Proper /\ "ExpectedTypeParam" \in BareIDs
      /\ Named(TextHere(s)) \in Payload /\ Here(s) \in Nat
  BY Texts DEF NodeKind, Proper, DiagID, BareIDs
<1>2. CASE Check(s, "identifier")
  <2>1. q \in Nat /\ Comes(s, q, name) /\ Ready(P, {"type", "expr"}, s.toks, q)
    BY <1>2, Begins, ReadyOperands DEF Check
  <2> HIDE DEF q, name
  <2>2. Reaches(s, q, name) /\ Reaches(s, q, Advance(name))
    BY <2>1, ComesReaches, ReachesMoves
  <2>3. Reaches(s, q, t)
    BY <2>1, <2>2, ReachesCalls, ReachesPush
  <2> HIDE DEF t
  <2>4. Gives(s, q, UpToHere(t, s, "GenericParam", Named(TextHere(s))))
    BY <1>1, <2>1, <2>3, ReachesEnds
  <2> QED
    BY <1>2, <2>4 DEF ParseGenericParam, t, name, Gives
<1>3. CASE ~Check(s, "identifier")
  <2>1. Comes(s, s.pos, Diag(s, "ExpectedTypeParam")) /\ s.pos \in Nat
    BY <1>1, Begins, ComesMoves
  <2>2. ParseGenericParam(P, s) = ErrorNode(Diag(s, "ExpectedTypeParam"), Here(s))
    BY <1>3 DEF ParseGenericParam
  <2> QED
    BY <1>1, <2>1, <2>2, ComesEnds, Reported DEF Gives
<1> QED
  BY <1>2, <1>3

LEMMA ReadyAt ==
    ASSUME NEW P, NEW toks, NEW q \in Nat, Ready(P, Rules, toks, q),
           NEW t \in Sound, t.toks = toks, q <= t.pos
    PROVE  Ready(P, Rules, t.toks, t.pos + 1) /\ t \in State
<1>1. t.pos \in Nat /\ t \in State
  BY SoundFields
<1>2. t.pos + 1 \in Nat /\ q <= t.pos + 1
  BY <1>1
<1> QED
  BY <1>1, <1>2, ReadyLater

LEMMA GenericParamsReach ==
    ASSUME NEW s \in Sound, NEW q \in Nat, NEW t, Reaches(s, q, t),
           NEW P, Ready(P, Rules, s.toks, q)
    PROVE  Reaches(s, q, ParseGenericParams(P, t))
<1> DEFINE param == [u \in State |-> ParseGenericParam(P, u)]
           open == Advance(t)
           u == IF Check(open, ">") THEN open
                ELSE MoreElements(ParseGenericParam(P, open), {">"}, param)
<1>1. t \in Sound /\ t.toks = s.toks /\ q <= t.pos
  BY ReachesFacts
<1>2. \A v \in Sound : v.toks = s.toks /\ q <= v.pos =>
          ParseGenericParam(P, v) \in Yields(v) /\ v \in State
  BY ReadyAt, GenericParamYields
<1>3. Adding(param, t.toks, q)
  BY <1>1, <1>2, YieldingAdds DEF Yielding
<1> HIDE DEF param
<1>4. Reaches(t, q, open)
  <2>1. Reaches(t, q, t)
    BY <1>1, Itself DEF Reaches
  <2> QED
    BY <1>1, <2>1, ReachesMoves
<1> HIDE DEF open
<1>5. Reaches(t, q, ParseGenericParam(P, open))
  <2>1. open \in Sound /\ open.toks = s.toks /\ q <= open.pos
    BY <1>1, <1>4, ReachesFacts
  <2>2. ParseGenericParam(P, open) \in Yields(open)
    BY <1>2, <2>1
  <2> QED
    BY <1>1, <1>4, <2>2, ReachesThen
<1>6. Reaches(t, q, MoreElements(ParseGenericParam(P, open), {">"}, param))
  BY <1>1, <1>3, <1>5, ReachesLists
<1>7. Reaches(t, q, u)
  BY <1>4, <1>6
<1> HIDE DEF u
<1>8. ">" \in TokenKind /\ "ExpectedGreaterThan" \in ExpectIDs /\ "GenericParamList" \in Proper
  BY DEF TokenKind, Fixed, Symbols, DiagID, ExpectIDs, NodeKind, Proper
<1>9. Gives(t, q, Close(u, t, ">", "ExpectedGreaterThan", "GenericParamList", Nothing))
  BY <1>1, <1>7, <1>8, ReachesEnds, PayloadTypes
<1>10. Reaches(s, q, Close(u, t, ">", "ExpectedGreaterThan", "GenericParamList", Nothing))
  BY <1>9, ReachesThen DEF Gives
<1> QED
  BY <1>10 DEF ParseGenericParams, u, open, param

LEMMA ParamYields ==
    ASSUME NEW P, NEW s \in Sound, NEW q \in Nat, q <= s.pos, Ready(P, Rules, s.toks, q)
    PROVE  ParseParam(P, s) \in Yields(s)
<1> DEFINE start == SkipRegime(s)
           name == ExpectName(start)
           colon == Expect(name, ":", "ExpectedColon")
           self == Leaf(name, "NamedType", <<Before(name), Before(name)>>, Named(<<"Self">>))
           t == IF TextHere(start) = <<"self">> /\ Peek(name) \in {")", ","}
                THEN self ELSE ParseType(P, colon)
<1>1. /\ ":" \in TokenKind /\ "ExpectedColon" \in ExpectIDs
      /\ {"Param", "NamedType"} \subseteq Proper
  BY DEF TokenKind, Fixed, Symbols, DiagID, ExpectIDs, NodeKind, Proper, TypeKinds
<1>2. Ready(P, {"type", "expr"}, s.toks, q)
  BY ReadyOperands
<1>3. Comes(s, q, start)
  <2>1. Comes(s, q, s)
    BY Itself DEF Comes
  <2> QED
    BY <2>1, ComesMoves
<1> HIDE DEF start
<1>4. Comes(s, q, name)
  BY <1>3, ComesMoves
<1> HIDE DEF name
<1>5. Reaches(s, q, self)
  <2>1. <<Before(name), Before(name)>> \in Nat \X Nat
    BY <1>4, MovesAdds, Texts DEF Comes
  <2>2. Named(<<"Self">>) \in Payload
    <3>1. "Self" \in Token
      BY DEF Token, Fixed, Keywords
    <3>2. <<"Self">> \in Seq(Token)
      BY <3>1
    <3> QED
      BY <3>2, PayloadTypes
  <2> QED
    BY <1>1, <1>4, <2>1, <2>2, ComesEnds, GivesFacts
<1> HIDE DEF self
<1>6. Reaches(s, q, ParseType(P, colon))
  BY <1>1, <1>2, <1>4, ComesReaches, ReachesMoves, ReachesCalls
<1> HIDE DEF colon
<1>7. Reaches(s, q, t)
  BY <1>5, <1>6
<1> HIDE DEF t
<1>8. WithRegime(TextHere(start), RegimeHere(s)) \in Payload
  BY <1>3, MovesAdds, Texts DEF Comes
<1>9. Gives(s, q, UpToHere(t, s, "Param", WithRegime(TextHere(start), RegimeHere(s))))
  BY <1>1, <1>7, <1>8, ReachesEnds
<1> QED
  BY <1>9 DEF ParseParam, t, self, colon, name, start, Gives

LEMMA ParamListReaches ==
    ASSUME NEW s \in Sound, NEW q \in Nat, NEW t, Reaches(s, q, t),
           NEW P, Ready(P, Rules, s.toks, q)
    PROVE  Reaches(s, q, ParseParamList(P, t))
<1> DEFINE param == [u \in State |-> ParseParam(P, u)]
           open == Expect(t, "(", "ExpectedOpen")
           u == IF Check(open, ")") THEN open
                ELSE MoreElements(ParseParam(P, open), {}, param)
<1>1. t \in Sound /\ t.toks = s.toks /\ q <= t.pos
  BY ReachesFacts
<1>2. \A v \in Sound : v.toks = s.toks /\ q <= v.pos =>
          ParseParam(P, v) \in Yields(v) /\ v \in State
  BY ParamYields, SoundFields
<1>3. Adding(param, t.toks, q)
  BY <1>1, <1>2, YieldingAdds DEF Yielding
<1>8. /\ {"(", ")"} \subseteq TokenKind /\ {"ExpectedOpen", "ExpectedClose"} \subseteq ExpectIDs
      /\ "ParamList" \in Proper
  BY DEF TokenKind, Fixed, Symbols, DiagID, ExpectIDs, NodeKind, Proper
<1> HIDE DEF param
<1>4. Reaches(t, q, open)
  <2>1. Reaches(t, q, t)
    BY <1>1, Itself DEF Reaches
  <2> QED
    BY <1>1, <1>8, <2>1, ReachesMoves
<1> HIDE DEF open
<1>5. Reaches(t, q, ParseParam(P, open))
  <2>1. open \in Sound /\ open.toks = s.toks /\ q <= open.pos
    BY <1>1, <1>4, ReachesFacts
  <2>2. ParseParam(P, open) \in Yields(open)
    BY <1>2, <2>1
  <2> QED
    BY <1>1, <1>4, <2>2, ReachesThen
<1>6. Reaches(t, q, MoreElements(ParseParam(P, open), {}, param))
  BY <1>1, <1>3, <1>5, ReachesLists
<1>7. Reaches(t, q, u)
  BY <1>4, <1>6
<1> HIDE DEF u
<1>9. Gives(t, q, Close(u, t, ")", "ExpectedClose", "ParamList", Nothing))
  BY <1>1, <1>7, <1>8, ReachesEnds, PayloadTypes
<1>10. Reaches(s, q, Close(u, t, ")", "ExpectedClose", "ParamList", Nothing))
  BY <1>9, ReachesThen DEF Gives
<1> QED
  BY <1>10 DEF ParseParamList, u, open, param

LEMMA ReturnTypeReaches ==
    ASSUME NEW s \in Sound, NEW q \in Nat, NEW t, Reaches(s, q, t),
           NEW P, Ready(P, Rules, s.toks, q)
    PROVE  Reaches(s, q, ParseReturnType(P, t))
<1>1. Ready(P, {"type", "expr"}, s.toks, q) /\ t \in Sound
  BY ReadyOperands, ReachesFacts
<1>2. Reaches(s, q, ParseType(P, Advance(t)))
  BY <1>1, ReachesMoves, ReachesCalls
<1>3. Reaches(s, q, ParseType(P, Advance(DiagWith(t, "ExpectedReturnTypeColon", Found(t)))))
  <2>1. /\ "ExpectedReturnTypeColon" \in DiagID /\ Found(t) \in Args
        /\ Filled(t.toks, [id |-> "ExpectedReturnTypeColon", args |-> Found(t)])
    BY <1>1, FoundDiag, FoundHereFits DEF DiagID
  <2>2. Reaches(s, q, Advance(DiagWith(t, "ExpectedReturnTypeColon", Found(t))))
    BY <2>1, ReachesMoves
  <2> QED
    BY <1>1, <2>2, ReachesCalls
<1>4. ParseReturnType(P, t) \in
          {ParseType(P, Advance(t)), t,
           ParseType(P, Advance(DiagWith(t, "ExpectedReturnTypeColon", Found(t))))}
  BY DEF ParseReturnType
<1> QED
  BY <1>2, <1>3, <1>4

\* A function that begins in s, from behind its keyword on; its comments are
\* those that were read since b.
LEMMA FnDeclGives ==
    ASSUME NEW b \in Sound, NEW q \in Nat, NEW P, Ready(P, Rules, b.toks, q),
           NEW s \in Sound, NEW r, r = Expect(Consume(s, "unsafe"), "fn", "ExpectedKeyword"),
           Reaches(b, q, r), NEW flags \in SUBSET Flag, NEW expectBody \in BOOLEAN
    PROVE  LET u == ParseFnDecl(P, s, Mark(b), flags, expectBody)
           IN  /\ Gives(b, q, u) /\ r.pos <= u.pos
               /\ Len(r.errs) <= Len(u.errs)
<1> DEFINE name == SkipRegime(r)
           x == ExpectName(name)
           generics == ParseGenericParams(P, x)
           params == ParseParamList(P, generics)
           sig == ParseReturnType(P, params)
           t == IF expectBody THEN ParseBlockExpr(P, sig)
                ELSE Push(Expect(sig, ";", "ExpectedTraitFnSemi"), NullNode)
           span == <<Here(s), Before(t)>>
           payload == WithRegime(TextHere(name), RegimeHere(r))
           fl == IF Check(s, "unsafe") THEN flags \cup {"unsafe"} ELSE flags
           u == MakeFlagged(t, Mark(b), "FnDecl", span, payload, fl)
<1>1. /\ ";" \in TokenKind /\ "FnDecl" \in Proper /\ "ExpectedTraitFnSemi" \in ExpectIDs
      /\ fl \in SUBSET Flag
  BY DEF TokenKind, Fixed, Symbols, DiagID, ExpectIDs, NodeKind, Proper, TopLevelDeclKinds, Flag
<1>2. r \in Sound /\ r.toks = b.toks /\ q <= r.pos
  BY ReachesFacts
<1>3. Reaches(r, q, r) /\ Ready(P, Rules, r.toks, q)
  BY <1>2, Itself DEF Reaches
<1>4. Reaches(r, q, name)
  BY <1>2, <1>3, ReachesMoves
<1> HIDE DEF name, fl
<1>5. Reaches(r, q, x)
  BY <1>2, <1>4, ReachesMoves
<1> HIDE DEF x
<1>6. Reaches(r, q, generics)
  BY <1>2, <1>3, <1>5, GenericParamsReach
<1> HIDE DEF generics
<1>7. Reaches(r, q, params)
  BY <1>2, <1>3, <1>6, ParamListReaches
<1> HIDE DEF params
<1>8. Reaches(r, q, sig)
  BY <1>2, <1>3, <1>7, ReturnTypeReaches
<1> HIDE DEF sig
<1>9. Reaches(r, q, t)
  <2>1. Reaches(r, q, ParseBlockExpr(P, sig))
    BY <1>2, <1>3, <1>8, BlockReaches
  <2>2. Reaches(r, q, Push(Expect(sig, ";", "ExpectedTraitFnSemi"), NullNode))
    BY <1>1, <1>2, <1>8, ReachesMoves, ReachesPush
  <2> QED
    BY <2>1, <2>2
<1> HIDE DEF t
<1>10. t \in Adds(r) /\ t \in Sound /\ r.pos <= t.pos
  BY <1>2, <1>9, ReachesFacts
<1>11. Len(r.errs) <= Len(t.errs)
  BY <1>10 DEF Adds, After
<1>12. Reaches(b, q, t)
  BY <1>10, ReachesThen
<1>13. payload \in Payload /\ span \in Nat \X Nat
  <2>1. name \in Sound
    BY <1>2, <1>4, ReachesFacts
  <2> QED
    BY <1>2, <1>10, <2>1, Texts
<1> HIDE DEF payload, span
<1>14. Gives(b, q, u)
  BY <1>1, <1>12, <1>13, ReachesDeclEnds
<1>15. u.pos = t.pos /\ u.errs = t.errs
  <2>1. t \in Adds(b) /\ "FnDecl" \in Proper /\ span \in Nat \X Nat /\ payload \in Payload
        /\ fl \in SUBSET Flag
    BY <1>1, <1>12, <1>13 DEF Reaches
  <2> QED
    BY <2>1, DeclYields
<1> HIDE DEF u
<1>16. u = ParseFnDecl(P, s, Mark(b), flags, expectBody)
  BY DEF u, ParseFnDecl, fl, payload, span, t, sig, params, generics, x, name
<1> QED
  BY <1>10, <1>11, <1>14, <1>15, <1>16

-----------------------------------------------------------------------------
(* Members.                                                                *)

LEMMA StructFieldYields ==
    ASSUME NEW P, NEW s \in Sound, NEW q \in Nat, q <= s.pos, Ready(P, Rules, s.toks, q)
    PROVE  ParseStructField(P, s) \in Yields(s)
<1> DEFINE name == SkipRegime(s)
           colon == Advance(name)
           type == IF Check(colon, ":") THEN Advance(colon)
                   ELSE DiagWith(colon, "ExpectedColon", FoundIn(colon))
           payload == WithRegime(TextHere(name), RegimeHere(s))
           e1 == ErrorOver(NameMissing(name), Here(s), Here(name))
           e2 == ErrorOver(type, Here(s), Before(type))
           e3 == UpToHere(ParseType(P, type), s, "StructField", payload)
<1>1. "StructField" \in Proper /\ "ExpectedColon" \in DiagID
  BY DEF NodeKind, Proper, DiagID
<1>2. Ready(P, {"type", "expr"}, s.toks, q)
  BY ReadyOperands
<1>3. Comes(s, q, name)
  <2>1. Comes(s, q, s)
    BY Itself DEF Comes
  <2> QED
    BY <2>1, ComesMoves
<1> HIDE DEF name
<1>4. Comes(s, q, colon) /\ colon \in Sound
  BY <1>3, ComesMoves, MovesAdds DEF Comes
<1> HIDE DEF colon
<1>5. Comes(s, q, type)
  <2>1. Filled(colon.toks, [id |-> "ExpectedColon", args |-> FoundIn(colon)])
    BY <1>4, FoundHereFits
  <2> QED
    BY <1>1, <1>4, <2>1, FoundDiag, ComesMoves
<1> HIDE DEF type
<1>6. Gives(s, q, e1)
  <2>1. Here(s) \in Nat /\ Here(name) \in Nat
    BY <1>3, MovesAdds, Texts DEF Comes
  <2>2. Comes(s, q, NameMissing(name))
    BY <1>3, ComesMoves
  <2> QED
    BY <1>3, <2>1, <2>2, ComesEnds, Reported, MovesAdds DEF Comes
<1>7. ~Check(colon, ":") => Gives(s, q, e2)
  <2>1. Here(s) \in Nat /\ Before(type) \in Nat
    BY <1>5, MovesAdds, Texts DEF Comes
  <2>2. ~Check(colon, ":") => type.errs # <<>>
    BY <1>4, Reported DEF type
  <2> QED
    BY <1>5, <2>1, <2>2, ComesEnds
<1>8. Gives(s, q, e3)
  <2>1. Reaches(s, q, ParseType(P, type))
    BY <1>2, <1>5, ComesReaches, ReachesCalls
  <2>2. payload \in Payload
    BY <1>3, MovesAdds, Texts DEF Comes
  <2> QED
    BY <1>1, <2>1, <2>2, ReachesEnds
<1>9. \/ ParseStructField(P, s) \in {e1, e3}
      \/ ~Check(colon, ":") /\ ParseStructField(P, s) = e2
  BY DEF ParseStructField, type, colon, name
<1> HIDE DEF e1, e2, e3
<1> QED
  BY <1>6, <1>7, <1>8, <1>9 DEF Gives

LEMMA StructFieldsAdding ==
    ASSUME NEW P, NEW toks, NEW q \in Nat, Ready(P, Rules, toks, q)
    PROVE  Adding(StructFieldAt(P), toks, q)
<1>1. \A t \in Sound : t.toks = toks /\ q <= t.pos =>
          ParseStructField(P, t) \in Yields(t) /\ t \in State
  BY StructFieldYields, SoundFields
<1> QED
  BY <1>1, YieldingAdds DEF Yielding, StructFieldAt

LEMMA EnumVariantYields ==
    ASSUME NEW P, NEW s \in Sound, Ready(P, Rules, s.toks, s.pos + 1)
    PROVE  ParseEnumVariant(P, s) \in Yields(s)
<1> DEFINE payload == WithRegime(TextHere(s), NoRegime)
<1>1. /\ VariantKinds \subseteq Proper /\ "ExpectedClose" \in ExpectIDs
      /\ {")", "}"} \subseteq TokenKind /\ payload \in Payload /\ Here(s) \in Nat
  BY Texts DEF NodeKind, Proper, VariantKinds, DiagID, ExpectIDs, TokenKind, Fixed, Symbols
<1>2. CASE ~Check(s, "identifier")
  <2>1. Comes(s, s.pos, s) /\ s.pos \in Nat
    BY Begins
  <2>2. Comes(s, s.pos, NameMissing(s))
    BY <2>1, ComesMoves
  <2>3. ParseEnumVariant(P, s) = ErrorNode(NameMissing(s), Here(s))
    BY <1>2 DEF ParseEnumVariant
  <2> QED
    BY <1>1, <2>1, <2>2, <2>3, ComesEnds, Reported DEF Gives
<1>3. CASE Check(s, "identifier")
  <2>q. PICK q : q = s.pos + 1
    OBVIOUS
  <2>t. PICK t : t = Advance(s)
    OBVIOUS
  <2>1. q \in Nat /\ Ready(P, Rules, s.toks, q) /\ Ready(P, {"type", "expr"}, s.toks, q)
        /\ Comes(s, q, t) /\ Reaches(s, q, t)
    BY <1>3, <2>q, <2>t, Begins, ReadyOperands, ComesReaches DEF Check
  <2>2. Adding(TypeAt(P), s.toks, q) /\ Adding(StructFieldAt(P), s.toks, q)
    BY <2>1, ListsOfOperands, StructFieldsAdding
  <2>3. Reaches(s, q, Advance(t))
    BY <2>1, ReachesMoves
  <2> DEFINE e1 == Close(CommaSeparated(Advance(t), ")", TypeAt(P)), s,
                         ")", "ExpectedClose", "EnumVariantTuple", payload)
             e2 == Close(CommaSeparated(Advance(t), "}", StructFieldAt(P)), s,
                         "}", "ExpectedClose", "EnumVariantStruct", payload)
             e3 == UpToHere(ParseConstExpr(P, Advance(t)), s, "EnumVariantUnit", payload)
             e4 == UpToHere(t, s, "EnumVariantUnit", payload)
  <2>4. ParseEnumVariant(P, s) \in {e1, e2, e3, e4}
    BY <1>3, <2>t DEF ParseEnumVariant
  <2>5. VariantKinds = {"EnumVariantUnit", "EnumVariantTuple", "EnumVariantStruct"}
    BY DEF VariantKinds
  <2> HIDE DEF payload
  <2>6. Gives(s, q, e1)
    BY <1>1, <2>1, <2>2, <2>3, <2>5, ReachesLists, ReachesEnds
  <2>7. Gives(s, q, e2)
    BY <1>1, <2>1, <2>2, <2>3, <2>5, ReachesLists, ReachesEnds
  <2>8. Gives(s, q, e3)
    BY <1>1, <2>1, <2>3, <2>5, ReachesCalls, ReachesEnds
  <2>9. Gives(s, q, e4)
    BY <1>1, <2>1, <2>5, ReachesEnds
  <2> HIDE DEF e1, e2, e3, e4
  <2> QED
    BY <2>4, <2>6, <2>7, <2>8, <2>9 DEF Gives
<1> QED
  BY <1>2, <1>3

LEMMA EnumVariantsAdding ==
    ASSUME NEW P, NEW toks, NEW q \in Nat, Ready(P, Rules, toks, q)
    PROVE  Adding(EnumVariantAt(P), toks, q)
<1>1. \A t \in Sound : t.toks = toks /\ q <= t.pos =>
          ParseEnumVariant(P, t) \in Yields(t) /\ t \in State
  BY EnumVariantYields, ReadyAt
<1> QED
  BY <1>1, YieldingAdds DEF Yielding, EnumVariantAt

\* Where a list of methods ends.
BodyEnds == {"}", "eof"}

\* Progress of the methods loop: a method is read, or what is not one is reported
\* and skipped.
LEMMA MethodGives ==
    ASSUME NEW P, NEW t \in Sound, NEW q \in Nat, q <= t.pos, Ready(P, Rules, t.toks, q),
           NEW expectBody \in BOOLEAN, Peek(t) \notin BodyEnds
    PROVE  LET docs == DocComments(t)
               u == EndMethod(ParseFnDecl(P, docs, Mark(t), {}, expectBody), docs)
           IN  u \in Adds(t) /\ u.pos > t.pos
<1> DEFINE docs == DocComments(t)
           c == Consume(docs, "unsafe")
           r == Expect(c, "fn", "ExpectedKeyword")
           f == ParseFnDecl(P, docs, Mark(t), {}, expectBody)
           u == EndMethod(f, docs)
<1>1. /\ "DocComment" \in Proper /\ "fn" \in TokenKind /\ "ExpectedKeyword" \in ExpectIDs
      /\ {} \in SUBSET Flag
  BY DEF NodeKind, Proper, TokenKind, Fixed, Keywords, DiagID, ExpectIDs
<1>2. docs \in Adds(t)
  BY <1>1, CommentsFacts DEF DocComments
<1>3. docs \in Sound /\ docs.toks = t.toks /\ t.pos \in Nat /\ docs.pos \in Nat
      /\ t.pos <= docs.pos
  BY <1>2, FirstAdds
<1> HIDE DEF docs
<1>4. c \in Moves(docs) /\ c.errs = docs.errs /\ (Check(docs, "unsafe") => c.pos = docs.pos + 1)
  BY <1>3, ConsumeFacts
<1>5. c \in Sound /\ c.toks = t.toks /\ c.pos \in Nat /\ docs.pos <= c.pos
      /\ Len(c.errs) \in Nat
  BY <1>3, <1>4, MovesAdds
<1>6. ~Check(docs, "unsafe") => c = docs
  BY DEF Consume
<1> HIDE DEF c
<1>7. r \in Moves(c) /\ (Check(c, "fn") => r.pos = c.pos + 1)
      /\ (~Check(c, "fn") => Len(r.errs) = Len(c.errs) + 1)
  BY <1>1, <1>5, ExpectFacts
<1>8. r \in Sound /\ r.toks = t.toks /\ r.pos \in Nat /\ c.pos <= r.pos /\ Len(r.errs) \in Nat
  BY <1>5, <1>7, MovesAdds
<1>9. Reaches(t, q, r)
  <2>1. Reaches(t, q, docs)
    BY <1>2, <1>3 DEF Reaches
  <2>2. Reaches(t, q, c)
    BY <1>4, <2>1, ReachesThen
  <2> QED
    BY <1>7, <2>2, ReachesThen
<1>10. Gives(t, q, f) /\ r.pos <= f.pos /\ Len(r.errs) <= Len(f.errs)
  <2>1. r = Expect(Consume(docs, "unsafe"), "fn", "ExpectedKeyword")
    BY DEF c
  <2> HIDE DEF r
  <2> QED
    BY <1>1, <1>3, <1>9, <2>1, FnDeclGives
<1>11. f \in Sound /\ f \in Adds(t) /\ f.pos \in Nat /\ f.toks = t.toks /\ Len(f.errs) \in Nat
       /\ t.pos <= f.pos
  BY <1>10, YieldsAdds DEF Gives
<1> HIDE DEF r, f
<1>12. u \in Moves(f)
  BY <1>11, SkipToFacts, Itself DEF EndMethod
<1>13. u \in Adds(t) /\ u.pos \in Nat /\ f.pos <= u.pos
  BY <1>11, <1>12, ThenMoves
<1> HIDE DEF u
<1>14. u.pos > t.pos
  <2>1. CASE f.pos > t.pos
    BY <1>3, <1>11, <1>13, <2>1
  <2>2. CASE ~(f.pos > t.pos)
    <3>1. f.pos = t.pos /\ docs.pos = t.pos /\ c.pos = t.pos /\ r.pos = t.pos
      BY <1>3, <1>5, <1>8, <1>10, <1>11, <2>2
    <3>2. Peek(docs) = Peek(t) /\ Peek(c) = Peek(t) /\ Peek(f) = Peek(t)
      BY <1>3, <1>5, <1>11, <3>1, SamePeek
    <3>3. Peek(t) # "unsafe"
      BY <1>3, <1>4, <3>1, <3>2 DEF Check
    <3>4. Peek(t) # "fn"
      BY <1>5, <1>7, <3>1, <3>2 DEF Check
    <3>5. Len(f.errs) # Len(docs.errs)
      <4>1. Len(r.errs) = Len(c.errs) + 1 /\ c.errs = docs.errs
        BY <1>4, <1>7, <3>2, <3>4 DEF Check
      <4> QED
        BY <1>5, <1>8, <1>10, <1>11, <4>1
    <3>6. u = SkipTo(f, {"}", "fn", "unsafe"})
      BY <3>5 DEF EndMethod, u
    <3>7. Peek(f) \notin {"}", "fn", "unsafe"} \cup {"eof"}
      BY <3>2, <3>3, <3>4 DEF BodyEnds
    <3>8. u.pos > f.pos
      BY <1>11, <3>6, <3>7, SkipToFacts
    <3> QED
      BY <3>1, <3>8
  <2> QED
    BY <2>1, <2>2
<1> QED
  BY <1>13, <1>14 DEF u, f, docs

LEMMA MethodsReach ==
    ASSUME NEW s \in Sound, NEW q \in Nat, NEW t, Reaches(s, q, t),
           NEW P, Ready(P, Rules, s.toks, q), NEW expectBody \in BOOLEAN
    PROVE  Reaches(s, q, ParseMethods(P, t, expectBody))
<1> DEFINE more == Until({"}", "eof"})
           round == [v \in State |->
                        LET docs == DocComments(v)
                        IN  EndMethod(ParseFnDecl(P, docs, Mark(v), {}, expectBody), docs)]
<1>1. t \in Sound /\ t.toks = s.toks /\ q <= t.pos /\ t.pos \in Nat
  BY ReachesFacts
<1>2. ASSUME NEW v \in Adds(t), more[v]
      PROVE  round[v] \in Adds(v) /\ round[v].pos > v.pos
  <2>1. v \in Sound /\ v.toks = s.toks /\ q <= v.pos /\ v \in State
    BY <1>1, FirstAdds, SoundFields
  <2>2. Peek(v) \notin BodyEnds
    BY <1>2, <2>1 DEF Until, BodyEnds
  <2>u. PICK u : u = LET docs == DocComments(v)
                     IN  EndMethod(ParseFnDecl(P, docs, Mark(v), {}, expectBody), docs)
    OBVIOUS
  <2>3. u \in Adds(v) /\ u.pos > v.pos
    BY <2>1, <2>2, <2>u, MethodGives
  <2>4. round[v] = u
    BY <2>1, <2>u
  <2> QED
    BY <2>3, <2>4
<1> HIDE DEF more, round
<1>3. While(t, more, round) \in Adds(t)
  BY <1>1, <1>2, Itself, WhileAdds
<1> QED
  BY <1>3, ReachesThen DEF ParseMethods, more, round

-----------------------------------------------------------------------------
(* Declarations.  Their comments are on the values: they were read since b.  *)

\* The keyword is there, or the position q has been reached already.
LEMMA DeclStarts ==
    ASSUME NEW b \in Sound, NEW s \in Adds(b), NEW kind \in TokenKind \ {"eof"}, NEW q,
           Starts(s, q, kind), NEW diag \in ExpectIDs
    PROVE  /\ q \in Nat /\ Reaches(b, q, Expect(s, kind, diag))
           /\ s \in Sound /\ s.toks = b.toks /\ Expect(s, kind, diag) \in Sound
<1>1. s \in Sound /\ s.toks = b.toks
  BY FirstAdds
<1>2. q \in Nat /\ Comes(s, q, Expect(s, kind, diag))
  BY <1>1, StartsFacts
<1>3. Expect(s, kind, diag) \in Adds(s) /\ Expect(s, kind, diag) \in Sound
      /\ q <= Expect(s, kind, diag).pos
  BY <1>1, <1>2, MovesAdds DEF Comes
<1>4. Expect(s, kind, diag) \in Adds(b)
  BY <1>3, AddsAdds
<1> QED
  BY <1>1, <1>2, <1>3, <1>4 DEF Reaches

LEMMA AggregateGives ==
    ASSUME NEW P, NEW b \in Sound, NEW s \in Adds(b), NEW q,
           NEW keyword \in {"struct", "enum", "union"}, Starts(s, q, keyword),
           Ready(P, Rules, b.toks, q), NEW member, Adding(member, b.toks, q),
           NEW kind \in {"StructDecl", "EnumDecl", "UnionDecl"}, NEW flags \in SUBSET Flag
    PROVE  Gives(b, q, ParseAggregate(P, s, Mark(b), flags, keyword, member, kind))
<1> DEFINE name == Expect(s, keyword, "ExpectedKeyword")
           x == ExpectName(name)
           generics == ParseGenericParams(P, x)
           open == Expect(generics, "{", "ExpectedOpen")
           t == CommaSeparated(open, "}", member)
<1>1. /\ keyword \in TokenKind \ {"eof"} /\ {"{", "}"} \subseteq TokenKind /\ kind \in Proper
      /\ {"ExpectedKeyword", "ExpectedOpen", "ExpectedClose"} \subseteq ExpectIDs
  <2>1. keyword \in TokenKind \ {"eof"} /\ {"{", "}"} \subseteq TokenKind
    BY DEF TokenKind, Fixed, Symbols, Keywords
  <2>2. kind \in Proper
    BY DEF NodeKind, Proper, TopLevelDeclKinds
  <2>3. {"ExpectedKeyword", "ExpectedOpen", "ExpectedClose"} \subseteq ExpectIDs
    BY DEF DiagID, ExpectIDs
  <2> QED
    BY <2>1, <2>2, <2>3
<1>2. q \in Nat /\ Reaches(b, q, name) /\ name \in Sound /\ s \in Sound
  BY <1>1, DeclStarts
<1> HIDE DEF name
<1>3. Reaches(b, q, x)
  BY <1>2, ReachesMoves
<1> HIDE DEF x
<1>4. Reaches(b, q, generics)
  BY <1>2, <1>3, GenericParamsReach
<1> HIDE DEF generics
<1>5. Reaches(b, q, open)
  BY <1>1, <1>2, <1>4, ReachesMoves
<1> HIDE DEF open
<1>6. Reaches(b, q, t)
  BY <1>2, <1>5, ReachesLists
<1> HIDE DEF t
<1>7. Named(TextHere(name)) \in Payload
  BY <1>2, Texts
<1>8. Gives(b, q, CloseDecl(t, s, Mark(b), "}", "ExpectedClose", kind,
                            Named(TextHere(name)), flags))
  BY <1>1, <1>2, <1>6, <1>7, ReachesDeclEnds
<1> QED
  BY <1>8 DEF ParseAggregate, t, open, generics, x, name

LEMMA TraitGives ==
    ASSUME NEW P, NEW b \in Sound, NEW s \in Adds(b), NEW q, Starts(s, q, "trait"),
           Ready(P, Rules, b.toks, q), NEW flags \in SUBSET Flag
    PROVE  Gives(b, q, ParseTraitDecl(P, s, Mark(b), flags))
<1> DEFINE name == Expect(s, "trait", "ExpectedKeyword")
           x == ExpectName(name)
           generics == ParseGenericParams(P, x)
           open == Expect(generics, "{", "ExpectedOpen")
           t == ParseMethods(P, open, FALSE)
<1>1. /\ "trait" \in TokenKind \ {"eof"} /\ {"{", "}"} \subseteq TokenKind
      /\ "TraitDecl" \in Proper
      /\ {"ExpectedKeyword", "ExpectedOpen", "ExpectedClose"} \subseteq ExpectIDs
  BY DEF TokenKind, Fixed, Symbols, Keywords, DiagID, ExpectIDs, NodeKind, Proper, TopLevelDeclKinds
<1>2. q \in Nat /\ Reaches(b, q, name) /\ name \in Sound /\ s \in Sound
  BY <1>1, DeclStarts
<1> HIDE DEF name
<1>3. Reaches(b, q, x)
  BY <1>2, ReachesMoves
<1> HIDE DEF x
<1>4. Reaches(b, q, generics)
  BY <1>2, <1>3, GenericParamsReach
<1> HIDE DEF generics
<1>5. Reaches(b, q, open)
  BY <1>1, <1>2, <1>4, ReachesMoves
<1> HIDE DEF open
<1>6. Reaches(b, q, t)
  BY <1>2, <1>5, MethodsReach
<1> HIDE DEF t
<1>7. Named(TextHere(name)) \in Payload
  BY <1>2, Texts
<1>8. Gives(b, q, CloseDecl(t, s, Mark(b), "}", "ExpectedClose", "TraitDecl",
                            Named(TextHere(name)), flags))
  BY <1>1, <1>2, <1>6, <1>7, ReachesDeclEnds
<1> QED
  BY <1>8 DEF ParseTraitDecl, t, open, generics, x, name

LEMMA ImplTypesReach ==
    ASSUME NEW P, NEW b \in Sound, NEW q \in Nat, Ready(P, Rules, b.toks, q),
           NEW g, Reaches(b, q, g)
    PROVE  Reaches(b, q, ImplTypes(P, ParseType(P, g), Mark(g)))
<1> DEFINE first == ParseType(P, g)
           m == Mark(g)
           t == Push(Push(Drop(first, m), NullNode), Top(first))
<1>1. /\ g \in Sound /\ g.toks = b.toks /\ q <= g.pos /\ m \in Nat
      /\ Ready(P, {"type", "expr"}, b.toks, q)
  BY ReachesFacts, ReadyOperands
<1>2. Reaches(b, q, first) /\ first \in Yields(g)
  BY <1>1, ReachesCalls
<1>3. Reaches(b, q, ParseType(P, Advance(first)))
  BY <1>1, <1>2, ReachesMoves, ReachesCalls
<1> HIDE DEF first
<1>4. first \in Sound /\ first \in Adds(g) /\ Mark(first) = m + 1 /\ OnNode(first)
  BY <1>1, <1>2, YieldsAdds
<1>5. first \in After(g, m)
  BY <1>4 DEF Adds
<1>6. t \in After(first, m)
  <2>1. m = Mark(first) - 1
    BY <1>1, <1>4
  <2> HIDE DEF m
  <2> QED
    BY <1>1, <1>4, <2>1, NullBelow
<1> HIDE DEF t
<1>7. t \in Adds(g)
  <2>1. \A i \in Nat : i <= i
    OBVIOUS
  <2>2. t \in After(g, m)
    <3> HIDE DEF m
    <3> QED
      BY <1>1, <1>4, <1>5, <1>6, <2>1, AfterAfter
  <2> QED
    BY <2>2 DEF Adds
<1>8. Reaches(b, q, t)
  BY <1>7, ReachesThen
<1>9. ImplTypes(P, first, Mark(g)) \in {ParseType(P, Advance(first)), t}
  BY DEF ImplTypes, t
<1> QED
  BY <1>3, <1>8, <1>9 DEF first

LEMMA ImplGives ==
    ASSUME NEW P, NEW b \in Sound, NEW s \in Adds(b), NEW q, Starts(s, q, "impl"),
           Ready(P, Rules, b.toks, q), NEW flags \in SUBSET Flag
    PROVE  Gives(b, q, ParseImplDecl(P, s, Mark(b), flags))
<1> DEFINE kw == Expect(s, "impl", "ExpectedKeyword")
           generics == ParseGenericParams(P, kw)
           types == ImplTypes(P, ParseType(P, generics), Mark(generics))
           open == Expect(types, "{", "ExpectedOpen")
           t == ParseMethods(P, open, TRUE)
<1>1. /\ "impl" \in TokenKind \ {"eof"} /\ {"{", "}"} \subseteq TokenKind
      /\ "ImplDecl" \in Proper
      /\ {"ExpectedKeyword", "ExpectedOpen", "ExpectedClose"} \subseteq ExpectIDs
  BY DEF TokenKind, Fixed, Symbols, Keywords, DiagID, ExpectIDs, NodeKind, Proper, TopLevelDeclKinds
<1>2. q \in Nat /\ Reaches(b, q, kw) /\ s \in Sound
  BY <1>1, DeclStarts
<1> HIDE DEF kw
<1>3. Reaches(b, q, generics)
  BY <1>2, GenericParamsReach
<1> HIDE DEF generics
<1>4. Reaches(b, q, types)
  BY <1>2, <1>3, ImplTypesReach
<1> HIDE DEF types
<1>5. Reaches(b, q, open)
  BY <1>1, <1>2, <1>4, ReachesMoves
<1> HIDE DEF open
<1>6. Reaches(b, q, t)
  BY <1>2, <1>5, MethodsReach
<1> HIDE DEF t
<1>8. Gives(b, q, CloseDecl(t, s, Mark(b), "}", "ExpectedClose", "ImplDecl", Nothing, flags))
  BY <1>1, <1>2, <1>6, PayloadTypes, ReachesDeclEnds
<1> QED
  BY <1>8 DEF ParseImplDecl, t, open, types, generics, kw

\* An error in the place of all that was read since b.
LEMMA DroppedYields ==
    ASSUME NEW b \in Sound, NEW t \in Adds(b), NEW diag \in BareIDs, NEW at \in Nat
    PROVE  LET e == Diag(Drop(t, Mark(b)), diag)
           IN  /\ e \in Sound /\ e \in Adds(b) /\ e.pos = t.pos
               /\ \A d \in Moves(e) :
                      ErrorNode(d, at) \in Yields(b) /\ ErrorNode(d, at).pos = d.pos
<1>1. t \in Sound /\ Mark(b) \in Nat /\ Mark(t) \in Nat /\ Mark(b) <= Mark(t) /\ t \in State
  BY FirstAdds, SoundFields
<1>m. PICK m : m = Mark(b)
  OBVIOUS
<1>x. PICK x : x = Diag(t, diag)
  OBVIOUS
<1>2. x \in Moves(t) /\ x.pos = t.pos /\ x.errs # <<>>
  BY <1>1, <1>x, PlainDiag, Reported
<1>3. x \in Adds(b) /\ x \in Sound /\ Mark(x) = Mark(t)
  BY <1>1, <1>2, MovesAdds, ThenMoves
<1>4. m \in 0..Mark(x)
  BY <1>m, <1>1, <1>3
<1>d. PICK e : e = Drop(x, m)
  OBVIOUS
<1>5. e \in After(x, m) /\ Mark(e) = m /\ e.pos = x.pos /\ e.errs = x.errs
  BY <1>2, <1>3, <1>4, <1>d, DropFacts
<1>6. \A i \in Nat : i <= i
  OBVIOUS
<1>7. x \in After(b, m)
  BY <1>m, <1>3 DEF Adds
<1>8. e \in After(b, m) /\ e \in Sound
  BY <1>1, <1>m, <1>3, <1>5, <1>6, <1>7, AfterAfter, Onward
<1>9. e \in Adds(b)
  BY <1>8, <1>m DEF Adds
<1>10. ASSUME NEW d \in Moves(e)
       PROVE  ErrorNode(d, at) \in Yields(b) /\ ErrorNode(d, at).pos = d.pos
  <2>1. d \in Adds(b) /\ Mark(d) = Mark(b)
    BY <1>m, <1>5, <1>8, <1>9, MovesAdds, ThenMoves
  <2>2. d.errs # <<>>
    BY <1>2, <1>5, <1>8, MovesAdds, Reported
  <2>3. ErrorNode(d, at) = Make(d, Mark(b), "Error", <<at, at>>, Nothing)
    BY <2>1 DEF ErrorNode, ErrorOver, Leaf
  <2> QED
    BY <2>1, <2>2, <2>3, ErrorMade
<1>11. e = Diag(Drop(t, m), diag)
  BY <1>1, <1>x, <1>d DEF Diag, DiagWith, Drop, State
<1> QED
  BY <1>m, <1>2, <1>5, <1>8, <1>9, <1>10, <1>11

LEMMA ModGives ==
    ASSUME NEW P, NEW b \in Sound, NEW s \in Adds(b), NEW q, Starts(s, q, "mod"),
           Ready(P, Rules, b.toks, q), NEW flags \in SUBSET Flag
    PROVE  Gives(b, q, ParseModDecl(P, s, Mark(b), flags))
<1> DEFINE name == Expect(s, "mod", "ExpectedKeyword")
           t == ExpectName(name)
           a == Advance(t)
           more == Until({"}", "eof"})
           body == While(a, more, DeclAt(P))
           dropped == Drop(t, Mark(b))
           e1 == CloseDecl(body, s, Mark(b), "}", "ExpectedClose", "ModDecl",
                           Named(TextHere(name)), flags)
           e2 == CloseDecl(t, s, Mark(b), ";", "ExpectedSemi", "ModDeclFile",
                           Named(TextHere(name)), flags)
           e3 == ErrorNode(Diag(dropped, "ExpectedModOpenOrSemi"), Here(t))
<1>1. /\ "mod" \in TokenKind \ {"eof"} /\ {";", "}"} \subseteq TokenKind
      /\ {"ModDecl", "ModDeclFile"} \subseteq Proper
      /\ {"ExpectedKeyword", "ExpectedSemi", "ExpectedClose"} \subseteq ExpectIDs
      /\ "ExpectedModOpenOrSemi" \in BareIDs
  BY DEF TokenKind, Fixed, Symbols, Keywords, DiagID, ExpectIDs, BareIDs, NodeKind, Proper,
         TopLevelDeclKinds
<1>2. q \in Nat /\ Reaches(b, q, name) /\ name \in Sound /\ s \in Sound
  BY <1>1, DeclStarts
<1> HIDE DEF name
<1>3. Reaches(b, q, t) /\ Named(TextHere(name)) \in Payload
  BY <1>2, ReachesMoves, Texts
<1> HIDE DEF t
<1>4. Reaches(b, q, a)
  BY <1>2, <1>3, ReachesMoves
<1> HIDE DEF a
<1>5. a \in Sound /\ a.toks = b.toks /\ q <= a.pos
  BY <1>2, <1>4, ReachesFacts
<1>6. ASSUME NEW v \in Adds(a), more[v]
      PROVE  DeclAt(P)[v] \in Adds(v) /\ DeclAt(P)[v].pos > v.pos
  <2>0. v \in Sound /\ v.toks = b.toks /\ v \in State /\ v.pos \in Nat /\ a.pos \in Nat
        /\ a.pos <= v.pos
    BY <1>5, FirstAdds, SoundFields
  <2>1. q <= v.pos
    <3> HIDE DEF more
    <3> QED
      BY <1>2, <1>5, <2>0
  <2>2. Peek(v) # "eof"
    BY <1>6, <2>0 DEF Until
  <2>3. DeclAt(P)[v] \in Yields(v) /\ DeclAt(P)[v].pos > v.pos
    BY <2>0, <2>1, <2>2, NestedCalls
  <2> QED
    BY <2>0, <2>3, YieldsAdds
<1> HIDE DEF more
<1>7. body \in Adds(a)
  BY <1>5, <1>6, Itself, WhileAdds
<1> HIDE DEF body
<1>8. Reaches(b, q, body)
  BY <1>2, <1>4, <1>7, ReachesThen
<1>9. Gives(b, q, e1)
  BY <1>1, <1>2, <1>3, <1>8, ReachesDeclEnds
<1>10. Gives(b, q, e2)
  BY <1>1, <1>2, <1>3, ReachesDeclEnds
<1>11. Gives(b, q, e3)
  <2>1. t \in Adds(b) /\ t \in Sound /\ Here(t) \in Nat /\ q <= t.pos
    BY <1>2, <1>3, ReachesFacts, Texts
  <2>d. PICK d : d = Diag(dropped, "ExpectedModOpenOrSemi")
    OBVIOUS
  <2>n. PICK at \in Nat : at = Here(t)
    BY <2>1
  <2>o. PICK diag \in BareIDs : diag = "ExpectedModOpenOrSemi"
    BY <1>1
  <2>e. d = Diag(Drop(t, Mark(b)), diag)
    BY <2>d, <2>o
  <2>2. /\ d \in Sound /\ d.pos = t.pos
        /\ \A v \in Moves(d) :
               ErrorNode(v, at) \in Yields(b) /\ ErrorNode(v, at).pos = v.pos
    BY <2>1, <2>e, DroppedYields
  <2>3. d \in Moves(d)
    BY <2>2, Itself
  <2>4. ErrorNode(d, Here(t)) \in Yields(b) /\ ErrorNode(d, Here(t)).pos = d.pos
    BY <2>2, <2>3, <2>n
  <2> QED
    BY <2>1, <2>2, <2>4, <2>d DEF Gives
<1>12. ParseModDecl(P, s, Mark(b), flags) \in {e1, e2, e3}
  BY DEF ParseModDecl, body, more, a, t, name
<1> HIDE DEF e1, e2, e3
<1> QED
  BY <1>9, <1>10, <1>11, <1>12

LEMMA UseGives ==
    ASSUME NEW b \in Sound, NEW s \in Adds(b), NEW q, Starts(s, q, "use"),
           NEW flags \in SUBSET Flag
    PROVE  Gives(b, q, ParseUseDecl(s, Mark(b), flags))
<1> DEFINE start == Expect(s, "use", "ExpectedKeyword")
           first == Expect(start, "identifier", "ExpectedIdentifier")
           from == Before(first)
           more == [u \in State |-> Check(u, "::") /\ PeekAt(u, 1) = "identifier"]
           round == [u \in State |-> Advance(Advance(u))]
           path == While(first, more, round)
           t == CASE Check(path, "::") ->
                         Expect(Advance(path), "*", "ExpectedUseItemOrGlob")
                  [] Check(path, "as") ->
                         Expect(Advance(path), "identifier", "ExpectedAsAlias")
                  [] OTHER -> path
           to == IF Check(path, "::") /\ Previous(t) # "*" THEN Before(path) ELSE Before(t)
           end == Expect(t, ";", "ExpectedSemi")
           span == <<Here(s), to>>
           payload == Named(Text(s, from, to))
<1>1. /\ "use" \in TokenKind \ {"eof"} /\ {";", "*", "identifier"} \subseteq TokenKind
      /\ "UseDecl" \in Proper
      /\ {"ExpectedKeyword", "ExpectedSemi", "ExpectedIdentifier", "ExpectedUseItemOrGlob",
          "ExpectedAsAlias"} \subseteq ExpectIDs
  BY DEF TokenKind, Fixed, Symbols, Keywords, DiagID, ExpectIDs, NodeKind, Proper, TopLevelDeclKinds
<1>2. q \in Nat /\ Reaches(b, q, start) /\ s \in Sound
  BY <1>1, DeclStarts
<1> HIDE DEF start
<1>3. Reaches(b, q, first)
  BY <1>1, <1>2, ReachesMoves
<1> HIDE DEF first
<1>4. first \in Sound /\ from \in Nat \ {0}
  BY <1>2, <1>3, ReachesFacts, PlaceTypes
<1>5. ASSUME NEW v \in Moves(first), more[v]
      PROVE  round[v] \in Moves(v) /\ round[v].pos > v.pos
  <2>1. v \in Sound /\ v \in State /\ v.pos \in Nat
    BY <1>4, MovesAdds, SoundFields
  <2>2. Peek(v) # "eof"
    BY <1>5, <2>1 DEF Check
  <2>a. PICK x : x = Advance(v)
    OBVIOUS
  <2>3. x \in Moves(v) /\ x.pos = v.pos + 1 /\ x \in Sound
    BY <2>1, <2>2, <2>a, AdvanceFacts, MovesAdds
  <2>4. Advance(x) \in Moves(x)
    BY <2>3, AdvanceFacts
  <2>5. Advance(x) \in Moves(v) /\ Advance(x).pos \in Nat /\ x.pos <= Advance(x).pos
    BY <2>1, <2>3, <2>4, MovesMoves, MovesAdds
  <2>6. Advance(x).pos > v.pos
    BY <2>1, <2>3, <2>5
  <2>7. round[v] = Advance(x)
    BY <2>1, <2>a
  <2> QED
    BY <2>5, <2>6, <2>7
<1> HIDE DEF more, round
<1>6. path \in Moves(first)
  BY <1>4, <1>5, WhileMoves
<1> HIDE DEF path
<1>7. Reaches(b, q, path)
  BY <1>2, <1>3, <1>6, ReachesThen
<1>8. Reaches(b, q, t)
  <2>1. Reaches(b, q, Advance(path))
    BY <1>2, <1>7, ReachesMoves
  <2>2. Reaches(b, q, Expect(Advance(path), "*", "ExpectedUseItemOrGlob"))
        /\ Reaches(b, q, Expect(Advance(path), "identifier", "ExpectedAsAlias"))
    BY <1>1, <1>2, <2>1, ReachesMoves
  <2>3. t \in {path, Expect(Advance(path), "*", "ExpectedUseItemOrGlob"),
               Expect(Advance(path), "identifier", "ExpectedAsAlias")}
    OBVIOUS
  <2> HIDE DEF t
  <2> QED
    BY <1>7, <2>2, <2>3
<1> HIDE DEF t
<1>9. Reaches(b, q, end)
  BY <1>1, <1>2, <1>8, ReachesMoves
<1> HIDE DEF end
<1>10. to \in Nat
  BY <1>2, <1>7, <1>8, ReachesFacts, Texts
<1> HIDE DEF to
<1>11. span \in Nat \X Nat
  BY <1>2, <1>10, Texts
<1> HIDE DEF from
<1>12. payload \in Payload
  BY <1>2, <1>4, <1>10, TextType, PayloadTypes
<1> HIDE DEF span, payload
<1>13. Gives(b, q, MakeFlagged(end, Mark(b), "UseDecl", span, payload, flags))
  BY <1>1, <1>2, <1>9, <1>11, <1>12, ReachesDeclEnds
<1> QED
  BY <1>13 DEF ParseUseDecl, payload, span, end, to, t, path, more, round, from, first, start

\* Whatever is missing, the value is read, and no expression begins where nothing
\* has been consumed.
LEMMA ConstGives ==
    ASSUME NEW P, NEW b \in Sound, NEW s \in Adds(b), Ready(P, {"type", "expr"}, b.toks, s.pos),
           Peek(s) \in {"const", "unsafe"}, NEW flags \in SUBSET Flag
    PROVE  Gives(b, s.pos + 1, ParseConstDecl(P, s, Mark(b), flags))
<1> DEFINE name == Expect(s, "const", "ExpectedKeyword")
           x == ExpectName(name)
           c == Expect(x, ":", "ExpectedColon")
           type == ParseType(P, c)
           y == Expect(type, "=", "ExpectedEq")
           value == ParseConstExpr(P, y)
           t == Expect(value, ";", "ExpectedSemi")
<1>1. /\ {"const", ":", "=", ";"} \subseteq TokenKind /\ "ConstDecl" \in Proper
      /\ {"ExpectedKeyword", "ExpectedSemi", "ExpectedColon", "ExpectedEq"} \subseteq ExpectIDs
  BY DEF TokenKind, Fixed, Symbols, Keywords, DiagID, ExpectIDs, NodeKind, Proper, TopLevelDeclKinds
<1>2. s \in Sound /\ s.toks = b.toks /\ s.pos \in Nat
  BY FirstAdds
<1>q. PICK q \in Nat : q = s.pos
  BY <1>2
<1>3. s \in Adds(b) /\ q <= s.pos
  <2>1. \A n \in Nat : n <= n
    OBVIOUS
  <2> QED
    BY <1>q, <2>1
<1>4. Reaches(b, q, s)
  BY <1>3 DEF Reaches
<1>r. Ready(P, {"type", "expr"}, b.toks, q)
  BY <1>q
<1>5. Reaches(b, q, name)
  BY <1>1, <1>4, ReachesMoves
<1>6. name \in Sound
  BY <1>5, ReachesFacts
<1> HIDE DEF name
<1>7. Reaches(b, q, x)
  BY <1>5, ReachesMoves
<1> HIDE DEF x
<1>8. Reaches(b, q, c)
  BY <1>1, <1>7, ReachesMoves
<1> HIDE DEF c
<1>9. Reaches(b, q, type)
  BY <1>8, <1>r, ReachesCalls
<1> HIDE DEF type
<1>10. Reaches(b, q, y)
  BY <1>1, <1>9, ReachesMoves
<1> HIDE DEF y
<1>11. y \in Sound /\ y.toks = b.toks /\ q <= y.pos /\ y.pos \in Nat
  BY <1>10, ReachesFacts
<1>12. Reaches(b, q, value)
  BY <1>10, <1>r, ReachesCalls
<1>13. value \in Yields(y) /\ value.pos \in Nat /\ y.pos <= value.pos
  <2>1. value \in Yields(y)
    BY <1>10, <1>r, ReachesCalls
  <2> QED
    BY <1>11, <2>1, YieldsAdds
<1>14. y.pos = q => value.pos > y.pos
  <2> SUFFICES ASSUME y.pos = q PROVE value.pos > y.pos
    OBVIOUS
  <2>1. Peek(y) = Peek(s)
    BY <1>2, <1>11, <1>q, SamePeek
  <2>2. Peek(y) \notin {";", "}", ")", "]", ",", "eof"}
    BY <2>1
  <2>3. ParseAnyExpr(P, y).pos > y.pos /\ ParseConstExpr(P, y) = ParseAnyExpr(P, y)
    BY <1>11, <1>r, <2>2, OperandCalls
  <2> QED
    BY <2>3
<1> HIDE DEF value
<1>15. q + 1 <= value.pos
  <2> HIDE DEF Peek
  <2>1. \A i, j, k \in Nat : (i <= j /\ j <= k /\ (j = i => k > j)) => i + 1 <= k
    OBVIOUS
  <2> QED
    BY <1>11, <1>13, <1>14, <2>1
<1>16. Reaches(b, q + 1, value) /\ q + 1 \in Nat
  BY <1>12, <1>15 DEF Reaches
<1>17. Reaches(b, q + 1, t)
  BY <1>1, <1>16, ReachesMoves
<1> HIDE DEF t
<1>18. t \in Sound
  BY <1>16, <1>17, ReachesFacts
<1>19. <<Here(s), Before(t)>> \in Nat \X Nat /\ Named(TextHere(name)) \in Payload
  BY <1>2, <1>6, <1>18, Texts
<1>20. Gives(b, q + 1, MakeFlagged(t, Mark(b), "ConstDecl", <<Here(s), Before(t)>>,
                                   Named(TextHere(name)), flags))
  BY <1>1, <1>16, <1>17, <1>19, ReachesDeclEnds
<1> QED
  BY <1>20, <1>q DEF ParseConstDecl, t, value, y, type, c, x, name

\* Nothing that starts a declaration: comments and tokens are dropped, and at least
\* one token is, unless none is left.
LEMMA ExpectedDeclGives ==
    ASSUME NEW b \in Sound, NEW s \in Adds(b)
    PROVE  LET u == ExpectedTopLevelDecl(s, Mark(b))
           IN  /\ u \in Yields(b) /\ s.pos <= u.pos
               /\ Peek(s) # "eof" => s.pos + 1 <= u.pos
<1> DEFINE docs == IF Mark(s) > Mark(b) THEN Diag(s, "DocCommentNotAllowed") ELSE s
           d == Drop(docs, Mark(b))
           e == Diag(d, "ExpectedTopLevelDecl")
           z == Synchronize(e)
           u == ErrorNode(z, Here(s))
<1>1. {"DocCommentNotAllowed", "ExpectedTopLevelDecl"} \subseteq BareIDs
  BY DEF DiagID, BareIDs
<1>2. s \in Sound /\ s.toks = b.toks /\ s.pos \in Nat /\ Here(s) \in Nat
  BY FirstAdds, Texts
<1>3. docs \in Moves(s) /\ docs.pos = s.pos
  BY <1>1, <1>2, Itself, PlainDiag
<1> HIDE DEF docs
<1>4. docs \in Adds(b) /\ docs \in Sound
  BY <1>2, <1>3, ThenMoves
<1>5. e \in Sound /\ e.pos = docs.pos /\ e \in Adds(b)
  BY <1>1, <1>2, <1>4, DroppedYields
<1>6. \A x \in Moves(e) : ErrorNode(x, Here(s)) \in Yields(b) /\ ErrorNode(x, Here(s)).pos = x.pos
  BY <1>1, <1>2, <1>4, DroppedYields
<1> HIDE DEF e
<1>7. z \in Moves(e) /\ (Peek(e) # "eof" => z.pos > e.pos)
  BY <1>5, SynchronizeFacts
<1>9. u \in Yields(b) /\ u.pos = z.pos
  BY <1>6, <1>7
<1>10. z.pos \in Nat /\ e.pos \in Nat /\ e.pos <= z.pos
  BY <1>5, <1>7, MovesAdds
<1>11. e.pos = s.pos
  BY <1>3, <1>5
<1>12. Peek(e) = Peek(s)
  <2>1. e.toks = s.toks
    BY <1>2, <1>5, FirstAdds
  <2> QED
    BY <1>2, <1>5, <1>11, <2>1, SamePeek
<1> HIDE DEF d, e, z, u
<1>13. u \in Yields(b) /\ s.pos <= u.pos
  BY <1>9, <1>10, <1>11
<1>14. Peek(s) # "eof" => s.pos + 1 <= u.pos
  BY <1>2, <1>7, <1>9, <1>10, <1>11, <1>12, NextPosition
<1> QED
  BY <1>13, <1>14 DEF ExpectedTopLevelDecl, u, z, e, d, docs

\* Behind the comments of a declaration and `pub`.
LEMMA DeclarationGives ==
    ASSUME NEW P, NEW b \in Sound, NEW t \in Adds(b), Ready(P, Rules, b.toks, b.pos + 1),
           Ready(P, {"type", "expr"}, b.toks, b.pos), NEW flags \in SUBSET Flag
    PROVE  LET u == Declaration(P, t, Mark(b), flags)
           IN  /\ u \in Yields(b)
               /\ Peek(t) # "eof" \/ b.pos + 1 <= t.pos => Gives(b, b.pos + 1, u)
<1> DEFINE u == Declaration(P, t, Mark(b), flags)
<1>1. t \in Sound /\ t.toks = b.toks /\ t.pos \in Nat /\ b.pos \in Nat /\ b.pos <= t.pos
  BY FirstAdds
<1>q. PICK q \in Nat : q = b.pos + 1
  BY <1>1
<1>2. \A kind \in TokenKind : Check(t, kind) => Starts(t, q, kind)
  <2>1. q <= t.pos \/ q = t.pos + 1
    BY <1>1, <1>q
  <2> QED
    BY <2>1 DEF Starts
<1>3. Ready(P, Rules, b.toks, q) /\ Ready(P, Rules, t.toks, q)
  BY <1>q, <1>1
<1>4. Gives(b, q, u) => /\ u \in Yields(b)
                        /\ Peek(t) # "eof" \/ b.pos + 1 <= t.pos => Gives(b, b.pos + 1, u)
  BY <1>q DEF Gives
<1>k. /\ {"fn", "unsafe", "const", "mod", "struct", "enum", "union", "use", "trait", "impl"}
             \subseteq TokenKind \ {"eof"}
      /\ "ExpectedKeyword" \in ExpectIDs /\ {"StructDecl", "EnumDecl", "UnionDecl"} \subseteq Proper
  BY DEF TokenKind, Fixed, Symbols, Keywords, DiagID, ExpectIDs, NodeKind, Proper, TopLevelDeclKinds
<1>5. CASE Check(t, "fn")
  <2>1. u = ParseFnDecl(P, t, Mark(b), flags, TRUE)
    BY <1>5 DEF Declaration, Check
  <2>2. Expect(Consume(t, "unsafe"), "fn", "ExpectedKeyword") = Expect(t, "fn", "ExpectedKeyword")
    BY <1>5 DEF Consume, Check
  <2>3. Reaches(b, q, Expect(t, "fn", "ExpectedKeyword"))
    BY <1>2, <1>5, <1>k, DeclStarts
  <2>4. Gives(b, q, u)
    BY <1>1, <1>3, <2>1, <2>2, <2>3, FnDeclGives
  <2> QED
    BY <1>4, <2>4
<1>6. CASE Check(t, "unsafe") /\ PeekAt(t, 1) = "fn"
  <2>1. u = ParseFnDecl(P, Advance(t), Mark(b), flags \cup {"unsafe"}, TRUE)
    BY <1>6 DEF Declaration, Check
  <2>2. Reaches(t, q, Advance(t))
    BY <1>1, <1>2, <1>6, <1>k, StartsFacts
  <2>3. Reaches(b, q, Advance(t)) /\ Advance(t) \in Sound
    BY <1>1, <2>2, AddsAdds, FirstAdds DEF Reaches
  <2>4. Reaches(b, q, Expect(Consume(Advance(t), "unsafe"), "fn", "ExpectedKeyword"))
    <3>1. Reaches(b, q, Consume(Advance(t), "unsafe"))
      BY <2>3, ReachesMoves
    <3> QED
      BY <1>k, <3>1, ReachesMoves
  <2>5. flags \cup {"unsafe"} \in SUBSET Flag
    BY DEF Flag
  <2>6. Gives(b, q, u)
    BY <1>3, <2>1, <2>3, <2>4, <2>5, FnDeclGives
  <2> QED
    BY <1>4, <2>6
<1>7. CASE Check(t, "const") \/ (Check(t, "unsafe") /\ PeekAt(t, 1) # "fn")
  <2>1. u = ParseConstDecl(P, t, Mark(b), flags)
    BY <1>7 DEF Declaration, Check
  <2>2. Peek(t) \in {"const", "unsafe"}
    BY <1>7 DEF Check
  <2>3. Ready(P, {"type", "expr"}, b.toks, t.pos)
    BY <1>1, ReadyLater
  <2>4. Gives(b, t.pos + 1, u)
    BY <2>1, <2>2, <2>3, ConstGives
  <2>5. u \in Yields(b) /\ t.pos + 1 <= u.pos /\ u.pos \in Nat
    BY <2>4, YieldsAdds DEF Gives
  <2>6. q <= u.pos
    <3> HIDE DEF u
    <3> QED
      BY <1>1, <1>q, <2>5
  <2> QED
    BY <1>4, <2>5, <2>6 DEF Gives
<1>8. CASE Check(t, "mod")
  <2>1. u = ParseModDecl(P, t, Mark(b), flags)
    BY <1>8 DEF Declaration, Check
  <2> QED
    BY <1>2, <1>3, <1>4, <1>8, <1>k, <2>1, ModGives
<1>9. CASE Check(t, "struct")
  <2>1. u = ParseAggregate(P, t, Mark(b), flags, "struct", StructFieldAt(P), "StructDecl")
    BY <1>9 DEF Declaration, Check, ParseStructDecl
  <2>2. Adding(StructFieldAt(P), b.toks, q)
    BY <1>3, StructFieldsAdding
  <2>3. Gives(b, q, u)
    BY <1>2, <1>3, <1>9, <1>k, <2>1, <2>2, AggregateGives
  <2> QED
    BY <1>4, <2>3
<1>10. CASE Check(t, "enum")
  <2>1. u = ParseAggregate(P, t, Mark(b), flags, "enum", EnumVariantAt(P), "EnumDecl")
    BY <1>10 DEF Declaration, Check, ParseEnumDecl
  <2>2. Adding(EnumVariantAt(P), b.toks, q)
    BY <1>3, EnumVariantsAdding
  <2>3. Gives(b, q, u)
    BY <1>2, <1>3, <1>10, <1>k, <2>1, <2>2, AggregateGives
  <2> QED
    BY <1>4, <2>3
<1>11. CASE Check(t, "union")
  <2>1. u = ParseAggregate(P, t, Mark(b), flags, "union", StructFieldAt(P), "UnionDecl")
    BY <1>11 DEF Declaration, Check, ParseUnionDecl
  <2>2. Adding(StructFieldAt(P), b.toks, q)
    BY <1>3, StructFieldsAdding
  <2>3. Gives(b, q, u)
    BY <1>2, <1>3, <1>11, <1>k, <2>1, <2>2, AggregateGives
  <2> QED
    BY <1>4, <2>3
<1>12. CASE Check(t, "use")
  <2>1. u = ParseUseDecl(t, Mark(b), flags)
    BY <1>12 DEF Declaration, Check
  <2> QED
    BY <1>2, <1>3, <1>4, <1>12, <1>k, <2>1, UseGives
<1>13. CASE Check(t, "trait")
  <2>1. u = ParseTraitDecl(P, t, Mark(b), flags)
    BY <1>13 DEF Declaration, Check
  <2> QED
    BY <1>2, <1>3, <1>4, <1>13, <1>k, <2>1, TraitGives
<1>14. CASE Check(t, "impl")
  <2>1. u = ParseImplDecl(P, t, Mark(b), flags)
    BY <1>14 DEF Declaration, Check
  <2> QED
    BY <1>2, <1>3, <1>4, <1>14, <1>k, <2>1, ImplGives
<1>15. CASE /\ ~Check(t, "fn") /\ ~Check(t, "unsafe") /\ ~Check(t, "const")
            /\ ~Check(t, "mod") /\ ~Check(t, "struct") /\ ~Check(t, "enum")
            /\ ~Check(t, "union") /\ ~Check(t, "use") /\ ~Check(t, "trait")
            /\ ~Check(t, "impl")
  <2>1. u = ExpectedTopLevelDecl(t, Mark(b))
    BY <1>15 DEF Declaration
  <2>2. u \in Yields(b) /\ t.pos <= u.pos /\ (Peek(t) # "eof" => t.pos + 1 <= u.pos)
    BY <2>1, ExpectedDeclGives
  <2>3. u.pos \in Nat
    BY <2>2, YieldsAdds
  <2>4. ASSUME Peek(t) # "eof" \/ q <= t.pos PROVE q <= u.pos
    <3> HIDE DEF u
    <3> QED
      BY <1>1, <1>q, <2>2, <2>3, <2>4
  <2> QED
    BY <1>q, <2>2, <2>4 DEF Gives
<1> QED
  BY <1>5, <1>6, <1>7, <1>8, <1>9, <1>10, <1>11, <1>12, <1>13, <1>14, <1>15

LEMMA DeclRuleGives ==
    ASSUME NEW P, NEW s \in Sound, Ready(P, Rules, s.toks, s.pos + 1),
           Ready(P, {"type", "expr"}, s.toks, s.pos)
    PROVE  /\ DeclRule(P, s) \in Yields(s)
           /\ Peek(s) # "eof" => Gives(s, s.pos + 1, DeclRule(P, s))
<1> DEFINE docs == DocComments(s)
           t == Consume(docs, "pub")
           flags == IF Check(docs, "pub") THEN {"pub"} ELSE {}
<1>1. docs \in Adds(s)
  BY CommentsFacts DEF DocComments, NodeKind, Proper
<1>2. t \in Adds(s)
  BY <1>1, FirstAdds, ConsumeFacts, ThenMoves
<1>3. flags \in SUBSET Flag
  BY DEF Flag
<1>4. DeclRule(P, s) = Declaration(P, t, Mark(s), flags)
  BY DEF DeclRule
<1> HIDE DEF t, flags
<1>5. t \in Sound /\ t.toks = s.toks /\ t.pos \in Nat /\ s.pos \in Nat /\ s.pos <= t.pos
  BY <1>2, FirstAdds
<1>6. ASSUME Peek(s) # "eof" PROVE Peek(t) # "eof" \/ s.pos + 1 <= t.pos
  <2>1. CASE t.pos = s.pos
    BY <1>5, <1>6, <2>1, SamePeek
  <2>2. CASE t.pos # s.pos
    BY <1>5, <2>2
  <2> QED
    BY <2>1, <2>2
<1> QED
  BY <1>2, <1>3, <1>4, <1>6, DeclarationGives

-----------------------------------------------------------------------------
(* The recursion.  A call that is not made behind the first token of its     *)
(* caller is one of a statement or a declaration for a type or an expression,*)
(* which make none at their own first token: at every token at most two      *)
(* calls begin.                                                            *)

LEMMA RuleKeeps ==
    ASSUME NEW P, NEW rule \in Rules, NEW bp \in Nat, NEW s \in Sound, Asks(rule, s),
           Ready(P, Rules, s.toks, s.pos + 1),
           rule \in {"stmt", "decl"} => Ready(P, {"type", "expr"}, s.toks, s.pos)
    PROVE  Keeps(rule, s, Rule(P, rule, bp, s))
<1> DEFINE t == Rule(P, rule, bp, s)
<1>1. s.pos \in Nat
  BY SoundFields
<1>2. ASSUME rule # "infix", t \in Yields(s),
             Peek(s) \notin Stays(rule) => Gives(s, s.pos + 1, t)
      PROVE  Keeps(rule, s, t)
  <2>1. ASSUME Peek(s) \notin Stays(rule) PROVE t.pos > s.pos
    <3>1. s.pos + 1 <= t.pos /\ t.pos \in Nat
      BY <1>2, <2>1, YieldsAdds DEF Gives
    <3> HIDE DEF t
    <3> QED
      BY <1>1, <3>1
  <2> QED
    BY <1>2, <2>1 DEF Keeps
<1>3. CASE rule = "type"
  <2>1. t = TypeRule(P, s)
    BY <1>3 DEF Rule
  <2>2. Stays(rule) = TokenKind
    BY <1>3 DEF Stays
  <2>3. Peek(s) \in TokenKind
    BY PeekType DEF Peek
  <2>4. t \in Yields(s)
    BY <2>1, TypeRuleYields
  <2> QED
    BY <1>2, <1>3, <2>2, <2>3, <2>4
<1>4. CASE rule = "pat"
  <2>1. t = PatRule(P, s)
    BY <1>4 DEF Rule
  <2>2. Stays(rule) = {"eof"}
    BY <1>4 DEF Stays
  <2> QED
    BY <1>2, <1>4, <2>1, <2>2, PatRuleGives DEF Gives
<1>5. CASE rule = "expr"
  <2>1. t = ExprRule(P, s, bp)
    BY <1>5 DEF Rule
  <2>2. Stays(rule) = {";", "}", ")", "]", ",", "eof"}
    BY <1>5 DEF Stays
  <2>3. t \in Yields(s) /\ (Peek(s) \notin Stays(rule) => Gives(s, s.pos + 1, t))
    BY <2>1, <2>2, ExprRuleGives
  <2> QED
    BY <1>2, <1>5, <2>3
<1>6. CASE rule = "infix"
  <2>1. t = Infix(P, s, bp)
    BY <1>6 DEF Rule
  <2>2. OnNode(s)
    BY <1>6 DEF Asks
  <2> QED
    BY <1>6, <2>1, <2>2, InfixWraps DEF Keeps
<1>7. CASE rule = "if"
  <2>1. t = ParseIfExpr(P, s)
    BY <1>7 DEF Rule
  <2>2. Check(s, "if")
    BY <1>7 DEF Asks
  <2>3. Gives(s, s.pos + 1, t)
    BY <2>1, <2>2, IfGives
  <2> QED
    BY <1>2, <1>7, <2>3 DEF Gives
<1>8. CASE rule = "stmt"
  <2>1. t = StmtRule(P, s)
    BY <1>8 DEF Rule
  <2>2. Peek(s) \notin Stays(rule) => Peek(s) # "eof"
    BY <1>8 DEF Stays
  <2>3. Ready(P, {"type", "expr"}, s.toks, s.pos)
    BY <1>8
  <2>4. t \in Yields(s) /\ (Peek(s) # "eof" => Gives(s, s.pos + 1, t))
    BY <2>1, <2>3, StmtRuleGives
  <2> QED
    BY <1>2, <1>8, <2>2, <2>4
<1>9. CASE rule = "decl"
  <2>1. t = DeclRule(P, s)
    BY <1>9 DEF Rule
  <2>2. Peek(s) \notin Stays(rule) => Peek(s) # "eof"
    BY <1>9 DEF Stays
  <2>3. Ready(P, {"type", "expr"}, s.toks, s.pos)
    BY <1>9
  <2>4. t \in Yields(s) /\ (Peek(s) # "eof" => Gives(s, s.pos + 1, t))
    BY <2>1, <2>3, DeclRuleGives
  <2> QED
    BY <1>2, <1>9, <2>2, <2>4
<1> QED
  BY <1>3, <1>4, <1>5, <1>6, <1>7, <1>8, <1>9 DEF Rules

\* How deep the calls may get from a call on.
Need(rule, s) == 2 * (Len(s.toks) - s.pos) + (IF rule \in {"stmt", "decl"} THEN 2 ELSE 1)

Served(n) ==
    \A rule \in Rules, bp \in Nat, s \in Sound :
        Asks(rule, s) /\ Need(rule, s) <= n => Keeps(rule, s, parse[n][<<rule, bp, s>>])

LEMMA NextServed ==
    ASSUME NEW n \in Nat, Served(n)
    PROVE  Served(n + 1)
<1> SUFFICES ASSUME NEW rule \in Rules, NEW bp \in Nat, NEW s \in Sound, Asks(rule, s),
                    Need(rule, s) <= n + 1
             PROVE  Keeps(rule, s, parse[n + 1][<<rule, bp, s>>])
  BY DEF Served
<1>1. s \in State /\ s.pos \in Nat /\ Len(s.toks) \in Nat /\ s.pos <= Len(s.toks)
  BY SoundFields
<1>2. Ready(parse[n], Rules, s.toks, s.pos + 1)
  <2> SUFFICES ASSUME NEW r \in Rules, NEW p \in Nat, NEW t \in Sound, t.toks = s.toks,
                      s.pos + 1 <= t.pos, Asks(r, t)
               PROVE  Keeps(r, t, parse[n][<<r, p, t>>])
    BY DEF Ready
  <2>1. t.pos \in Nat
    BY SoundFields
  <2>2. 2 * (Len(s.toks) - s.pos) + 1 <= n + 1
    BY <1>1 DEF Need
  <2>3. Need(r, t) <= 2 * (Len(s.toks) - t.pos) + 2 /\ Need(r, t) \in Int
    BY <1>1, <2>1 DEF Need
  <2>4. \A len, i, j, k \in Nat, need \in Int :
            2 * (len - i) + 1 <= k + 1 /\ i + 1 <= j /\ need <= 2 * (len - j) + 2 => need <= k
    OBVIOUS
  <2>5. Need(r, t) <= n
    BY <1>1, <2>1, <2>2, <2>3, <2>4
  <2> QED
    BY <2>5 DEF Served
<1>3. ASSUME rule \in {"stmt", "decl"} PROVE Ready(parse[n], {"type", "expr"}, s.toks, s.pos)
  <2> SUFFICES ASSUME NEW r \in {"type", "expr"}, NEW p \in Nat, NEW t \in Sound,
                      t.toks = s.toks, s.pos <= t.pos, Asks(r, t)
               PROVE  Keeps(r, t, parse[n][<<r, p, t>>])
    BY DEF Ready
  <2>1. t.pos \in Nat
    BY SoundFields
  <2>2. Need(r, t) <= n
    BY <1>1, <1>3, <2>1 DEF Need
  <2>3. r \in Rules
    BY DEF Rules
  <2> QED
    BY <2>2, <2>3 DEF Served
<1>4. Keeps(rule, s, Rule(parse[n], rule, bp, s))
  BY <1>2, <1>3, RuleKeeps
<1>5. <<rule, bp, s>> \in Calls
  BY <1>1 DEF Calls
<1>6. parse[n + 1] = Level(parse, n + 1)
  BY ParseLevels
<1>7. parse[n + 1][<<rule, bp, s>>] = Rule(parse[(n + 1) - 1], rule, bp, s)
  BY <1>5, <1>6 DEF Level
<1>8. (n + 1) - 1 = n
  OBVIOUS
<1> QED
  BY <1>4, <1>7, <1>8

LEMMA AllServed ==
    ASSUME NEW n \in Nat
    PROVE  Served(n)
<1> DEFINE S == {m \in Nat : ~Served(m)}
<1>1. ASSUME S # {} PROVE FALSE
  <2>1. PICK m \in S : \A k \in S : m <= k
    BY <1>1, LeastNumber
  <2>2. m \in Nat /\ ~Served(m)
    BY <2>1
  <2>3. Served(0)
    <3> SUFFICES ASSUME NEW rule \in Rules, NEW s \in Sound
                 PROVE  ~(Need(rule, s) <= 0)
      BY DEF Served
    <3>1. s.pos \in Nat /\ Len(s.toks) \in Nat /\ s.pos <= Len(s.toks)
      BY SoundFields
    <3> QED
      BY <3>1 DEF Need
  <2>4. m # 0
    BY <2>2, <2>3
  <2>5. m - 1 \in Nat /\ ~(m <= m - 1) /\ (m - 1) + 1 = m
    BY <2>2, <2>4
  <2>6. Served(m - 1)
    BY <2>1, <2>5
  <2>7. Served((m - 1) + 1)
    BY <2>5, <2>6, NextServed
  <2> QED
    BY <2>2, <2>5, <2>7
<1> QED
  BY <1>1

\* A declaration leaves one node, and consumes a token unless none is left, on every
\* input: no loop stands still and no call is nested too deep.
THEOREM OneDeclarationOneNode ==
    ASSUME NEW s \in Sound
    PROVE  /\ ParseTopLevelDecl(s) \in Yields(s)
           /\ ~AtEof(s) => ParseTopLevelDecl(s).pos > s.pos
<1>1. s.pos \in Nat /\ Len(s.toks) \in Nat /\ s.pos <= Len(s.toks)
  BY SoundFields
<1>2. MaxNesting(s) \in Nat /\ Need("decl", s) <= MaxNesting(s)
  BY <1>1 DEF Need, MaxNesting
<1>3. "decl" \in Rules /\ Asks("decl", s) /\ Stays("decl") = {"eof"} /\ 0 \in Nat
  BY DEF Rules, Asks, Stays
<1>4. Served(MaxNesting(s))
  BY <1>2, AllServed
<1>5. Keeps("decl", s, parse[MaxNesting(s)][<<"decl", 0, s>>])
  BY <1>2, <1>3, <1>4 DEF Served
<1> QED
  BY <1>3, <1>5 DEF Keeps, ParseTopLevelDecl, AtEof, Check

-----------------------------------------------------------------------------
(* The file.                                                               *)

Held(s) == \A v \in DOMAIN s.vals : s.vals[v] \in Nodes(s.pool)

LEMMA SentinelWith ==
    ASSUME NEW payload
    PROVE  [Sentinel EXCEPT !.payload = payload] =
               [kind |-> "Error", count |-> 0, begin |-> 0, payload |-> payload, flags |-> {}]
BY DEF Sentinel

LEMMA StartSound ==
    ASSUME NEW toks \in Seq(Token),
           \A i \in DOMAIN toks :
               Kind(toks[i]) = "float_literal" => toks[i] \in DOMAIN TupleIndexes
    PROVE  Start(toks) \in Sound /\ Held(Start(toks))
<1> DEFINE pool == [EmptyPool EXCEPT !.nodes[1].payload = Nothing]
           all == Append(toks, "eof")
           node == [kind |-> "Error", count |-> 0, begin |-> 0, payload |-> Nothing,
                    flags |-> {}]
<1>1. "eof" \in Token /\ Kind("eof") # "float_literal"
  BY VocabularyAssumption DEF Token, Fixed, Kind
<1>2. /\ all \in Seq(Token) /\ Len(all) = Len(toks) + 1 /\ Len(toks) \in Nat
      /\ \A k \in 1..Len(toks) : all[k] = toks[k]
      /\ all[Len(toks) + 1] = "eof"
  BY <1>1, AppendFacts
<1>3. TokensSound(all)
  <2>1. ASSUME NEW i \in DOMAIN all, Kind(all[i]) = "float_literal"
        PROVE  all[i] \in DOMAIN TupleIndexes
    <3>1. i \in 1..(Len(toks) + 1)
      BY <1>2
    <3>2. i # Len(toks) + 1
      BY <1>1, <1>2, <2>1
    <3>3. i \in DOMAIN toks /\ all[i] = toks[i]
      BY <1>2, <3>1, <3>2
    <3> QED
      BY <2>1, <3>3
  <2>2. Len(all) >= 1 /\ all[Len(all)] = "eof"
    BY <1>2
  <2> QED
    BY <1>2, <2>1, <2>2 DEF TokensSound
<1> HIDE DEF all
<1>4. node \in NodeRecord
  BY PayloadTypes DEF NodeRecord, NodeKind, Proper, Flag
<1>5. pool = [nodes |-> <<node>>, children |-> <<>>, spans |-> <<<<0, 0>>>>]
  <2>1. [Sentinel EXCEPT !.payload = Nothing] = node
    BY SentinelWith
  <2> HIDE DEF node
  <2>2. [<<Sentinel>> EXCEPT ![1] = node] = <<node>>
    OBVIOUS
  <2>3. pool = [nodes |-> [<<Sentinel>> EXCEPT ![1] = [Sentinel EXCEPT !.payload = Nothing]],
                children |-> <<>>, spans |-> <<<<0, 0>>>>]
    BY DEF EmptyPool
  <2> QED
    BY <2>1, <2>2, <2>3
<1> HIDE DEF node
<1>6. /\ <<node>> \in Seq(NodeRecord) /\ <<>> \in Seq(Nat \cup {NullNode})
      /\ <<<<0, 0>>>> \in Seq(Nat \X Nat)
      /\ Len(<<node>>) = 1 /\ Len(<<<<0, 0>>>>) = 1
  BY <1>4
<1> HIDE DEF pool
<1>7. pool \in Pool /\ PoolSize(pool) = 1 /\ Len(pool.spans) = 1
  BY <1>5, <1>6 DEF Pool, PoolSize
<1>8. Nodes(pool) = {}
  BY <1>7 DEF Nodes
<1>12. DOMAIN <<>> = {}
  OBVIOUS
<1>14. pool.children = <<>>
  BY <1>5
<1>9. PoolSound(pool)
  BY <1>7, <1>8, <1>12, <1>14 DEF PoolSound, SlicesSound
<1>15. Unshared(pool.children, <<>>)
  BY <1>12, <1>14 DEF Unshared, Distinct, Apart
<1>10. Start(toks) = [toks |-> all, pos |-> 0, pool |-> pool, vals |-> <<>>,
                      errs |-> <<>>, allow |-> TRUE, stuck |-> FALSE]
  BY DEF Start, all, pool
<1>11. Start(toks) \in State
  <2>1. <<>> \in Seq(Report) /\ <<>> \in Seq(Nat \cup {NullNode}) /\ 0 \in Nat
    OBVIOUS
  <2> QED
    BY <1>2, <1>7, <1>10, <2>1 DEF State
<1>13. 0 <= Len(all)
  BY <1>2
<1>16. Lossless(Start(toks))
  BY <1>8, <1>10 DEF Lossless
<1> QED
  BY <1>3, <1>9, <1>10, <1>11, <1>12, <1>13, <1>15, <1>16 DEF Sound, ErrsSound, Held

\* A node that was there is there: the pool only grows.
LEMMA YieldHeld ==
    ASSUME NEW s \in Sound, Held(s), NEW t \in Yields(s)
    PROVE  Held(t)
<1>1. /\ t \in Sound /\ t \in Adds(s) /\ Mark(t) = Mark(s) + 1 /\ OnNode(t)
      /\ Mark(s) \in Nat
  BY YieldsAdds, SoundFields
<1>2. PoolSize(s.pool) \in Nat /\ PoolSize(t.pool) \in Nat
      /\ PoolSize(s.pool) <= PoolSize(t.pool)
  <2>1. PoolSound(s.pool) /\ PoolSound(t.pool)
    BY <1>1, SoundFields
  <2> QED
    BY <1>1, <2>1, PoolFields DEF Adds, After
<1>3. Nodes(s.pool) \subseteq Nodes(t.pool)
  BY <1>2 DEF Nodes
<1>4. \A v \in 1..Mark(s) : t.vals[v] = s.vals[v]
  BY <1>1 DEF Adds, After
<1>5. t.vals \in Seq(Nat \cup {NullNode}) /\ s.vals \in Seq(Nat \cup {NullNode})
  BY <1>1, SoundFields
<1>6. DOMAIN t.vals = 1..(Mark(s) + 1) /\ DOMAIN s.vals = 1..Mark(s)
  BY <1>1, <1>5 DEF Mark
<1>7. t.vals[Mark(s) + 1] \in Nodes(t.pool)
  BY <1>1 DEF OnNode, Top, Mark
<1>8. ASSUME NEW v \in DOMAIN t.vals PROVE t.vals[v] \in Nodes(t.pool)
  <2>1. CASE v = Mark(s) + 1
    BY <1>7, <2>1
  <2>2. CASE v # Mark(s) + 1
    <3>1. v \in 1..Mark(s)
      BY <1>1, <1>6, <2>2
    <3>2. s.vals[v] \in Nodes(s.pool)
      BY <1>6, <3>1 DEF Held
    <3> QED
      BY <1>3, <1>4, <3>1, <3>2
  <2> QED
    BY <2>1, <2>2
<1> QED
  BY <1>8 DEF Held

\* The first values, and a node on top of them.
LEMMA FileDocsHeld ==
    ASSUME NEW s \in Sound, Held(s)
    PROVE  FileDocComments(s) \in Sound /\ Held(FileDocComments(s))
<1> DEFINE I == {t \in Sound : t.toks = s.toks /\ Held(t)}
           more == At("file_doc_comment")
           round == [t \in State |-> Leaf(Advance(t), "FileDocComment", <<Here(t), Here(t)>>,
                                          Named(TextHere(t)))]
<1>1. I \in SUBSET State /\ s \in I
  BY DEF Sound
<1>2. \A t \in I : t.toks = s.toks /\ t.pos \in 0..Len(s.toks) /\ ~t.stuck
  BY SoundFields
<1>3. ASSUME NEW t \in I, more[t]
      PROVE  round[t] \in I /\ round[t].pos > t.pos
  <2>1. t \in Sound /\ t \in State /\ t.pos \in Nat /\ Held(t) /\ t.toks = s.toks
    BY <1>3, SoundFields
  <2>2. Peek(t) # "eof"
    BY <1>3, <2>1 DEF At, Check
  <2>3. Advance(t) \in Moves(t) /\ Advance(t).pos = t.pos + 1
    BY <2>1, <2>2, AdvanceFacts
  <2>4. /\ "FileDocComment" \in Proper /\ <<Here(t), Here(t)>> \in Nat \X Nat
        /\ Named(TextHere(t)) \in Payload
    BY <2>1, Texts DEF NodeKind, Proper
  <2>r. PICK u : u = Leaf(Advance(t), "FileDocComment", <<Here(t), Here(t)>>,
                          Named(TextHere(t)))
    OBVIOUS
  <2>5. u \in Yields(t) /\ u.pos = t.pos + 1
    BY <2>1, <2>3, <2>4, <2>r, LeafYields
  <2>6. u \in Sound /\ u.toks = t.toks /\ Held(u) /\ u.pos > t.pos
    BY <2>1, <2>5, YieldsAdds, YieldHeld
  <2>7. round[t] = u
    BY <2>1, <2>r
  <2> HIDE DEF round, more
  <2> QED
    BY <2>1, <2>6, <2>7
<1>4. FileDocComments(s) = While(s, more, round)
  BY DEF FileDocComments, Comments
<1>5. While(s, more, round) \in I
  <2> HIDE DEF I, more, round
  <2> QED
    BY <1>1, <1>2, <1>3, WhileRule
<1> QED
  BY <1>4, <1>5

\* The inductive invariant: what the parser holds between two declarations.
ParserInv ==
    /\ phase \in {"docs", "decls", "done"}
    /\ st \in Sound
    /\ Held(st)
    /\ phase = "done" => st.vals = <<Root>>

LEMMA ParserInit == Init => ParserInv
<1> SUFFICES ASSUME Init PROVE ParserInv
  OBVIOUS
<1>1. PICK toks \in Inputs[known] : st = Start(toks)
  BY DEF Init
<1>2. known \in DOMAIN Inputs /\ phase = "docs"
  BY DEF Init
<1>3. toks \in Seq(Token) /\ \A i \in DOMAIN toks :
          Kind(toks[i]) = "float_literal" => toks[i] \in DOMAIN TupleIndexes
  BY <1>2, InputsAssumption
<1> QED
  BY <1>1, <1>2, <1>3, StartSound DEF ParserInv

LEMMA ParserNext == ParserInv /\ [Next]_vars => ParserInv'
<1> SUFFICES ASSUME ParserInv, [Next]_vars PROVE ParserInv'
  OBVIOUS
<1>1. st \in Sound /\ Held(st)
  BY DEF ParserInv
<1>2. CASE ParseFileDocs
  <2>1. st' \in Sound /\ Held(st')
    BY <1>1, <1>2, FileDocsHeld DEF ParseFileDocs
  <2> QED
    BY <1>2, <2>1 DEF ParseFileDocs, ParserInv, Held, Root
<1>3. CASE ParseDecl
  <2>1. st' \in Yields(st)
    BY <1>1, <1>3, OneDeclarationOneNode DEF ParseDecl
  <2>2. st' \in Sound /\ Held(st')
    BY <1>1, <2>1, YieldsAdds, YieldHeld
  <2> QED
    BY <1>3, <2>2 DEF ParseDecl, ParserInv, Held
<1>4. CASE FinishFile
  <2>1. /\ 0 \in 0..Mark(st) /\ "SourceFile" \in Proper /\ <<1, Before(st)>> \in Nat \X Nat
        /\ Nothing \in Payload /\ {} \in SUBSET Flag
    BY <1>1, SoundFields, PlaceTypes, PayloadTypes DEF NodeKind, Proper
  <2>2. st' = MakeFlagged(st, 0, "SourceFile", <<1, Before(st)>>, Nothing, {})
    BY <1>4 DEF FinishFile, Make
  <2>3. /\ st' \in After(st, 0) /\ Mark(st') = 0 + 1 /\ OnNode(st')
        /\ Top(st') = PoolSize(st'.pool) - 1
    <3>1. "SourceFile" # "Error" /\ "SourceFile" \in NodeKind
      BY <2>1 DEF Proper
    <3> QED
      BY <1>1, <2>1, <2>2, <3>1, MakeFacts
  <2>4. st' \in Sound
    BY <2>3 DEF After
  <2>5. st'.vals \in Seq(Nat \cup {NullNode}) /\ Len(st'.vals) = 1
    BY <2>3, <2>4, SoundFields DEF Mark
  <2>6. DOMAIN st'.vals = {1} /\ st'.vals[1] \in Nodes(st'.pool)
    BY <2>3, <2>5 DEF OnNode, Top
  <2>7. Held(st')
    BY <2>6 DEF Held
  <2>8. st'.vals = <<Root'>>
    <3>1. st'.vals[1] = PoolSize(st'.pool) - 1
      BY <2>3, <2>5 DEF Top
    <3>2. Root' = PoolSize(st'.pool) - 1
      BY DEF Root
    <3> QED
      BY <2>5, <3>1, <3>2
  <2> QED
    BY <1>4, <2>4, <2>7, <2>8 DEF FinishFile, ParserInv, Held
<1>5. CASE UNCHANGED vars
  BY <1>5 DEF vars, ParserInv, Held, Root
<1> QED
  BY <1>2, <1>3, <1>4, <1>5 DEF Next

\* The children of a node are its slice of the array.
LEMMA KidsAre ==
    ASSUME st \in Sound, NEW i \in Indices
    PROVE  /\ i \in Nodes(st.pool)
           /\ Begin(st.pool, i) \in Nat /\ NodeAt(st.pool, i).count \in Nat
           /\ End(st.pool, i) = Begin(st.pool, i) + NodeAt(st.pool, i).count
           /\ DOMAIN Kids(i) = 1..NodeAt(st.pool, i).count
           /\ \A k \in DOMAIN Kids(i) :
                  /\ Begin(st.pool, i) + k \in DOMAIN st.pool.children
                  /\ Kids(i)[k] = st.pool.children[Begin(st.pool, i) + k]
                  /\ Kids(i)[k] \in 1..(i - 1) \cup {NullNode}
<1> DEFINE node == NodeAt(st.pool, i)
<1>1. PoolSound(st.pool)
  BY SoundFields
<1>2. i \in Nodes(st.pool)
  BY DEF Indices, Nodes
<1>3. KidsBefore(st.pool, i)
  BY <1>1, <1>2 DEF PoolSound
<1>4. node \in NodeRecord
  <2>1. i + 1 \in 1..Len(st.pool.nodes)
    BY <1>1, <1>2, PoolFields, NodeInPool DEF Nodes
  <2> QED
    BY <1>1, <2>1, PoolFields DEF NodeAt
<1>5. node.begin \in Nat /\ node.count \in Nat
  BY <1>4 DEF NodeRecord
<1>6. /\ node.begin + node.count <= Len(st.pool.children)
      /\ \A j \in 1..node.count :
             st.pool.children[node.begin + j] \in 1..(i - 1) \cup {NullNode}
  BY <1>3 DEF KidsBefore
<1>7. Kids(i) = SubSeq(st.pool.children, node.begin + 1, node.begin + node.count)
  BY DEF Kids, ChildrenOf
<1>8. Begin(st.pool, i) = node.begin /\ End(st.pool, i) = node.begin + node.count
  BY DEF Begin, End
<1> HIDE DEF node
<1>b. PICK from \in Nat \ {0} : from = node.begin + 1
  BY <1>5
<1>e. PICK to \in Int : to = node.begin + node.count
  BY <1>5
<1>c. PICK q : q = st.pool.children
  OBVIOUS
<1>9. q \in Seq(Nat \cup {NullNode}) /\ to <= Len(q) /\ Len(q) \in Nat
  BY <1>1, <1>6, <1>c, <1>e, PoolFields
<1>10. /\ Kids(i) \in Seq(Nat \cup {NullNode})
       /\ Len(Kids(i)) = IF to < from THEN 0 ELSE to - from + 1
       /\ \A j \in 1..Len(Kids(i)) : Kids(i)[j] = q[from + j - 1]
  <2>1. Kids(i) = SubSeq(q, from, to)
    BY <1>7, <1>b, <1>c, <1>e
  <2> QED
    BY <1>9, <2>1, SubSeqType
<1>11. Len(Kids(i)) = node.count
  BY <1>5, <1>10, <1>b, <1>e
<1>12. DOMAIN Kids(i) = 1..node.count
  BY <1>10, <1>11
<1>13. ASSUME NEW k \in DOMAIN Kids(i)
       PROVE  /\ node.begin + k \in DOMAIN q
              /\ Kids(i)[k] = q[node.begin + k]
              /\ Kids(i)[k] \in 1..(i - 1) \cup {NullNode}
  <2>1. k \in 1..node.count
    BY <1>12, <1>13
  <2>2. from + k - 1 = node.begin + k /\ node.begin + k \in 1..Len(q)
    BY <1>5, <1>9, <1>b, <1>e, <2>1
  <2>3. Kids(i)[k] = q[node.begin + k]
    BY <1>10, <1>11, <2>1, <2>2
  <2> QED
    BY <1>6, <1>9, <1>c, <2>1, <2>2, <2>3
<1> QED
  BY <1>2, <1>5, <1>8, <1>12, <1>13, <1>c DEF node

LEMMA ParserTypes == ParserInv => TypeOK
<1> SUFFICES ASSUME ParserInv PROVE TypeOK
  OBVIOUS
<1>1. st \in Sound /\ Held(st) /\ phase \in {"docs", "decls", "done"}
  BY DEF ParserInv
<1>2. st.pos \in 0..Len(st.toks) /\ st.allow \in BOOLEAN
  BY <1>1, SoundFields
<1>3. \A i \in Indices : \A k \in DOMAIN Kids(i) : Kids(i)[k] \in 1..(i - 1) \cup {NullNode}
  BY <1>1, KidsAre
<1>4. \A v \in DOMAIN st.vals : st.vals[v] \in Indices
  BY <1>1 DEF Held, Indices, Nodes
<1> QED
  BY <1>1, <1>2, <1>3, <1>4 DEF TypeOK

LEMMA ParserReached == Spec => []ParserInv
BY ParserInit, ParserNext, PTL DEF Spec

\* Between two declarations the cursor is inside the file, every value an active
\* production holds is a node, and every child of a node was made before it, with
\* the slice of its children inside the array: whatever the tokens of the file are
\* (Parser.cpp, NodePool.cpp).
THEOREM TypeCorrect == Spec => []TypeOK
BY ParserReached, ParserTypes, PTL

\* No loop of any production stands still and no production is nested deeper than
\* twice the number of tokens, on every input: the parser ends (parseSourceFile,
\* parseBlockExpr, synchronize, the lists, the recursive descent).
THEOREM ParserEnds == Spec => []LoopsEnd
<1>1. ParserInv => LoopsEnd
  BY SoundFields DEF ParserInv, LoopsEnd
<1> QED
  BY <1>1, ParserReached, PTL

\* Every top-level declaration consumes a token, whatever stands there
\* (Parser.cpp:56-58).
THEOREM DeclarationsConsume == Spec => DeclConsumes
<1>1. ASSUME ParserInv, [Next]_vars
      PROVE  [phase' = "decls" /\ phase = "decls" => st'.pos > st.pos]_vars
  <2>1. CASE ParseDecl
    BY <1>1, <2>1, OneDeclarationOneNode DEF ParserInv, ParseDecl
  <2>2. CASE ParseFileDocs
    BY <2>2 DEF ParseFileDocs
  <2>3. CASE FinishFile
    BY <2>3 DEF FinishFile
  <2> QED
    BY <1>1, <2>1, <2>2, <2>3 DEF Next
<1> QED
  BY <1>1, ParserReached, PTL DEF Spec, DeclConsumes

\* A diagnostic brings a value for every placeholder of its message, for every
\* file: the table of templates and the places that report agree, but for the
\* brace an unsafe block lacks (ParserDiagnostics.def, renderMessage, expect).
THEOREM MessagesAreFilled == Spec => []MessagesFilled
<1>1. ASSUME ParserInv PROVE MessagesFilled
  <2>1. st \in Sound
    BY <1>1 DEF ParserInv
  <2>2. {Source[k] : k \in DOMAIN Source} = {st.toks[k] : k \in 1..(Len(st.toks) - 1)}
    <3>1. PICK n : n = Len(st.toks) - 1
      OBVIOUS
    <3>2. n \in Nat /\ n <= Len(st.toks) /\ st.toks \in Seq(Token)
      BY <2>1, <3>1, SoundFields
    <3>3. /\ Source \in Seq(Token) /\ Len(Source) = n
          /\ \A k \in 1..Len(Source) : Source[k] = st.toks[k]
      <4>1. Source = SubSeq(st.toks, 1, n)
        BY <3>1 DEF Source
      <4>2. /\ Source \in Seq(Token) /\ Len(Source) = (IF n < 1 THEN 0 ELSE n - 1 + 1)
            /\ \A k \in 1..Len(Source) : Source[k] = st.toks[1 + k - 1]
        BY <3>2, <4>1, SubSeqType
      <4> QED
        BY ONLY <3>2, <4>2
    <3>4. DOMAIN Source = 1..n
      BY <3>2, <3>3
    <3> QED
      BY <3>1, <3>3, <3>4
  <2>3. \A e \in DOMAIN st.errs : Filled(st.toks, st.errs[e])
    BY <2>1 DEF Sound, ErrsSound
  <2> QED
    BY <2>2, <2>3 DEF MessagesFilled, Filled
<1> QED
  BY <1>1, ParserReached, PTL

\* The pool holds a tree, whatever was parsed: no production hands a node to two
\* parents, takes one twice, or keeps as a value what it has already attached, not
\* where it wraps an operand, drops what it read or reports (NodePool.cpp, every
\* production of ParseDecl.cpp and ParseExpr.cpp).
THEOREM OneParentAtMost == Spec => []NoneShared
<1>1. ASSUME ParserInv PROVE NoneShared
  <2>1. st \in Sound
    BY <1>1 DEF ParserInv
  <2> SUFFICES ASSUME NEW i \in Indices, NEW j \in Indices,
                      NEW k \in DOMAIN Kids(i), NEW l \in DOMAIN Kids(j),
                      Kids(i)[k] = Kids(j)[l], Kids(i)[k] # NullNode
               PROVE  i = j /\ k = l
    BY DEF NoneShared
  <2>2. PICK m \in Nat : m = Begin(st.pool, i)
    BY <2>1, KidsAre
  <2>3. PICK n \in Nat : n = Begin(st.pool, j)
    BY <2>1, KidsAre
  <2>4. /\ i \in Nodes(st.pool) /\ k \in Nat \ {0} /\ End(st.pool, i) \in Nat
        /\ m + k <= End(st.pool, i)
        /\ m + k \in DOMAIN st.pool.children /\ Kids(i)[k] = st.pool.children[m + k]
    BY <2>1, <2>2, KidsAre
  <2>5. /\ j \in Nodes(st.pool) /\ l \in Nat \ {0} /\ End(st.pool, j) \in Nat
        /\ n + l <= End(st.pool, j)
        /\ n + l \in DOMAIN st.pool.children /\ Kids(j)[l] = st.pool.children[n + l]
    BY <2>1, <2>3, KidsAre
  <2>6. m + k = n + l
    BY <2>1, <2>4, <2>5 DEF Sound, Unshared, Distinct
  <2>7. i \in Int /\ j \in Int
    BY DEF Indices
  <2>8. \A a, b \in Nodes(st.pool) : a < b => End(st.pool, a) <= Begin(st.pool, b)
    BY <2>1, SoundFields DEF PoolSound, SlicesSound
  <2>9. CASE i < j
    <3>1. End(st.pool, i) <= n
      BY <2>3, <2>4, <2>5, <2>8, <2>9
    <3> QED
      BY <2>4, <2>5, <2>6, <3>1
  <2>10. CASE j < i
    <3>1. End(st.pool, j) <= m
      BY <2>2, <2>4, <2>5, <2>8, <2>10
    <3> QED
      BY <2>4, <2>5, <2>6, <3>1
  <2>11. CASE i = j
    BY <2>2, <2>3, <2>4, <2>5, <2>6, <2>11
  <2> QED
    BY <2>7, <2>9, <2>10, <2>11
<1> QED
  BY <1>1, ParserReached, PTL

\* And it holds the whole program: in what is accepted no node stands for an error
\* and every node but the root has its parent, so nothing that was read is missing
\* from the tree (Parser::parse; the sixteen bits of ChildCount are the limit).
THEOREM NothingIsLost == Spec => []NoneLost
<1>1. ASSUME ParserInv PROVE NoneLost
  <2> SUFFICES ASSUME phase = "done", st.errs = <<>>, Len(st.pool.children) < CountLimit,
                      NEW i \in Indices
               PROVE  /\ KindOf(i) # "Error"
                      /\ i = Root <=> \A j \in Indices : \A k \in DOMAIN Kids(j) :
                                          Kids(j)[k] # i
    BY DEF NoneLost, Accepted, Done
  <2>1. st \in Sound /\ st.vals = <<Root>>
    BY <1>1 DEF ParserInv
  <2>2. i \in Nodes(st.pool)
    BY <2>1, KidsAre
  <2>3. /\ KindOf(i) # "Error"
        /\ Among(i, st.pool.children) \/ Among(i, st.vals)
    BY <2>1, <2>2 DEF Sound, Lossless, KindOf
  <2>4. ASSUME i = Root, NEW j \in Indices, NEW k \in DOMAIN Kids(j)
        PROVE  Kids(j)[k] # i
    <3>1. Kids(j)[k] \in 1..(j - 1) \cup {NullNode} /\ i \in Nat
      BY <2>1, KidsAre DEF Indices
    <3>2. NullNode \notin Nat
      BY LimitAssumption
    <3>3. j <= i /\ j \in Nat
      BY <2>4 DEF Indices, Root
    <3> QED
      BY <3>1, <3>2, <3>3
  <2>5. ASSUME i # Root
        PROVE  \E j \in Indices : \E k \in DOMAIN Kids(j) : Kids(j)[k] = i
    <3>1. PICK p \in DOMAIN st.pool.children : st.pool.children[p] = i
      <4>1. ~Among(i, st.vals)
        BY <2>1, <2>5 DEF Among
      <4> QED
        BY <2>3, <4>1 DEF Among
    <3>2. PICK j \in Nodes(st.pool) : Begin(st.pool, j) < p /\ p <= End(st.pool, j)
      BY <2>1, SoundFields DEF PoolSound, SlicesSound
    <3>3. j \in Indices
      BY DEF Indices, Nodes
    <3>4. p \in Nat
      <4>1. PICK q : q = st.pool.children
        OBVIOUS
      <4>2. q \in Seq(Nat \cup {NullNode}) /\ p \in DOMAIN q
        BY <2>1, <3>1, <4>1, SoundFields, PoolFields
      <4> QED
        BY <4>2
    <3>5. PICK k \in Int : k = p - Begin(st.pool, j)
      BY <2>1, <3>3, <3>4, KidsAre
    <3>6. k \in DOMAIN Kids(j) /\ Begin(st.pool, j) + k = p
      BY <2>1, <3>2, <3>3, <3>4, <3>5, KidsAre
    <3>7. Kids(j)[k] = i
      BY <2>1, <3>1, <3>3, <3>6, KidsAre
    <3> QED
      BY <3>3, <3>6, <3>7
  <2> QED
    BY <2>3, <2>4, <2>5
<1> QED
  BY <1>1, ParserReached, PTL

\* A tree in the pool: together, what the productions keep of every file.
THEOREM TreeIsWhole == Spec => []OneParent
BY OneParentAtMost, NothingIsLost, PTL DEF OneParent
=============================================================================
