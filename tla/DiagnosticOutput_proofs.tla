----------------------- MODULE DiagnosticOutput_proofs -----------------------
(***************************************************************************)
(* For every buffer and everything the phases report: what has been        *)
(* printed, row by row.                                                    *)
(***************************************************************************)
EXTENDS DiagnosticEngine_proofs, WellFoundedInduction

-----------------------------------------------------------------------------
(* How many digits a number has.                                           *)

LEMMA LeastNumber ==
    ASSUME NEW S \in SUBSET Nat, S # {}
    PROVE  \E x \in S : \A y \in S : x <= y
<1> DEFINE R == OpToRel(<, Nat)
<1>1. \E x \in S : \A y \in S : ~ (<<y, x>> \in R)
  <2>1. IsWellFoundedOn(R, Nat)
    BY NatLessThanWellFounded
  <2> HIDE DEF R
  <2> QED
    BY <2>1, WFMin
<1>2. \A x, y \in S : <<y, x>> \notin R => x <= y
  BY DEF OpToRel
<1> HIDE DEF R
<1> QED
  BY <1>1, <1>2

\* A number of more than one digit has a smaller one without its last digit.
LEMMA DropDigit ==
    ASSUME NEW n \in Nat, n >= Radix
    PROVE  n \div Radix \in 0..(n - 1)
  BY RadixAssumption, SMT

LEMMA DropDigitMonotone ==
    ASSUME NEW m \in Nat, NEW n \in Nat, m <= n
    PROVE  m \div Radix <= n \div Radix
  BY RadixAssumption, SMT

\* The width of a number from the widths of the smaller ones.
WidthFrom(g, n) == IF n < Radix THEN 1 ELSE 1 + g[n \div Radix]
Widths(g, m) == \A n \in 0..m : g[n] = WidthFrom(g, n) /\ g[n] \in Nat \ {0}

LEMMA WidthsUnique ==
    ASSUME NEW g, NEW h, NEW m \in Nat, Widths(g, m), Widths(h, m)
    PROVE  \A n \in 0..m : g[n] = h[n]
<1> DEFINE S == {n \in 0..m : g[n] # h[n]}
<1>1. SUFFICES ASSUME S # {} PROVE FALSE
  OBVIOUS
<1>2. PICK n \in S : \A k \in S : n <= k
  <2>1. S \in SUBSET Nat
    OBVIOUS
  <2> HIDE DEF S
  <2> QED
    BY <1>1, <2>1, LeastNumber
<1>3. n \in 0..m /\ n \in Nat
  OBVIOUS
<1>4. CASE n < Radix
  BY <1>2, <1>4 DEF Widths, WidthFrom
<1>5. CASE ~(n < Radix)
  <2>1. n \div Radix \in 0..(n - 1)
    BY <1>3, <1>5, RadixAssumption, DropDigit
  <2>2. n \div Radix \in 0..m /\ ~(n <= n \div Radix)
    BY <1>3, <2>1
  <2>3. g[n \div Radix] = h[n \div Radix]
    BY <1>2, <2>2
  <2> QED
    BY <1>2, <1>5, <2>3 DEF Widths, WidthFrom
<1> QED
  BY <1>4, <1>5

LEMMA WidthsExist ==
    ASSUME NEW m \in Nat
    PROVE  \E g : Widths(g, m)
<1> DEFINE S == {k \in Nat : ~\E g : Widths(g, k)}
<1>1. SUFFICES ASSUME S # {} PROVE FALSE
  OBVIOUS
<1>2. PICK k \in S : \A j \in S : k <= j
  <2>1. S \in SUBSET Nat
    OBVIOUS
  <2> HIDE DEF S
  <2> QED
    BY <1>1, <2>1, LeastNumber
<1>3. PICK g : \A n \in 0..(k - 1) : g[n] = WidthFrom(g, n) /\ g[n] \in Nat \ {0}
  <2>1. CASE k = 0
    BY <2>1
  <2>2. CASE k # 0
    <3>1. k - 1 \in Nat /\ k - 1 \notin S
      BY <1>2, <2>2
    <3> QED
      BY <3>1 DEF Widths
  <2> QED
    BY <2>1, <2>2
<1> DEFINE h == [n \in 0..k |-> IF n < k THEN g[n] ELSE WidthFrom(g, n)]
<1>4. ASSUME NEW n \in 0..k
      PROVE  h[n] = WidthFrom(h, n) /\ h[n] \in Nat \ {0}
  <2>1. k \in Nat /\ n \in Nat /\ Radix \in Nat
    BY RadixAssumption
  <2>2. CASE n < Radix
    <3>1. WidthFrom(g, n) = 1 /\ WidthFrom(h, n) = 1
      BY <2>2 DEF WidthFrom
    <3>2. h[n] = 1
      BY <1>3, <2>1, <3>1
    <3> QED
      BY <3>1, <3>2
  <2>3. CASE ~(n < Radix)
    <3>1. n \div Radix \in 0..(n - 1)
      BY <2>1, <2>3, DropDigit
    <3>2. n \div Radix \in 0..(k - 1) /\ n \div Radix \in 0..k /\ n \div Radix < k
      BY <2>1, <3>1
    <3>3. h[n \div Radix] = g[n \div Radix] /\ g[n \div Radix] \in Nat \ {0}
      BY <1>3, <3>2
    <3>4. /\ WidthFrom(h, n) = 1 + g[n \div Radix]
          /\ WidthFrom(g, n) = 1 + g[n \div Radix]
      BY <2>3, <3>3 DEF WidthFrom
    <3>5. h[n] = WidthFrom(g, n)
      BY <1>3, <2>1
    <3> HIDE DEF h
    <3> QED
      BY <3>3, <3>4, <3>5
  <2> QED
    BY <2>2, <2>3
<1>5. Widths(h, k)
  BY <1>4 DEF Widths
<1> QED
  BY <1>2, <1>5

\* The recursive definition says what it means to.
LEMMA DigitWidth ==
    ASSUME NEW n \in Nat
    PROVE  /\ digitWidth[n] = IF n < Radix THEN 1 ELSE 1 + digitWidth[n \div Radix]
           /\ digitWidth[n] \in Nat \ {0}
<1> DEFINE G(m) == CHOOSE g : Widths(g, m)
           f == [m \in Nat |-> G(m)[m]]
           Eq(w) == w = [m \in Nat |-> IF m < Radix THEN 1 ELSE 1 + w[m \div Radix]]
<1>1. \A m \in Nat : Widths(G(m), m)
  BY WidthsExist
<1>2. ASSUME NEW m \in Nat
      PROVE  /\ f[m] = (IF m < Radix THEN 1 ELSE 1 + f[m \div Radix])
             /\ f[m] \in Nat \ {0}
  <2>1. G(m)[m] = WidthFrom(G(m), m) /\ G(m)[m] \in Nat \ {0}
    BY <1>1 DEF Widths
  <2>2. CASE m < Radix
    BY <2>1, <2>2 DEF WidthFrom
  <2>3. CASE ~(m < Radix)
    <3> DEFINE k == m \div Radix
    <3>1. k \in 0..(m - 1)
      BY <2>3, RadixAssumption, DropDigit
    <3> HIDE DEF k
    <3>2. k \in Nat /\ k \in 0..k /\ \A j \in 0..k : j \in 0..m
      BY <3>1
    <3> HIDE DEF G
    <3>3. Widths(G(m), k)
      BY <1>1, <3>2 DEF Widths
    <3>4. G(m)[k] = G(k)[k]
      BY <1>1, <3>2, <3>3, WidthsUnique
    <3> QED
      BY <2>1, <2>3, <3>2, <3>4 DEF WidthFrom, k
  <2> QED
    BY <2>2, <2>3
<1> HIDE DEF G
<1>3. Eq(f)
  BY <1>2
<1>4. digitWidth = CHOOSE w : Eq(w)
  BY DEF digitWidth
<1>5. Eq(digitWidth)
  <2> HIDE DEF Eq
  <2> QED
    BY <1>3, <1>4
<1>6. \A m \in Nat : digitWidth[m] = WidthFrom(digitWidth, m)
  <2> DEFINE d == digitWidth
  <2>1. Eq(d)
    BY <1>5
  <2> HIDE DEF d
  <2>2. \A m \in Nat : d[m] = IF m < Radix THEN 1 ELSE 1 + d[m \div Radix]
    BY <2>1
  <2> QED
    BY <2>2 DEF d, WidthFrom
<1>7. f[n] = digitWidth[n]
  <2> DEFINE S == {m \in Nat : f[m] # digitWidth[m]}
  <2>1. SUFFICES ASSUME S # {} PROVE FALSE
    OBVIOUS
  <2>2. PICK m \in S : \A k \in S : m <= k
    <3>1. S \in SUBSET Nat
      OBVIOUS
    <3> HIDE DEF S
    <3> QED
      BY <2>1, <3>1, LeastNumber
  <2> HIDE DEF f
  <2>3. m \in Nat /\ f[m] # digitWidth[m]
    BY <2>2
  <2>4. CASE m < Radix
    BY <1>2, <1>6, <2>3, <2>4 DEF WidthFrom
  <2>5. CASE ~(m < Radix)
    <3>1. m \div Radix \in 0..(m - 1)
      BY <2>3, <2>5, RadixAssumption, DropDigit
    <3>2. m \div Radix \in Nat /\ ~(m <= m \div Radix)
      BY <2>3, <3>1
    <3>3. f[m \div Radix] = digitWidth[m \div Radix]
      BY <2>2, <3>2
    <3> QED
      BY <1>2, <1>6, <2>3, <2>5, <3>3 DEF WidthFrom
  <2> QED
    BY <2>4, <2>5
<1> HIDE DEF f
<1> QED
  BY <1>2, <1>6, <1>7 DEF WidthFrom

LEMMA DigitWidthMonotone ==
    ASSUME NEW m \in Nat, NEW n \in Nat, m <= n
    PROVE  digitWidth[m] <= digitWidth[n]
<1> DEFINE Wrong(a) == \E b \in Nat : a <= b /\ digitWidth[b] < digitWidth[a]
           S == {a \in Nat : Wrong(a)}
<1>1. ASSUME S # {} PROVE FALSE
  <2>1. PICK a \in S : \A c \in S : a <= c
    <3>1. S \in SUBSET Nat
      OBVIOUS
    <3> HIDE DEF S
    <3> QED
      BY <1>1, <3>1, LeastNumber
  <2>2. a \in Nat /\ Wrong(a)
    OBVIOUS
  <2>3. PICK b \in Nat : a <= b /\ digitWidth[b] < digitWidth[a]
    BY <2>2
  <2>4. Radix \in Nat /\ digitWidth[a] \in Nat \ {0} /\ digitWidth[b] \in Nat \ {0}
    BY <2>2, DigitWidth, RadixAssumption
  <2>5. CASE a < Radix
    <3>1. digitWidth[a] = 1
      BY <2>2, <2>5, DigitWidth
    <3> QED
      BY <2>3, <2>4, <3>1
  <2>6. CASE ~(a < Radix)
    <3> DEFINE x == a \div Radix
               y == b \div Radix
    <3>1. x \in 0..(a - 1) /\ y \in 0..(b - 1) /\ x <= y
      BY <2>2, <2>3, <2>4, <2>6, DropDigit, DropDigitMonotone
    <3>2. /\ digitWidth[a] = 1 + digitWidth[x] /\ digitWidth[b] = 1 + digitWidth[y]
      BY <2>2, <2>3, <2>4, <2>6, DigitWidth
    <3> HIDE DEF x, y
    <3>3. x \in Nat /\ y \in Nat /\ ~(a <= x)
      BY <2>2, <3>1
    <3>4. digitWidth[x] \in Nat /\ digitWidth[y] \in Nat
      BY <3>3, DigitWidth
    <3>5. digitWidth[y] < digitWidth[x]
      BY <2>3, <3>2, <3>4
    <3>6. x \in S
      BY <3>1, <3>3, <3>5
    <3> QED
      BY <2>1, <3>3, <3>6
  <2> QED
    BY <2>5, <2>6
<1>2. digitWidth[m] \in Nat /\ digitWidth[n] \in Nat
  BY DigitWidth
<1> QED
  BY <1>1, <1>2

-----------------------------------------------------------------------------
(* What is written.                                                        *)

RowSeq(rows) == \E S : rows \in Seq(S)

\* What has been written stays, and more is written behind it.
LEMMA Written ==
    ASSUME RowSeq(out), NEW rows, RowSeq(rows), Write(rows)
    PROVE  /\ RowSeq(out')
           /\ Len(out) \in Nat /\ Len(rows) \in Nat
           /\ DOMAIN out = 1..Len(out) /\ DOMAIN rows = 1..Len(rows)
           /\ Len(out') = Len(out) + Len(rows)
           /\ DOMAIN out' = 1..(Len(out) + Len(rows))
           /\ \A k \in 1..Len(out) : out'[k] = out[k]
           /\ \A k \in 1..Len(rows) : out'[Len(out) + k] = rows[k]
<1>1. PICK S, T : out \in Seq(S) /\ rows \in Seq(T)
  BY DEF RowSeq
<1>2. out \in Seq(S \cup T) /\ rows \in Seq(S \cup T)
  BY <1>1
<1>3. out \o rows \in Seq(S \cup T)
  BY <1>2
<1> QED
  BY <1>2, <1>3 DEF Write, RowSeq

LEMMA RowDomain ==
    ASSUME NEW rows, RowSeq(rows)
    PROVE  DOMAIN rows = 1..Len(rows) /\ Len(rows) \in Nat
  BY DEF RowSeq

LEMMA OldRow ==
    ASSUME RowSeq(out), NEW rows, RowSeq(rows), Write(rows)
    PROVE  \A k \in DOMAIN out : k \in DOMAIN out' /\ out'[k] = out[k]
<1>1. /\ Len(out) \in Nat /\ Len(rows) \in Nat /\ DOMAIN out = 1..Len(out)
      /\ DOMAIN out' = 1..(Len(out) + Len(rows))
      /\ \A k \in 1..Len(out) : out'[k] = out[k]
  BY Written
<1>2. \A k \in 1..Len(out) : k \in 1..(Len(out) + Len(rows))
  BY <1>1
<1> QED
  BY <1>1, <1>2

LEMMA FirstAdded ==
    ASSUME RowSeq(out), NEW rows, RowSeq(rows), Write(rows), 1 \in DOMAIN rows
    PROVE  /\ Len(out) \in Nat /\ Len(out) + 1 \in DOMAIN out'
           /\ Len(out) + 1 \notin DOMAIN out /\ out'[Len(out) + 1] = rows[1]
<1>1. /\ Len(out) \in Nat /\ Len(rows) \in Nat /\ DOMAIN out = 1..Len(out)
      /\ DOMAIN rows = 1..Len(rows)
      /\ DOMAIN out' = 1..(Len(out) + Len(rows))
      /\ \A k \in 1..Len(rows) : out'[Len(out) + k] = rows[k]
  BY Written
<1>2. 1 \in 1..Len(rows)
  BY <1>1
<1>3. out'[Len(out) + 1] = rows[1]
  BY <1>1, <1>2
<1>4. Len(out) + 1 \in 1..(Len(out) + Len(rows)) /\ Len(out) + 1 \notin 1..Len(out)
  BY <1>1, <1>2
<1> QED
  BY <1>1, <1>3, <1>4

\* A row that has been written is one of what was written.
LEMMA AddedRow ==
    ASSUME RowSeq(out), NEW rows, RowSeq(rows), Write(rows), NEW k \in DOMAIN out',
           k \notin DOMAIN out
    PROVE  k - Len(out) \in DOMAIN rows /\ out'[k] = rows[k - Len(out)]
<1>1. k \in 1..(Len(out) + Len(rows)) /\ k \notin 1..Len(out)
  BY Written
<1>2. k - Len(out) \in 1..Len(rows) /\ k = Len(out) + (k - Len(out))
  BY <1>1, Written
<1> QED
  BY <1>2, Written

LEMMA Joined ==
    ASSUME NEW x, NEW y, RowSeq(x), RowSeq(y)
    PROVE  /\ RowSeq(x \o y) /\ Len(x) \in Nat /\ Len(y) \in Nat
           /\ Len(x \o y) = Len(x) + Len(y)
           /\ \A k \in 1..Len(x) : (x \o y)[k] = x[k]
           /\ \A k \in 1..Len(y) : (x \o y)[Len(x) + k] = y[k]
<1>1. PICK S, T : x \in Seq(S) /\ y \in Seq(T)
  BY DEF RowSeq
<1>2. x \in Seq(S \cup T) /\ y \in Seq(S \cup T)
  BY <1>1
<1>3. x \o y \in Seq(S \cup T)
  BY <1>2
<1> QED
  BY <1>2, <1>3 DEF RowSeq

LEMMA RowSeqs ==
    /\ RowSeq(<<>>)
    /\ \A r : RowSeq(<<r>>)
    /\ \A q, r : RowSeq(<<q, r>>)
<1>1. ASSUME NEW r PROVE <<r>> \in Seq({r})
  OBVIOUS
<1>2. ASSUME NEW q, NEW r PROVE <<q, r>> \in Seq({q, r})
  OBVIOUS
<1>3. <<>> \in Seq({})
  OBVIOUS
<1> QED
  BY <1>1, <1>2, <1>3 DEF RowSeq

LEMMA ShortRows ==
    /\ <<>> \o <<>> = <<>>
    /\ \A q : <<q>> \o <<>> = <<q>> /\ <<>> \o <<q>> = <<q>>
    /\ \A q, r : <<q>> \o <<r>> = <<q, r>>
<1>1. ASSUME NEW q, NEW r PROVE <<q>> \o <<r>> = <<q, r>>
  <2>1. PICK S : S = {q, r}
    OBVIOUS
  <2>2. <<q>> \in Seq(S) /\ <<r>> \in Seq(S) /\ <<q, r>> \in Seq(S)
    BY <2>1
  <2>3. /\ <<q>> \o <<r>> \in Seq(S) /\ Len(<<q>> \o <<r>>) = 2
        /\ (<<q>> \o <<r>>)[1] = q /\ (<<q>> \o <<r>>)[2] = r
    BY <2>2
  <2> DEFINE x == <<q>> \o <<r>>
             y == <<q, r>>
  <2>4. /\ y \in Seq(S) /\ Len(y) = 2 /\ y[1] = q /\ y[2] = r
        /\ x \in Seq(S) /\ Len(x) = 2 /\ x[1] = q /\ x[2] = r
    BY <2>2, <2>3
  <2> HIDE DEF x, y
  <2>5. x = y
    BY <2>4, SeqEqual
  <2> QED
    BY <2>5 DEF x, y
<1>2. ASSUME NEW q PROVE <<q>> \o <<>> = <<q>> /\ <<>> \o <<q>> = <<q>>
  <2>1. <<q>> \in Seq({q})
    OBVIOUS
  <2> QED
    BY <2>1, ConcatEmptySeq
<1>3. <<>> \o <<>> = <<>>
  <2>1. <<>> \in Seq({})
    OBVIOUS
  <2> QED
    BY <2>1, ConcatEmptySeq
<1> QED
  BY <1>1, <1>2, <1>3

\* Steps that write nothing.
Silent ==
    \/ EmitSimple \/ MakeSourceManager \/ BuildLineIndex \/ WithSourceManager \/ Emit
    \/ PrintAll \/ PrintedAll \/ EndSnippet \/ UNCHANGED vars

LEMMA SilentFacts ==
    ASSUME Silent
    PROVE  UNCHANGED <<buf, script, labels, sn, out>>
  BY DEF Silent, EmitSimple, MakeSourceManager, BuildLineIndex, WithSourceManager, Emit,
         PrintAll, PrintedAll, EndSnippet, smVars, deVars, vars, Scan

LEMMA Steps ==
    ASSUME [Next]_vars
    PROVE  \/ Silent \/ PrintTitle \/ MainSnippet \/ LabelSnippet \/ PrintLine
           \/ PrintRest
  BY DEF Silent, Next, PrintDiagnostic

-----------------------------------------------------------------------------
(* The locals of printSnippet that stay as they are during its loop.       *)

\* Where the loop began, and the line it leaves out.
Begin(s) ==
    IF (labels = 0 \/ ~HasSpan(Now)) /\ s.startLine > 1 THEN s.startLine - 1
    ELSE s.startLine
Skip ==
    IF labels # 0 /\ HasSpan(Now) THEN Least(countLines, LineOf(Now.location.to) + 1)
    ELSE 0

Locals(s) ==
    /\ s.gutter = digitWidth[s.last]
    /\ s.last = Least(countLines, s.endLine + 1)
    /\ s.mark = (IF labels = 0 THEN "^" ELSE "-")
    /\ s.caption = (IF labels = 0 THEN MainCaption ELSE Now.labels[labels].text)
    /\ s.skip = Skip
    /\ Begin(s) <= s.line

LocalsInv ==
    /\ phase = "main" => HasSpan(Now)
    /\ phase = "lines" => Locals(sn) /\ (labels = 0 => HasSpan(Now))

\* What is known in the loop.
LEMMA LoopFacts ==
    ASSUME Inv, phase = "lines"
    PROVE  /\ Built /\ LocationsRight /\ Size # 0 /\ Whole(sn) /\ Covers(sn, MarkedSpan)
           /\ AtLine(sn) /\ labels \in Nat /\ labels <= Len(Now.labels)
           /\ current \in DOMAIN Diagnostics /\ current \in Nat /\ Now \in Diagnostic
           /\ MarkedSpan.from \in Nat /\ MarkedSpan.to \in Nat
           /\ sn.startLine \in 1..Len(LineStarts) /\ sn.endLine \in 1..Len(LineStarts)
           /\ sn.startLine <= sn.endLine
           /\ sn.line \in Nat /\ sn.last \in Nat /\ Len(LineStarts) \in Nat
           /\ countLines = Len(LineStarts)
<1>1. /\ Built /\ LocationsRight /\ Size # 0 /\ Whole(sn) /\ Covers(sn, MarkedSpan)
      /\ AtLine(sn) /\ labels \in Nat /\ labels <= Len(Now.labels)
      /\ current \in DOMAIN Diagnostics /\ current \in Nat /\ Now \in Diagnostic
  BY PrintingFacts DEF Inv, PrintInv, LoopInv, Early, Underway
<1>2. MarkedSpan.from \in Nat /\ MarkedSpan.to \in Nat
  <2>1. Now.location.from \in Nat /\ Now.location.to \in Nat
        /\ Now.labels \in Seq([from : Nat, to : Nat, text : STRING])
    BY <1>1, PrintingFacts DEF Early
  <2>2. CASE labels = 0
    BY <2>1, <2>2 DEF MarkedSpan
  <2>3. CASE labels # 0
    <3>1. ASSUME NEW T, NEW q \in Seq(T), NEW k \in 1..Len(q) PROVE q[k] \in T
      OBVIOUS
    <3>2. labels \in 1..Len(Now.labels)
      BY <1>1, <2>1, <2>3
    <3>3. Now.labels[labels] \in [from : Nat, to : Nat, text : STRING]
      BY <2>1, <3>1, <3>2
    <3> QED
      BY <2>3, <3>3 DEF MarkedSpan
  <2> QED
    BY <2>2, <2>3
<1>3. /\ Start(MarkedSpan) \in 0..Size /\ End(MarkedSpan) \in 0..Size
      /\ Start(MarkedSpan) <= End(MarkedSpan) /\ Size \in Nat
  BY <1>1, <1>2, SpanInBuffer, BuiltFacts
<1>4. /\ sn.startLine \in 1..Len(LineStarts) /\ sn.endLine \in 1..Len(LineStarts)
      /\ sn.startLine <= sn.endLine /\ Len(LineStarts) \in Nat
  BY <1>1, <1>3, LineStartsItself, LineOfMonotone, BuiltFacts DEF Covers
<1>5. sn.line \in Nat /\ sn.last \in Nat
  BY <1>1, <1>4 DEF AtLine
<1>6. countLines = Len(LineStarts)
  BY <1>1, CountLines
<1> QED
  BY <1>1, <1>2, <1>4, <1>5, <1>6

\* A snippet is opened.
LEMMA OpenFacts ==
    ASSUME Inv, LocalsInv, MainSnippet \/ LabelSnippet
    PROVE  /\ PrintFrame /\ current' = current /\ phase \in {"main", "labels"}
           /\ labels' = (IF phase = "main" THEN labels ELSE labels + 1)
           /\ labels \in Nat /\ (phase = "main" => labels = 0)
           /\ Now' = Now /\ HasSpan(Now)' = HasSpan(Now)
           /\ current \in DOMAIN Diagnostics
           /\ \E rows : /\ Write(rows) /\ RowSeq(rows)
                        /\ \A k \in DOMAIN rows : rows[k].row = "border"
           /\ Size = 0 => phase' = "labels"
           /\ Size # 0 => phase' = "lines" /\ Locals(sn)' /\ (sn.line = Begin(sn))'
           /\ labels' = 0 => HasSpan(Now)
<1>1. /\ PrintFrame /\ current' = current /\ phase \in {"main", "labels"}
      /\ labels' = (IF phase = "main" THEN labels ELSE labels + 1)
      /\ phase = "main" <=> MainSnippet
  BY DEF MainSnippet, LabelSnippet, PrintFrame
<1>2. /\ labels \in Nat /\ (phase = "main" => labels = 0)
      /\ phase \notin Early /\ current \in DOMAIN Diagnostics
      /\ Built /\ LocationsRight /\ Now \in Diagnostic
  <2>1. phase \in Underway /\ phase \notin Early
    BY <1>1 DEF Underway, Early
  <2> QED
    BY <2>1, PrintingFacts DEF Inv, PrintInv
<1>3. /\ Now' = Now /\ HasSpan(Now)' = HasSpan(Now) /\ MainCaption' = MainCaption
      /\ Size' = Size /\ Newlines' = Newlines /\ countLines' = countLines
      /\ MarkedSpan' = (IF phase = "main" THEN Now.location ELSE Now.labels[labels'])
  BY <1>1, <1>2 DEF PrintFrame, Now, HasSpan, MainCaption, Size, Newlines, countLines,
                    MarkedSpan
<1> DEFINE span == MarkedSpan'
           border == phase = "main" \/ ~HasSpan(Now)
           mark == IF phase = "main" THEN "^" ELSE "-"
           caption == IF phase = "main" THEN MainCaption ELSE Now.labels[labels'].text
           skip == IF phase # "main" /\ HasSpan(Now) THEN MainCtxEndLine ELSE 0
           s == Snippet(span, border, mark, caption, skip)
<1>4. OpenSnippet(span, border, border, mark, caption, skip)
  <2>1. CASE MainSnippet
    BY <1>1, <1>3, <2>1 DEF MainSnippet
  <2>2. CASE LabelSnippet /\ HasSpan(Now)
    BY <1>1, <1>3, <2>2 DEF LabelSnippet
  <2>3. CASE LabelSnippet /\ ~HasSpan(Now)
    BY <1>1, <1>3, <2>3 DEF LabelSnippet
  <2> QED
    BY <2>1, <2>2, <2>3
<1>5. span.from \in Nat /\ span.to \in Nat /\ Now.location.to \in Nat
  <2>1. /\ Now.location.from \in Nat /\ Now.location.to \in Nat
        /\ Now.labels \in Seq([from : Nat, to : Nat, text : STRING])
    BY <1>2, PrintingFacts
  <2>2. CASE phase = "main"
    BY <1>3, <2>1, <2>2
  <2>3. CASE phase # "main"
    <3>1. labels' = labels + 1 /\ labels < Len(Now.labels)
      BY <1>1, <2>3 DEF LabelSnippet
    <3>2. ASSUME NEW T, NEW q \in Seq(T), NEW k \in 1..Len(q) PROVE q[k] \in T
      OBVIOUS
    <3>3. labels' \in 1..Len(Now.labels)
      BY <1>2, <2>1, <3>1
    <3>4. Now.labels[labels'] \in [from : Nat, to : Nat, text : STRING]
      BY <2>1, <3>2, <3>3
    <3> QED
      BY <1>3, <2>1, <2>3, <3>4
  <2> QED
    BY <2>2, <2>3
<1>6. MainCtxEndLine = Least(countLines, LineOf(Now.location.to) + 1)
  BY <1>2, <1>5 DEF MainCtxEndLine, LocationsRight, LocationOf
<1>7. /\ s.startLine = LineOf(Start(span)) /\ s.endLine = LineOf(End(span))
      /\ s.line = (IF border /\ s.startLine > 1 THEN s.startLine - 1 ELSE s.startLine)
      /\ s.last = Least(countLines, s.endLine + 1) /\ s.gutter = digitWidth[s.last]
      /\ s.mark = mark /\ s.caption = caption /\ s.skip = skip
      /\ s.line \in Int
  <2> DEFINE a == Start(span)
             b == End(span)
  <2>1. a \in 0..Size /\ b \in 0..Size /\ a \in Nat /\ b \in Nat
    BY <1>2, <1>5, SpanInBuffer, BuiltFacts
  <2>2. getLocation(a).line = LineOf(a) /\ getLocation(b).line = LineOf(b)
        /\ LineOf(a) \in Nat
    BY <1>2, <2>1, LineStartsItself DEF LocationsRight, LocationOf
  <2> HIDE DEF a, b, span, border, mark, caption, skip
  <2>3. s = [line |-> IF border /\ getLocation(a).line > 1 THEN getLocation(a).line - 1
                      ELSE getLocation(a).line,
             off |-> s.off, startLine |-> getLocation(a).line,
             endLine |-> getLocation(b).line, startCol |-> s.startCol,
             endCol |-> s.endCol, last |-> Least(countLines, getLocation(b).line + 1),
             gutter |-> digitWidth[Least(countLines, getLocation(b).line + 1)],
             mark |-> mark, caption |-> caption, skip |-> skip]
    BY DEF Snippet, a, b
  <2> HIDE DEF s
  <2> QED
    BY <2>2, <2>3 DEF a, b
<1>8. \E rows : /\ Write(rows) /\ RowSeq(rows)
                /\ \A k \in DOMAIN rows : rows[k].row = "border"
  <2>1. CASE Size = 0
    <3>1. RowSeq(<<>>) /\ DOMAIN <<>> = {}
      BY RowSeqs
    <3>2. out' = out \o <<>>
      <4>1. PICK S : out \in Seq(S)
        BY DEF Inv, RowsShown
      <4>2. out' = out
        BY <1>4, <2>1 DEF OpenSnippet
      <4> QED
        BY <4>1, <4>2
    <3> QED
      BY <3>1, <3>2 DEF Write
  <2>2. CASE Size # 0
    <3>1. Write(IF border THEN <<BorderRow(s.gutter)>> ELSE <<>>)
      BY <1>4, <2>2 DEF OpenSnippet
    <3>2. \A g : RowSeq(<<BorderRow(g)>>) /\ DOMAIN <<BorderRow(g)>> = {1}
                /\ <<BorderRow(g)>>[1].row = "border"
      BY RowSeqs DEF BorderRow
    <3>3. RowSeq(<<>>) /\ DOMAIN <<>> = {}
      BY RowSeqs
    <3> HIDE DEF s, border
    <3> QED
      BY <3>1, <3>2, <3>3
  <2> QED
    BY <2>1, <2>2
<1>9. ASSUME Size # 0
      PROVE  phase' = "lines" /\ Locals(sn)' /\ (sn.line = Begin(sn))'
  <2>1. phase' = "lines" /\ sn' = s
    BY <1>4, <1>9 DEF OpenSnippet
  <2>2. labels' = 0 <=> phase = "main"
    BY <1>1, <1>2
  <2>3. Skip' = skip
    <3>1. Skip' = IF labels' # 0 /\ HasSpan(Now)
                  THEN Least(countLines, LineOf(Now.location.to) + 1) ELSE 0
      BY <1>3 DEF Skip, LineOf
    <3> QED
      BY <1>6, <2>2, <3>1
  <2>4. border <=> labels' = 0 \/ ~HasSpan(Now)
    BY <2>2
  <2> HIDE DEF s, span, border
  <2>5. Begin(sn)' = s.line
    BY <1>3, <1>7, <2>1, <2>4 DEF Begin
  <2>6. (Locals(sn))'
    BY <1>3, <1>7, <2>1, <2>2, <2>3, <2>5 DEF Locals
  <2> QED
    BY <2>1, <2>5, <2>6
<1>10. Size = 0 => phase' = "labels"
  BY <1>4 DEF OpenSnippet
<1>11. labels' = 0 => HasSpan(Now)
  BY <1>1, <1>2 DEF LocalsInv
<1> QED
  BY <1>1, <1>2, <1>3, <1>8, <1>9, <1>10, <1>11

\* The rows of one round of the loop.
TextNow ==
    TextRow(sn.line, sn.off, findLineEnd(sn.off), sn.gutter - digitWidth[sn.line])
MarkNow == Marks(findLineEnd(sn.off))
Shown == ~(sn.skip # 0 /\ sn.line = sn.skip)
LineRows ==
    IF Shown THEN IF InSpan THEN <<TextNow, MarkNow>> ELSE <<TextNow>>
    ELSE IF InSpan THEN <<MarkNow>> ELSE <<>>

LEMMA LineFacts ==
    ASSUME Inv, LocalsInv, PrintLine
    PROVE  /\ PrintFrame /\ current' = current /\ labels' = labels /\ phase = "lines"
           /\ Now' = Now /\ HasSpan(Now)' = HasSpan(Now) /\ sn.line <= sn.last
           /\ Write(LineRows) /\ RowSeq(LineRows)
           /\ \/ /\ phase' = "lines" /\ sn'.line = sn.line + 1
                 /\ Locals(sn)'
                 /\ sn'.startLine = sn.startLine /\ sn'.endLine = sn.endLine
              \/ phase' = "labels" /\ sn' = sn /\ sn.line = Len(LineStarts)
<1> DEFINE to == findLineEnd(sn.off)
<1>1. /\ PrintFrame /\ current' = current /\ labels' = labels /\ phase = "lines"
      /\ sn.line <= sn.last
  BY DEF PrintLine, PrintFrame, smVars
<1>2. /\ Now' = Now /\ HasSpan(Now)' = HasSpan(Now) /\ MainCaption' = MainCaption
      /\ Size' = Size /\ Newlines' = Newlines /\ countLines' = countLines
  BY <1>1 DEF PrintFrame, Now, HasSpan, MainCaption, Size, Newlines, countLines
<1>3. Write(LineRows) /\ RowSeq(LineRows)
  <2>1. /\ <<>> \o <<>> = <<>> /\ <<TextNow>> \o <<>> = <<TextNow>>
        /\ <<>> \o <<MarkNow>> = <<MarkNow>>
        /\ <<TextNow>> \o <<MarkNow>> = <<TextNow, MarkNow>>
    BY ShortRows
  <2>2. Write((IF sn.skip # 0 /\ sn.line = sn.skip THEN <<>> ELSE <<TextNow>>)
              \o IF InSpan THEN <<MarkNow>> ELSE <<>>)
    BY DEF PrintLine, TextNow, MarkNow
  <2>3. Write(LineRows)
    BY <2>1, <2>2 DEF LineRows, Shown
  <2> QED
    BY <2>3, RowSeqs DEF LineRows
<1>4. /\ Built /\ AtLine(sn) /\ Whole(sn) /\ sn.line \in Nat /\ sn.last \in Nat
      /\ Len(LineStarts) \in Nat /\ Size \in Nat
  BY <1>1, LoopFacts, BuiltFacts
<1>5. /\ sn.off \in 0..Size /\ sn.line \in DOMAIN LineStarts
      /\ sn.off = LineStarts[sn.line]
  BY <1>1, <1>4, BuiltFacts DEF AtLine
<1>6. CASE to >= Size
  <2>1. to = Size
    BY <1>4, <1>5, <1>6, FindLineEnd
  <2>2. LineOf(Size) = sn.line
    BY <1>4, <1>5, <2>1, LineExtent
  <2>3. phase' = "labels" /\ sn' = sn
    BY <1>6 DEF PrintLine
  <2> QED
    BY <1>1, <1>2, <1>3, <1>4, <2>2, <2>3, BuiltFacts
<1>7. CASE ~(to >= Size)
  <2>1. sn' = [sn EXCEPT !.off = to + 1, !.line = @ + 1] /\ phase' = "lines"
    BY <1>1, <1>7 DEF PrintLine
  <2>2. /\ sn'.line = sn.line + 1 /\ sn'.gutter = sn.gutter /\ sn'.last = sn.last
        /\ sn'.endLine = sn.endLine /\ sn'.startLine = sn.startLine
        /\ sn'.mark = sn.mark /\ sn'.caption = sn.caption /\ sn'.skip = sn.skip
    BY <1>4, <2>1 DEF Whole
  <2>3. Skip' = Skip
    BY <1>1, <1>2 DEF Skip, LineOf
  <2>4. Begin(sn)' = Begin(sn)
    BY <1>1, <1>2, <2>2 DEF Begin
  <2>5. Locals(sn)
    BY <1>1 DEF LocalsInv
  <2>6. Begin(sn) \in Int
    BY <1>1, LoopFacts DEF Begin
  <2>7. Locals(sn)'
    BY <1>1, <1>2, <1>4, <2>2, <2>3, <2>4, <2>5, <2>6 DEF Locals
  <2> QED
    BY <1>1, <1>2, <1>3, <2>1, <2>2, <2>7
<1> QED
  BY <1>6, <1>7

\* The step that prints the title, and the one that prints what is left.
LEMMA TitleFacts ==
    ASSUME Inv, PrintTitle
    PROVE  /\ PrintFrame /\ current' = current /\ labels' = 0 /\ phase = "title"
           /\ current \in DOMAIN Diagnostics /\ Now' = Now
           /\ HasSpan(Now)' = HasSpan(Now)
           /\ phase' = (IF HasSpan(Now) THEN "main" ELSE "labels")
           /\ \E rows : /\ Write(rows) /\ RowSeq(rows) /\ 1 \in DOMAIN rows
                        /\ rows[1] = TitleRow(Now)
                        /\ \A k \in DOMAIN rows :
                               k # 1 => rows[k].row \in {"file", "place"}
<1>1. /\ PrintFrame /\ current' = current /\ labels' = 0 /\ phase = "title"
      /\ phase' = (IF HasSpan(Now) THEN "main" ELSE "labels")
      /\ current <= Len(Diagnostics)
  BY DEF PrintTitle, PrintFrame
<1>2. current \in DOMAIN Diagnostics
  BY <1>1 DEF Inv, PrintInv, CollectInv
<1>3. Now' = Now /\ HasSpan(Now)' = HasSpan(Now)
  BY <1>1 DEF Now, HasSpan, PrintFrame
<1>4. Now \in Diagnostic
  BY <1>1, <1>2, PrintingFacts DEF Early
<1> DEFINE p == PlaceRow(getLocation(Now.location.from))
<1>5. PICK place \in {<<>>, <<FileRow>>, <<p>>} : Write(<<TitleRow(Now)>> \o place)
  <2>1. Now.location.kind \in {"None", "File", "Span"}
    BY <1>4 DEF Diagnostic, Location
  <2>2. CASE Now.location.kind = "None"
    BY <2>2 DEF PrintTitle
  <2>3. CASE Now.location.kind = "File"
    BY <2>3 DEF PrintTitle
  <2>4. CASE Now.location.kind = "Span"
    BY <2>4 DEF PrintTitle
  <2> QED
    BY <2>1, <2>2, <2>3, <2>4
<1>6. \A rest \in {<<>>, <<FileRow>>, <<p>>} :
          <<TitleRow(Now)>> \o rest
              \in {<<TitleRow(Now)>>, <<TitleRow(Now), FileRow>>, <<TitleRow(Now), p>>}
  BY ShortRows
<1>7. FileRow.row = "file" /\ p.row = "place"
  BY DEF FileRow, PlaceRow
<1> HIDE DEF p
<1>8. \A rows \in {<<TitleRow(Now)>>, <<TitleRow(Now), FileRow>>, <<TitleRow(Now), p>>} :
          /\ RowSeq(rows) /\ 1 \in DOMAIN rows /\ rows[1] = TitleRow(Now)
          /\ \A k \in DOMAIN rows : k # 1 => rows[k].row \in {"file", "place"}
  BY <1>7, RowSeqs
<1> QED
  BY <1>1, <1>2, <1>3, <1>5, <1>6, <1>8

\* The rows behind the snippets.
RestRows(d) == Len(d.notes) + Len(Remaining(d.helps))
LEMMA RestFacts ==
    ASSUME Inv, PrintRest
    PROVE  /\ PrintFrame /\ current' = current + 1 /\ labels' = labels
           /\ phase = "labels" /\ phase' = "title" /\ current \in DOMAIN Diagnostics
           /\ current \in Nat /\ Now \in Diagnostic /\ labels = Len(Now.labels)
           /\ Len(Now.notes) \in Nat /\ Len(Remaining(Now.helps)) \in Nat
           /\ \E rows : /\ Write(rows) /\ RowSeq(rows)
                        /\ RestRows(Now) <= Len(rows) /\ Len(rows) \in Nat
                        /\ \A k \in 1..Len(Now.notes) : rows[k] = NoteRow(Now.notes[k])
                        /\ \A k \in 1..Len(Remaining(Now.helps)) :
                               rows[Len(Now.notes) + k] = HelpRow(Remaining(Now.helps)[k])
                        /\ \A k \in (RestRows(Now) + 1)..Len(rows) : rows[k].row = "ice"
<1> DEFINE notes == [k \in DOMAIN Now.notes |-> NoteRow(Now.notes[k])]
           rest == Remaining(Now.helps)
           helps == [k \in DOMAIN rest |-> HelpRow(rest[k])]
           banner == IF Now.ice THEN <<IceRow>> ELSE <<>>
           rows == notes \o helps \o banner
<1>1. /\ PrintFrame /\ current' = current + 1 /\ labels' = labels
      /\ phase = "labels" /\ phase' = "title" /\ labels = Len(Now.labels)
      /\ Write(rows)
  BY DEF PrintRest, PrintFrame, smVars, RowsOf
<1>2. /\ phase \notin Early /\ phase \in Underway /\ current \in DOMAIN Diagnostics
      /\ current \in Nat
  BY <1>1 DEF Early, Underway, Inv, PrintInv
<1>3. /\ Now.notes \in Seq(STRING) /\ Now.helps \in Seq(STRING) /\ Now \in Diagnostic
  BY <1>2, PrintingFacts
<1>4. Remaining(Now.helps) \in Seq(STRING)
  <2>1. CASE Now.helps = <<>>
    BY <2>1 DEF Remaining
  <2>2. CASE Now.helps # <<>>
    BY <1>3, <2>2, HeadTailProperties DEF Remaining
  <2> QED
    BY <2>1, <2>2
<1>5. ASSUME NEW texts \in Seq(STRING), NEW r, r = [k \in DOMAIN texts |-> r[k]]
      PROVE  RowSeq(r) /\ Len(r) = Len(texts)
  <2> DEFINE S == {r[k] : k \in DOMAIN texts}
  <2>1. DOMAIN texts = 1..Len(texts) /\ Len(texts) \in Nat
    OBVIOUS
  <2>2. r \in [1..Len(texts) -> S]
    BY <1>5, <2>1
  <2> HIDE DEF S
  <2>3. r \in Seq(S) /\ Len(r) = Len(texts)
    BY <2>1, <2>2
  <2> QED
    BY <2>3 DEF RowSeq
<1>6. /\ RowSeq(notes) /\ Len(notes) = Len(Now.notes)
      /\ \A k \in 1..Len(Now.notes) : notes[k] = NoteRow(Now.notes[k])
      /\ RowSeq(helps) /\ Len(helps) = Len(rest)
      /\ \A k \in 1..Len(rest) : helps[k] = HelpRow(rest[k])
      /\ Len(Now.notes) \in Nat /\ Len(rest) \in Nat
  <2>1. /\ DOMAIN Now.notes = 1..Len(Now.notes) /\ Len(Now.notes) \in Nat
        /\ DOMAIN rest = 1..Len(rest) /\ Len(rest) \in Nat /\ rest \in Seq(STRING)
    BY <1>3, <1>4
  <2>2. /\ \A k \in 1..Len(Now.notes) : notes[k] = NoteRow(Now.notes[k])
        /\ notes = [k \in DOMAIN Now.notes |-> notes[k]]
    BY <2>1
  <2> HIDE DEF rest
  <2>3. /\ \A k \in 1..Len(rest) : helps[k] = HelpRow(rest[k])
        /\ helps = [k \in DOMAIN rest |-> helps[k]]
    BY <2>1
  <2> HIDE DEF notes, helps
  <2> QED
    BY <1>3, <1>5, <2>1, <2>2, <2>3
<1>7. RowSeq(banner) /\ Len(banner) \in Nat /\ \A k \in 1..Len(banner) : banner[k].row = "ice"
  <2>1. <<IceRow>>[1].row = "ice" /\ Len(<<IceRow>>) = 1 /\ RowSeq(<<IceRow>>)
    BY RowSeqs DEF IceRow
  <2> QED
    BY <2>1, RowSeqs
<1> DEFINE a == Len(Now.notes)
           b == Len(rest)
           c == Len(banner)
           both == notes \o helps
<1>8. /\ RowSeq(both) /\ Len(both) = a + b
      /\ \A k \in 1..a : both[k] = notes[k]
      /\ \A k \in 1..b : both[a + k] = helps[k]
  <2> HIDE DEF notes, helps, rest
  <2> QED
    BY <1>6, Joined
<1>9. /\ RowSeq(rows) /\ Len(rows) = a + b + c
      /\ \A k \in 1..(a + b) : rows[k] = both[k]
      /\ \A k \in 1..c : rows[a + b + k] = banner[k]
  <2>1. rows = both \o banner
    OBVIOUS
  <2> HIDE DEF rows, both, banner, rest, notes, helps
  <2>2. RowSeq(both) /\ RowSeq(banner)
    BY <1>7, <1>8
  <2>3. /\ RowSeq(both \o banner) /\ Len(both \o banner) = Len(both) + Len(banner)
        /\ \A k \in 1..Len(both) : (both \o banner)[k] = both[k]
        /\ \A k \in 1..Len(banner) : (both \o banner)[Len(both) + k] = banner[k]
    BY <2>2, Joined
  <2>4. Len(both) = a + b /\ Len(banner) = c
    BY <1>8
  <2> HIDE DEF a, b, c
  <2> QED
    BY <2>1, <2>3, <2>4
<1>10. a \in Nat /\ b \in Nat /\ c \in Nat /\ RestRows(Now) = a + b
  BY <1>6, <1>7 DEF RestRows
<1>11. /\ \A k \in 1..a : notes[k] = NoteRow(Now.notes[k])
       /\ \A k \in 1..b : helps[k] = HelpRow(rest[k])
       /\ \A k \in 1..c : banner[k].row = "ice"
  BY <1>6, <1>7
<1> HIDE DEF rows, both, banner, notes, helps, a, b, c
<1>12. ASSUME NEW k \in (a + b + 1)..Len(rows) PROVE rows[k].row = "ice"
  <2> DEFINE j == k - (a + b)
  <2>1. j \in 1..c /\ k = a + b + j
    BY <1>9, <1>10
  <2> HIDE DEF j
  <2> QED
    BY <1>9, <1>11, <2>1
<1>13. ASSUME NEW k \in 1..a PROVE rows[k] = NoteRow(Now.notes[k])
  <2>1. k \in 1..(a + b)
    BY <1>10
  <2> QED
    BY <1>8, <1>9, <1>11, <2>1
<1>14. ASSUME NEW k \in 1..b PROVE rows[a + k] = HelpRow(rest[k])
  <2>1. a + k \in 1..(a + b)
    BY <1>10
  <2> QED
    BY <1>8, <1>9, <1>11, <2>1
<1>15. Write(rows) /\ RowSeq(rows) /\ a + b <= Len(rows) /\ Len(rows) \in Nat
  BY <1>1, <1>9, <1>10
<1> QED
  BY <1>1, <1>2, <1>3, <1>6, <1>10, <1>12, <1>13, <1>14, <1>15 DEF a, b, rest

\* The other steps are not that of a title.
LEMMA NotATitle ==
    ASSUME Inv, Silent \/ MainSnippet \/ LabelSnippet \/ PrintLine \/ PrintRest
    PROVE  ~PrintTitle
<1>1. CASE UNCHANGED vars
  <2>1. ~PrintTitle
    BY <1>1 DEF PrintTitle, vars, deVars
  <2> QED
    BY <2>1
<1>2. CASE ~UNCHANGED vars
  BY <1>2 DEF Silent, EmitSimple, MakeSourceManager, BuildLineIndex,
       WithSourceManager, Emit, PrintAll, PrintedAll, EndSnippet, deVars,
       MainSnippet, LabelSnippet, PrintLine, PrintRest, PrintTitle
<1> QED
  BY <1>1, <1>2

\* Each line of output is where it was, and what is new is one of these.
LEMMA NewRows ==
    ASSUME Inv, LocalsInv, [Next]_vars
    PROVE  \E rows :
               /\ RowSeq(out) /\ RowSeq(rows) /\ Write(rows)
               /\ PrintTitle => 1 \in DOMAIN rows /\ rows[1] = TitleRow(Now)
               /\ \A k \in DOMAIN rows :
                      \/ rows[k].row \notin {"text", "title"}
                      \/ PrintTitle /\ k = 1
                      \/ PrintLine /\ rows[k] = TextNow
<1>0. RowSeq(out)
  BY DEF Inv, RowsShown, RowSeq
<1>1. CASE Silent
  <2>1. Write(<<>>)
    <3>1. PICK S : out \in Seq(S)
      BY <1>0 DEF RowSeq
    <3> QED
      BY <1>1, <3>1, SilentFacts, ConcatEmptySeq DEF Write
  <2> QED
    BY <1>0, <1>1, <2>1, RowSeqs, NotATitle
<1>2. CASE PrintTitle
  <2>1. PICK rows : /\ Write(rows) /\ RowSeq(rows) /\ 1 \in DOMAIN rows
                    /\ rows[1] = TitleRow(Now)
                    /\ \A k \in DOMAIN rows : k # 1 => rows[k].row \in {"file", "place"}
    BY <1>2, TitleFacts
  <2>2. \A k \in DOMAIN rows : k = 1 \/ rows[k].row \notin {"text", "title"}
    BY <2>1
  <2> QED
    BY <1>0, <1>2, <2>1, <2>2
<1>3. CASE MainSnippet \/ LabelSnippet
  <2>1. PICK rows : /\ Write(rows) /\ RowSeq(rows)
                    /\ \A k \in DOMAIN rows : rows[k].row = "border"
    BY <1>3, OpenFacts
  <2> QED
    BY <1>0, <1>3, <2>1, NotATitle
<1>4. CASE PrintLine
  <2>1. Write(LineRows) /\ RowSeq(LineRows)
    BY <1>4, LineFacts
  <2>2. MarkNow.row = "mark"
    BY DEF MarkNow, Marks, MarkRow
  <2>3. \A k \in DOMAIN LineRows : LineRows[k] = TextNow \/ LineRows[k] = MarkNow
    BY DEF LineRows
  <2>4. \A k \in DOMAIN LineRows :
            LineRows[k].row \notin {"text", "title"} \/ LineRows[k] = TextNow
    BY <2>2, <2>3
  <2> HIDE DEF LineRows
  <2> QED
    BY <1>0, <1>4, <2>1, <2>4, NotATitle
<1>5. CASE PrintRest
  <2> DEFINE a == Len(Now.notes)
             b == Len(Remaining(Now.helps))
  <2>1. PICK rows : /\ Write(rows) /\ RowSeq(rows) /\ RestRows(Now) <= Len(rows)
                    /\ Len(rows) \in Nat
                    /\ \A k \in 1..a : rows[k] = NoteRow(Now.notes[k])
                    /\ \A k \in 1..b : rows[a + k] = HelpRow(Remaining(Now.helps)[k])
                    /\ \A k \in (RestRows(Now) + 1)..Len(rows) : rows[k].row = "ice"
    BY <1>5, RestFacts
  <2>2. a \in Nat /\ b \in Nat /\ RestRows(Now) = a + b
    BY <1>5, RestFacts DEF RestRows
  <2>3. DOMAIN rows = 1..Len(rows)
    BY <2>1, RowDomain
  <2>4. \A t : NoteRow(t).row = "note" /\ HelpRow(t).row = "help"
    BY DEF NoteRow, HelpRow
  <2> HIDE DEF a, b
  <2>5. ASSUME NEW k \in 1..Len(rows) PROVE rows[k].row \notin {"text", "title"}
    <3>1. CASE k <= a
      BY <2>1, <2>4, <3>1
    <3>2. CASE a < k /\ k <= a + b
      <4>1. k - a \in 1..b /\ k = a + (k - a)
        BY <2>2, <3>2
      <4>2. rows[a + (k - a)].row = "help"
        BY <2>1, <2>4, <4>1
      <4> QED
        BY <4>1, <4>2
    <3>3. CASE a + b < k
      <4>1. k \in (RestRows(Now) + 1)..Len(rows)
        BY <2>1, <2>2, <3>3
      <4> QED
        BY <2>1, <4>1
    <3> QED
      BY <2>2, <3>1, <3>2, <3>3
  <2> QED
    BY <1>0, <1>5, <2>1, <2>3, <2>5, NotATitle
<1> QED
  BY <1>1, <1>2, <1>3, <1>4, <1>5, Steps

-----------------------------------------------------------------------------
(* The gutter.                                                             *)

LEMMA LocalsNext ==
    ASSUME Inv, LocalsInv, [Next]_vars
    PROVE  LocalsInv'
<1>1. CASE Silent
  <2>1. CASE UNCHANGED vars
    BY <2>1 DEF LocalsInv, Locals, Begin, Skip, HasSpan, Now, vars, deVars, smVars, Size,
                Newlines, countLines, LineOf, MainCaption
  <2>2. CASE ~UNCHANGED vars
    <3>1. phase' \notin {"main", "lines"}
      BY <1>1, <2>2 DEF Silent, EmitSimple, MakeSourceManager, BuildLineIndex,
             WithSourceManager, Emit, PrintAll, PrintedAll, EndSnippet, deVars
    <3> QED
      BY <3>1 DEF LocalsInv
  <2> QED
    BY <2>1, <2>2
<1>2. CASE PrintTitle
  BY <1>2, TitleFacts DEF LocalsInv
<1>3. CASE MainSnippet \/ LabelSnippet
  BY <1>3, OpenFacts DEF LocalsInv
<1>4. CASE PrintLine
  BY <1>4, LineFacts DEF LocalsInv
<1>5. CASE PrintRest
  BY <1>5, RestFacts DEF LocalsInv
<1> QED
  BY <1>1, <1>2, <1>3, <1>4, <1>5, Steps

\* The locals of printSnippet belong to the span that is printed.
THEOREM LocalsKept == Spec => [](Inv /\ LocalsInv)
<1>1. Init => LocalsInv
  BY DEF Init, LocalsInv
<1>2. Inv /\ LocalsInv /\ [Next]_vars => (Inv /\ LocalsInv)'
  BY InvNext, LocalsNext
<1> QED
  BY <1>1, <1>2, InvInit, PTL DEF Spec

LEMMA PadFits ==
    ASSUME Inv, LocalsInv, PrintLine
    PROVE  TextNow.pad >= 0
<1>1. /\ phase = "lines" /\ sn.line <= sn.last /\ sn.gutter = digitWidth[sn.last]
      /\ sn.line \in Nat /\ sn.last \in Nat
  BY LineFacts, LoopFacts DEF LocalsInv, Locals
<1>2. TextNow.pad = digitWidth[sn.last] - digitWidth[sn.line]
  BY <1>1 DEF TextNow, TextRow
<1>3. digitWidth[sn.line] <= digitWidth[sn.last]
  BY <1>1, DigitWidthMonotone
<1>4. digitWidth[sn.line] \in Nat /\ digitWidth[sn.last] \in Nat
  BY <1>1, DigitWidth
<1> QED
  BY <1>2, <1>3, <1>4

\* The number of a line never needs more digits than the gutter has, whatever the
\* spans: the subtraction of printSnippet does not wrap (DiagnosticEngine.cpp:148).
THEOREM GutterNeverShort == Spec => []GutterHolds
<1>1. Init => GutterHolds
  BY DEF Init, GutterHolds
<1>2. ASSUME Inv, LocalsInv, GutterHolds, [Next]_vars
      PROVE  GutterHolds'
  <2>1. PICK rows : /\ RowSeq(out) /\ RowSeq(rows) /\ Write(rows)
                    /\ \A k \in DOMAIN rows : \/ rows[k].row # "text"
                                              \/ PrintLine /\ rows[k] = TextNow
    <3>1. PICK rows : /\ RowSeq(out) /\ RowSeq(rows) /\ Write(rows)
                      /\ PrintTitle => 1 \in DOMAIN rows /\ rows[1] = TitleRow(Now)
                      /\ \A k \in DOMAIN rows : \/ rows[k].row \notin {"text", "title"}
                                                \/ PrintTitle /\ k = 1
                                                \/ PrintLine /\ rows[k] = TextNow
      BY <1>2, NewRows
    <3>2. TitleRow(Now).row # "text"
      BY DEF TitleRow
    <3> QED
      BY <3>1, <3>2
  <2>2. \A k \in DOMAIN rows : rows[k].row = "text" => rows[k].pad >= 0
    BY <1>2, <2>1, PadFits
  <2>3. ASSUME NEW k \in DOMAIN out', out'[k].row = "text" PROVE out'[k].pad >= 0
    <3>1. CASE k \in DOMAIN out
      BY <1>2, <2>1, <2>3, <3>1, Written DEF GutterHolds
    <3>2. CASE k \notin DOMAIN out
      <4>1. k - Len(out) \in DOMAIN rows /\ out'[k] = rows[k - Len(out)]
        BY <2>1, <3>2, AddedRow
      <4> QED
        BY <2>2, <2>3, <4>1
    <3> QED
      BY <3>1, <3>2
  <2> QED
    BY <2>3 DEF GutterHolds
<1>3. Inv /\ LocalsInv /\ GutterHolds /\ [Next]_vars => GutterHolds'
  BY <1>2
<1> QED
  BY <1>1, <1>3, LocalsKept, PTL DEF Spec

-----------------------------------------------------------------------------
(* The order of the diagnostics.                                           *)

\* What has been collected is what has been reported so far.
CollectedInv ==
    /\ phase = "simple" => /\ Diagnostics = <<>> /\ Len(Simple) = emitted
                           /\ emitted <= Len(script.simple)
                           /\ \A k \in 1..emitted : Simple[k] = script.simple[k]
    /\ phase = "index" => Simple = script.simple
    /\ phase = "engine" => /\ Len(Diagnostics) = Len(script.simple) + emitted
                           /\ \A k \in 1..Len(Diagnostics) : Diagnostics[k] = Reported[k]
    /\ phase \notin Early \cup {"engine"} => Diagnostics = Reported

\* How many titles have been printed.
Done ==
    IF phase \in Early \cup {"engine"} THEN 0
    ELSE IF phase = "title" THEN current - 1
    ELSE IF phase = "done" THEN Len(Diagnostics) ELSE current

TitlesInv ==
    /\ phase = "title" => current <= Len(Diagnostics) + 1
    /\ Cardinality(Titles) = Done
    /\ \A k \in Titles : out[k] = TitleRow(Reported[Nth(Titles, k)])

OrderInv == CollectedInv /\ TitlesInv

LEMMA ReportedFacts ==
    ASSUME Inv
    PROVE  /\ script.simple \in Seq(Diagnostic) /\ script.direct \in Seq(Diagnostic)
           /\ Reported \in Seq(Diagnostic)
           /\ Len(script.simple) \in Nat /\ Len(script.direct) \in Nat
           /\ Len(Reported) = Len(script.simple) + Len(script.direct)
           /\ \A k \in 1..Len(script.simple) : Reported[k] = script.simple[k]
           /\ \A k \in 1..Len(script.direct) :
                  Reported[Len(script.simple) + k] = script.direct[k]
<1>1. script.simple \in Seq(Diagnostic) /\ script.direct \in Seq(Diagnostic)
  BY ScriptAssumption DEF Inv, CollectInv
<1> DEFINE a == script.simple
           b == script.direct
<1> HIDE DEF a, b
<1>2. /\ a \o b \in Seq(Diagnostic) /\ Len(a) \in Nat /\ Len(b) \in Nat
      /\ Len(a \o b) = Len(a) + Len(b)
      /\ \A k \in 1..Len(a) : (a \o b)[k] = a[k]
      /\ \A k \in 1..Len(b) : (a \o b)[Len(a) + k] = b[k]
  <2>1. a \in Seq(Diagnostic) /\ b \in Seq(Diagnostic)
    BY <1>1 DEF a, b
  <2>2. RowSeq(a) /\ RowSeq(b) /\ a \o b \in Seq(Diagnostic)
    BY <2>1, ConcatProperties DEF RowSeq
  <2> QED
    BY <2>2, Joined
<1> QED
  BY <1>1, <1>2 DEF Reported, a, b

LEMMA CollectedInit ==
    ASSUME Init
    PROVE  OrderInv
<1>1. /\ phase = "simple" /\ Simple = <<>> /\ Diagnostics = <<>> /\ emitted = 0
      /\ out = <<>>
  BY DEF Init
<1>2. Inv
  BY InvInit
<1>3. CollectedInv
  BY <1>1, <1>2, ReportedFacts DEF CollectedInv, Early
<1>4. Titles = {}
  BY <1>1 DEF Titles
<1>5. TitlesInv
  BY <1>1, <1>4, FS_EmptySet DEF TitlesInv, Done, Early
<1> QED
  BY <1>3, <1>5 DEF OrderInv

LEMMA OpenPhase ==
    ASSUME MainSnippet \/ LabelSnippet
    PROVE  phase' \in {"labels", "lines"} /\ UNCHANGED <<script, Diagnostics, current>>
  BY DEF MainSnippet, LabelSnippet, OpenSnippet

LEMMA ScriptStays ==
    ASSUME [Next]_vars
    PROVE  script' = script
  BY DEF Next, PrintDiagnostic, EmitSimple, MakeSourceManager, BuildLineIndex,
         WithSourceManager, Emit, PrintAll, PrintTitle, PrintedAll, MainSnippet,
         LabelSnippet, PrintLine, EndSnippet, PrintRest, vars, deVars

LEMMA DoneSame ==
    ASSUME Inv, OrderInv, [Next]_vars, ~PrintTitle
    PROVE  Done' = Done /\ (phase' = "title" => current' <= Len(Diagnostics') + 1)
<1>1. /\ phase = "title" => current <= Len(Diagnostics) + 1
      /\ current \in Nat /\ Len(Diagnostics) \in Nat
      /\ phase \in Underway => current \in 1..Len(Diagnostics)
  BY DEF OrderInv, TitlesInv, Inv, PrintInv, CollectInv
<1>2. CASE EmitSimple \/ MakeSourceManager \/ WithSourceManager \/ Emit
  BY <1>2 DEF EmitSimple, MakeSourceManager, WithSourceManager, Emit, Done, Early
<1>3. CASE BuildLineIndex \/ UNCHANGED vars
  <2>1. UNCHANGED <<phase, current, Diagnostics>>
    BY <1>3 DEF BuildLineIndex, vars, deVars
  <2> QED
    BY <1>1, <2>1 DEF Done
<1>4. CASE PrintAll
  BY <1>1, <1>4 DEF PrintAll, Done, Early
<1>5. CASE PrintedAll
  BY <1>1, <1>5 DEF PrintedAll, Done, Early
<1>6. CASE MainSnippet \/ LabelSnippet
  <2>1. phase \in {"main", "labels"}
    BY <1>6 DEF MainSnippet, LabelSnippet
  <2> QED
    BY <1>6, <2>1, OpenPhase DEF Done, Early
<1>7. CASE PrintLine \/ EndSnippet
  BY <1>7 DEF PrintLine, EndSnippet, Done, Early
<1>8. CASE PrintRest
  BY <1>1, <1>8 DEF PrintRest, Done, Early, Underway
<1> QED
  BY <1>2, <1>3, <1>4, <1>5, <1>6, <1>7, <1>8 DEF Next, PrintDiagnostic

LEMMA CollectedNext ==
    ASSUME Inv, CollectedInv, [Next]_vars
    PROVE  CollectedInv'
<1>0. /\ Simple \in Seq(Diagnostic) /\ Diagnostics \in Seq(Diagnostic)
      /\ Len(Simple) \in Nat /\ Len(Diagnostics) \in Nat /\ emitted \in Nat
      /\ script.simple \in Seq(Diagnostic) /\ script.direct \in Seq(Diagnostic)
      /\ Reported \in Seq(Diagnostic)
  <2>1. Len(script.simple) \in Nat /\ Len(script.direct) \in Nat
    BY ReportedFacts
  <2>2. emitted \in Nat
    BY <2>1 DEF Inv, CollectInv
  <2>3. Simple \in Seq(Diagnostic) /\ Diagnostics \in Seq(Diagnostic)
    BY DEF Inv, CollectInv
  <2>4. Len(Simple) \in Nat /\ Len(Diagnostics) \in Nat
    BY <2>3
  <2> QED
    BY <2>2, <2>3, <2>4, ReportedFacts
<1>1. ASSUME script' = script PROVE Reported' = Reported
  BY <1>1 DEF Reported
<1>2. CASE EmitSimple
  <2>1. /\ phase = "simple" /\ emitted < Len(script.simple) /\ phase' = "simple"
        /\ Simple' = Append(Simple, script.simple[emitted + 1])
        /\ emitted' = emitted + 1 /\ Diagnostics' = Diagnostics /\ script' = script
    BY <1>2 DEF EmitSimple
  <2>2. /\ Diagnostics = <<>> /\ Len(Simple) = emitted
        /\ \A k \in 1..emitted : Simple[k] = script.simple[k]
    BY <2>1 DEF CollectedInv
  <2>3. /\ Len(Simple') = emitted + 1 /\ Simple'[emitted + 1] = script.simple[emitted + 1]
        /\ \A k \in 1..emitted : Simple'[k] = Simple[k]
    BY <1>0, <2>1, <2>2
  <2>4. \A k \in 1..(emitted + 1) : Simple'[k] = script.simple[k]
    <3>1. \A k \in 1..(emitted + 1) : k \in 1..emitted \/ k = emitted + 1
      BY <1>0
    <3> QED
      BY <2>2, <2>3, <3>1
  <2>5. emitted + 1 <= Len(script.simple)
    BY <1>0, <2>1, ReportedFacts
  <2> QED
    BY <2>1, <2>2, <2>3, <2>4, <2>5 DEF CollectedInv, Early
<1>3. CASE MakeSourceManager
  <2>1. /\ phase = "simple" /\ emitted = Len(script.simple) /\ phase' = "index"
        /\ Simple' = Simple /\ script' = script
    BY <1>3 DEF MakeSourceManager
  <2>2. Len(Simple) = Len(script.simple) /\ \A k \in 1..Len(Simple) : Simple[k] = script.simple[k]
    BY <2>1 DEF CollectedInv
  <2>3. Simple = script.simple
    BY <1>0, <2>2, SeqEqual
  <2> QED
    BY <2>1, <2>3 DEF CollectedInv, Early
<1>4. CASE WithSourceManager
  <2>1. /\ phase = "index" /\ phase' = "engine" /\ Diagnostics' = Simple
        /\ script' = script /\ emitted' = emitted
    BY <1>4 DEF WithSourceManager
  <2>2. Simple = script.simple /\ emitted = 0
    BY <2>1 DEF CollectedInv, Inv, CollectInv
  <2>3. Len(Diagnostics') = Len(script.simple) + emitted'
    BY <2>1, <2>2, ReportedFacts
  <2>4. \A k \in 1..Len(Diagnostics') : Diagnostics'[k] = Reported[k]
    BY <2>1, <2>2, ReportedFacts
  <2> QED
    BY <1>1, <2>1, <2>3, <2>4 DEF CollectedInv, Early
<1>5. CASE Emit
  <2> DEFINE n == Len(script.simple)
             d == script.direct[emitted + 1]
  <2>1. /\ phase = "engine" /\ emitted < Len(script.direct) /\ phase' = "engine"
        /\ Diagnostics' = Append(Diagnostics, d) /\ emitted' = emitted + 1
        /\ script' = script
    BY <1>5 DEF Emit
  <2>2. /\ Len(Diagnostics) = n + emitted /\ n \in Nat
        /\ \A k \in 1..Len(Diagnostics) : Diagnostics[k] = Reported[k]
    BY <2>1, ReportedFacts DEF CollectedInv
  <2>3. emitted + 1 \in 1..Len(script.direct)
    BY <1>0, <2>1, ReportedFacts
  <2>4. d = Reported[n + (emitted + 1)]
    BY <2>3, ReportedFacts
  <2> HIDE DEF d, n
  <2>5. /\ Len(Diagnostics') = n + (emitted + 1) /\ Diagnostics'[n + (emitted + 1)] = d
        /\ \A k \in 1..Len(Diagnostics) : Diagnostics'[k] = Diagnostics[k]
    BY <1>0, <2>1, <2>2
  <2>6. ASSUME NEW k \in 1..Len(Diagnostics') PROVE Diagnostics'[k] = Reported[k]
    <3>1. k \in 1..Len(Diagnostics) \/ k = n + (emitted + 1)
      BY <1>0, <2>2, <2>5
    <3> QED
      BY <2>2, <2>4, <2>5, <3>1
  <2> QED
    BY <1>1, <2>1, <2>5, <2>6 DEF CollectedInv, Early, n
<1>6. CASE PrintAll
  <2>1. /\ phase = "engine" /\ emitted = Len(script.direct) /\ phase' = "title"
        /\ Diagnostics' = Diagnostics /\ script' = script
    BY <1>6 DEF PrintAll
  <2>2. Len(Diagnostics) = Len(Reported)
        /\ \A k \in 1..Len(Diagnostics) : Diagnostics[k] = Reported[k]
    BY <2>1, ReportedFacts DEF CollectedInv
  <2>3. Diagnostics = Reported
    BY <1>0, <2>2, SeqEqual
  <2> QED
    BY <1>1, <2>1, <2>3 DEF CollectedInv, Early
<1>7. CASE BuildLineIndex \/ UNCHANGED vars
  <2>1. UNCHANGED <<phase, Simple, Diagnostics, script, emitted>>
    BY <1>7 DEF BuildLineIndex, vars, deVars
  <2> QED
    BY <1>1, <2>1 DEF CollectedInv
<1>8. CASE PrintDiagnostic
  <2>1. /\ phase \notin Early \cup {"engine"} /\ phase' \notin Early \cup {"engine"}
        /\ Diagnostics' = Diagnostics /\ script' = script
    <3>1. CASE MainSnippet \/ LabelSnippet
      <4>1. phase' \in {"labels", "lines"}
        BY <3>1, OpenPhase
      <4> QED
        BY <3>1, <4>1 DEF MainSnippet, LabelSnippet, Early
    <3>2. CASE PrintTitle \/ PrintedAll \/ PrintLine \/ EndSnippet \/ PrintRest
      BY <3>2 DEF PrintTitle, PrintedAll, PrintLine, EndSnippet, PrintRest, Early
    <3> QED
      BY <1>8, <3>1, <3>2 DEF PrintDiagnostic
  <2> QED
    BY <1>1, <2>1 DEF CollectedInv, Early
<1> QED
  BY <1>2, <1>3, <1>4, <1>5, <1>6, <1>7, <1>8 DEF Next

LEMMA TitlesFinite ==
    ASSUME RowSeq(out)
    PROVE  /\ Titles \subseteq 1..Len(out) /\ IsFiniteSet(Titles) /\ Len(out) \in Nat
           /\ Cardinality(Titles) \in Nat
<1>1. Titles \subseteq 1..Len(out) /\ Len(out) \in Nat
  BY RowDomain DEF Titles
<1>2. IsFiniteSet(1..Len(out))
  BY <1>1, FS_Interval
<1> QED
  BY <1>1, <1>2, FS_Subset, FS_CardinalityType

\* A step that prints no title leaves the titles as they were.
LEMMA TitlesSame ==
    ASSUME RowSeq(out), NEW rows, RowSeq(rows), Write(rows),
           \A k \in DOMAIN rows : rows[k].row # "title"
    PROVE  Titles' = Titles /\ \A k \in Titles : out'[k] = out[k]
<1>1. \A k \in DOMAIN out : k \in DOMAIN out' /\ out'[k] = out[k]
  BY OldRow
<1>2. \A k \in DOMAIN out' : k \in DOMAIN out \/ out'[k].row # "title"
  BY AddedRow
<1> QED
  BY <1>1, <1>2 DEF Titles

\* A title that is printed is the last of the titles.
LEMMA TitleAdded ==
    ASSUME RowSeq(out), NEW rows, RowSeq(rows), Write(rows), 1 \in DOMAIN rows,
           rows[1].row = "title", \A k \in DOMAIN rows : k # 1 => rows[k].row # "title",
           NEW n, n = Len(out) + 1
    PROVE  /\ n \in Nat /\ Titles' = Titles \cup {n}
           /\ out'[n] = rows[1] /\ (\A k \in Titles : out'[k] = out[k])
           /\ Cardinality(Titles') = Cardinality(Titles) + 1
           /\ Nth(Titles', n) = Cardinality(Titles) + 1
           /\ \A k \in Titles : Nth(Titles', k) = Nth(Titles, k)
<1>1. /\ Len(out) \in Nat /\ DOMAIN out = 1..Len(out)
      /\ n \in DOMAIN out' /\ n \notin DOMAIN out /\ out'[n] = rows[1]
      /\ \A k \in DOMAIN out : k \in DOMAIN out' /\ out'[k] = out[k]
  BY FirstAdded, OldRow, RowDomain
<1>2. \A k \in DOMAIN out' : k \in DOMAIN out \/ k = n \/ out'[k].row # "title"
  <2> SUFFICES ASSUME NEW k \in DOMAIN out', k \notin DOMAIN out, k # n
               PROVE  out'[k].row # "title"
    OBVIOUS
  <2>1. k - Len(out) \in DOMAIN rows /\ out'[k] = rows[k - Len(out)]
    BY AddedRow
  <2>2. DOMAIN out' = 1..(Len(out) + Len(rows)) /\ Len(rows) \in Nat
    BY Written
  <2>3. k - Len(out) # 1
    BY <1>1, <2>2
  <2> QED
    BY <2>1, <2>3
<1>3. Titles' = Titles \cup {n}
  BY <1>1, <1>2 DEF Titles
<1>4. /\ Titles \subseteq 1..Len(out) /\ IsFiniteSet(Titles) /\ n \notin Titles
  BY <1>1, TitlesFinite
<1>5. Cardinality(Titles') = Cardinality(Titles) + 1
  BY <1>3, <1>4, FS_AddElement
<1>6. {j \in Titles' : j <= n} = Titles'
  <2>1. ASSUME NEW j \in Titles' PROVE j <= n
    BY <1>1, <1>3, <1>4
  <2> QED
    BY <2>1
<1>7. ASSUME NEW k \in Titles PROVE {j \in Titles' : j <= k} = {j \in Titles : j <= k}
  BY <1>1, <1>3, <1>4
<1>8. \A k \in Titles : out'[k] = out[k]
  BY <1>1 DEF Titles
<1> QED
  <2>1. /\ Nth(Titles', n) = Cardinality(Titles')
        /\ \A k \in Titles : Nth(Titles', k) = Nth(Titles, k)
    BY <1>6, <1>7 DEF Nth
  <2>2. n \in Nat
    BY <1>1
  <2>3. Nth(Titles', n) = Cardinality(Titles) + 1
    BY <1>5, <2>1, Zenon
  <2> QED
    BY <1>1, <1>3, <1>5, <1>8, <2>1, <2>2, <2>3, Zenon

LEMMA TitlesNext ==
    ASSUME Inv, LocalsInv, OrderInv, [Next]_vars
    PROVE  TitlesInv'
<1>1. PICK rows : /\ RowSeq(out) /\ RowSeq(rows) /\ Write(rows)
                  /\ PrintTitle => 1 \in DOMAIN rows /\ rows[1] = TitleRow(Now)
                  /\ \A k \in DOMAIN rows : \/ rows[k].row \notin {"text", "title"}
                                            \/ PrintTitle /\ k = 1
                                            \/ PrintLine /\ rows[k] = TextNow
  BY NewRows
<1>2. \A k \in DOMAIN rows : rows[k].row = "title" => PrintTitle /\ k = 1
  <2>1. TextNow.row # "title"
    BY DEF TextNow, TextRow
  <2> QED
    BY <1>1, <2>1
<1>3. Reported' = Reported
  BY ScriptStays DEF Reported
<1>4. /\ Cardinality(Titles) = Done /\ Titles \subseteq DOMAIN out
      /\ \A k \in Titles : out[k] = TitleRow(Reported[Nth(Titles, k)])
      /\ phase = "title" => current <= Len(Diagnostics) + 1
  BY DEF OrderInv, TitlesInv, Titles
<1>5. CASE PrintTitle
  <2> DEFINE n == Len(out) + 1
  <2>1. rows[1].row = "title" /\ rows[1] = TitleRow(Now) /\ 1 \in DOMAIN rows
    BY <1>1, <1>5 DEF TitleRow
  <2>2. \A k \in DOMAIN rows : k # 1 => rows[k].row # "title"
    BY <1>2
  <2>3. /\ Titles' = Titles \cup {n}
        /\ out'[n] = rows[1] /\ (\A k \in Titles : out'[k] = out[k])
        /\ Cardinality(Titles') = Cardinality(Titles) + 1
        /\ Nth(Titles', n) = Cardinality(Titles) + 1
        /\ \A k \in Titles : Nth(Titles', k) = Nth(Titles, k)
    BY <1>1, <2>1, <2>2, TitleAdded
  <2>4. /\ phase = "title" /\ phase' \in {"main", "labels"} /\ current' = current
        /\ current \in Nat
    BY <1>5, TitleFacts DEF Inv, PrintInv
  <2>5. Cardinality(Titles) + 1 = current /\ Done' = current
    BY <1>4, <2>4 DEF Done, Early
  <2>6. Now = Reported[current]
    BY <2>4 DEF OrderInv, CollectedInv, Now, Early
  <2>7. ASSUME NEW k \in Titles'
        PROVE  out'[k] = TitleRow(Reported[Nth(Titles', k)])
    BY <1>4, <2>1, <2>3, <2>5, <2>6
  <2> QED
    BY <1>3, <2>3, <2>4, <2>5, <2>7 DEF TitlesInv
<1>6. CASE ~PrintTitle
  <2>1. Titles' = Titles /\ \A k \in Titles : out'[k] = out[k]
    BY <1>1, <1>2, <1>6, TitlesSame
  <2>2. Done' = Done /\ (phase' = "title" => current' <= Len(Diagnostics') + 1)
    BY <1>4, <1>6, DoneSame
  <2> QED
    BY <1>3, <1>4, <2>1, <2>2 DEF TitlesInv
<1> QED
  BY <1>5, <1>6

LEMMA OrderHolds ==
    ASSUME Inv, OrderInv
    PROVE  PrintedInOrder
<1>1. Cardinality(Titles) = Done /\ Len(Reported) \in Nat
  BY ReportedFacts DEF OrderInv, TitlesInv
<1>2. CASE phase \in Early \cup {"engine"}
  <2>1. Done = 0 /\ phase # "done"
    BY <1>2 DEF Done, Early
  <2> QED
    BY <1>1, <2>1 DEF PrintedInOrder, OrderInv, TitlesInv
<1>3. CASE phase \notin Early \cup {"engine"}
  <2>1. Diagnostics = Reported
    BY <1>3 DEF OrderInv, CollectedInv
  <2>2. Done <= Len(Reported) /\ (phase = "done" => Done = Len(Reported))
    <3>1. phase \in Underway => current \in 1..Len(Diagnostics)
      BY DEF Inv, PrintInv, CollectInv
    <3>2. phase \in Underway \cup {"title", "done"}
      BY <1>3 DEF Inv, CollectInv, Phase, Underway, Early
    <3>3. current \in Nat /\ (phase = "title" => current <= Len(Diagnostics) + 1)
      BY DEF Inv, PrintInv, OrderInv, TitlesInv
    <3> QED
      BY <1>1, <1>3, <2>1, <3>1, <3>2, <3>3 DEF Done, Underway
  <2> QED
    BY <1>1, <2>2 DEF PrintedInOrder, OrderInv, TitlesInv
<1> QED
  BY <1>2, <1>3

\* Every diagnostic that is reported, without a source manager or with one, is
\* printed once, in the order in which they were reported.
THEOREM OrderKept == Spec => []PrintedInOrder
<1>1. Inv /\ LocalsInv /\ OrderInv /\ [Next]_vars => OrderInv'
  BY CollectedNext, TitlesNext DEF OrderInv
<1>2. Inv /\ OrderInv => PrintedInOrder
  BY OrderHolds
<1> QED
  BY <1>1, <1>2, CollectedInit, LocalsKept, PTL DEF Spec
-----------------------------------------------------------------------------
(* The rows behind the last title.                                         *)

TitleIn(rows) == CHOOSE k \in DOMAIN rows :
                     /\ rows[k].row = "title"
                     /\ \A j \in (k + 1)..Len(rows) : rows[j].row # "title"

LEMMA LastTitle ==
    ASSUME NEW rows, RowSeq(rows), NEW t \in DOMAIN rows, rows[t].row = "title",
           \A j \in (t + 1)..Len(rows) : rows[j].row # "title"
    PROVE  TitleIn(rows) = t
<1> DEFINE P(k) == /\ rows[k].row = "title"
                   /\ \A j \in (k + 1)..Len(rows) : rows[j].row # "title"
<1>1. DOMAIN rows = 1..Len(rows) /\ Len(rows) \in Nat
  BY RowDomain
<1>2. P(t)
  OBVIOUS
<1>3. ASSUME NEW k \in DOMAIN rows, P(k) PROVE k = t
  <2>1. k > t => k \in (t + 1)..Len(rows)
    BY <1>1
  <2>2. k < t => t \in (k + 1)..Len(rows)
    BY <1>1
  <2> QED
    BY <1>1, <1>3, <2>1, <2>2
<1>4. TitleIn(rows) = CHOOSE k \in DOMAIN rows : P(k)
  BY DEF TitleIn
<1> HIDE DEF P
<1>5. (CHOOSE k \in DOMAIN rows : P(k)) = t
  BY <1>2, <1>3
<1> QED
  BY <1>4, <1>5

HasTitle ==
    /\ TitleAt \in DOMAIN out
    /\ out[TitleAt].row = "title"
    /\ \A j \in (TitleAt + 1)..Len(out) : out[j].row # "title"

\* Rows that are no titles are behind the same title.
LEMMA TitleStays ==
    ASSUME RowSeq(out), HasTitle, NEW rows, RowSeq(rows), Write(rows),
           \A k \in DOMAIN rows : rows[k].row # "title"
    PROVE  TitleAt' = TitleAt /\ HasTitle'
<1>1. /\ RowSeq(out') /\ Len(out) \in Nat /\ Len(rows) \in Nat
      /\ DOMAIN out = 1..Len(out) /\ DOMAIN out' = 1..Len(out')
      /\ Len(out') = Len(out) + Len(rows)
  BY Written
<1>2. /\ TitleAt \in DOMAIN out /\ out[TitleAt].row = "title"
      /\ \A j \in (TitleAt + 1)..Len(out) : out[j].row # "title"
  BY DEF HasTitle
<1>3. TitleAt \in DOMAIN out' /\ out'[TitleAt].row = "title"
  BY <1>2, OldRow
<1>4. ASSUME NEW j \in (TitleAt + 1)..Len(out') PROVE out'[j].row # "title"
  <2>1. j \in DOMAIN out'
    BY <1>1, <1>2
  <2>2. CASE j \in DOMAIN out
    BY <1>1, <1>2, <2>2, OldRow
  <2>3. CASE j \notin DOMAIN out
    BY <2>1, <2>3, AddedRow
  <2> QED
    BY <2>2, <2>3
<1>5. TitleIn(out') = TitleAt
  BY <1>1, <1>3, <1>4, LastTitle
<1>6. TitleAt' = TitleAt
  BY <1>5 DEF TitleIn, TitleAt
<1> QED
  BY <1>3, <1>4, <1>6 DEF HasTitle

\* Which rows there are behind it then.
LEMMA RowsAdded ==
    ASSUME RowSeq(out), HasTitle, NEW rows, RowSeq(rows), Write(rows),
           \A k \in DOMAIN rows : rows[k].row # "title", NEW kind, NEW n, n = Len(out)
    PROVE  /\ Rows(kind)' = Rows(kind) \cup {n + j : j \in {i \in DOMAIN rows : rows[i].row = kind}}
           /\ Rows(kind) \subseteq 1..n /\ n \in Nat
           /\ \A k \in 1..n : out'[k] = out[k]
           /\ \A j \in DOMAIN rows : out'[n + j] = rows[j]
<1>1. /\ n \in Nat /\ Len(rows) \in Nat
      /\ DOMAIN out = 1..n /\ DOMAIN rows = 1..Len(rows)
      /\ Len(out') = n + Len(rows)
      /\ \A k \in 1..n : out'[k] = out[k]
      /\ \A j \in 1..Len(rows) : out'[n + j] = rows[j]
  BY Written
<1>2. TitleAt' = TitleAt /\ TitleAt \in 1..n
  BY <1>1, TitleStays DEF HasTitle
<1> DEFINE t == TitleAt
<1>3. Rows(kind)' = {k \in t..(n + Len(rows)) : out'[k].row = kind}
  BY <1>1, <1>2 DEF Rows
<1>4. Rows(kind) = {k \in t..n : out[k].row = kind}
  BY DEF Rows
<1>5. t \in 1..n
  BY <1>2
<1> DEFINE New == {n + j : j \in {i \in 1..Len(rows) : rows[i].row = kind}}
<1> HIDE DEF t
<1>6. ASSUME NEW k
      PROVE  k \in t..(n + Len(rows)) /\ out'[k].row = kind
                 <=> (k \in t..n /\ out[k].row = kind) \/ k \in New
  <2>1. CASE k \in t..n
    BY <1>1, <1>5, <2>1
  <2>2. CASE k \notin t..n
    <3>1. ASSUME k \in New PROVE k \in t..(n + Len(rows)) /\ out'[k].row = kind
      BY <1>1, <1>5, <3>1
    <3>2. ASSUME k \in t..(n + Len(rows)), out'[k].row = kind PROVE k \in New
      <4>1. k - n \in 1..Len(rows) /\ k = n + (k - n)
        BY <1>1, <1>5, <2>2, <3>2
      <4>2. rows[k - n].row = kind
        BY <1>1, <3>2, <4>1
      <4> QED
        BY <4>1, <4>2
    <3> QED
      BY <2>2, <3>1, <3>2
  <2> QED
    BY <2>1, <2>2
<1>7. Rows(kind)' = Rows(kind) \cup New
  <2> HIDE DEF New
  <2> QED
    BY <1>3, <1>4, <1>6
<1>8. Rows(kind) \subseteq 1..n
  BY <1>1, <1>4, <1>5
<1> QED
  BY <1>1, <1>7, <1>8
\* Behind a title that has just been printed there is at most a place.
LEMMA TitleNew ==
    ASSUME Inv, PrintTitle
    PROVE  /\ HasTitle' /\ out'[TitleAt'] = TitleRow(Now) /\ RowSeq(out')
           /\ \A kind : kind \notin {"title", "file", "place"} => Rows(kind)' = {}
<1>1. PICK rows : /\ Write(rows) /\ RowSeq(rows) /\ 1 \in DOMAIN rows
                  /\ rows[1] = TitleRow(Now)
                  /\ \A k \in DOMAIN rows : k # 1 => rows[k].row \in {"file", "place"}
  BY TitleFacts
<1>2. RowSeq(out) /\ rows[1].row = "title"
  BY <1>1 DEF Inv, RowsShown, RowSeq, TitleRow
<1> DEFINE n == Len(out) + 1
<1>3. /\ RowSeq(out') /\ n \in Nat /\ n \in DOMAIN out' /\ n \notin DOMAIN out
      /\ out'[n].row = "title" /\ Len(rows) \in Nat /\ DOMAIN out' = 1..Len(out')
      /\ DOMAIN out = 1..Len(out) /\ Len(out) \in Nat /\ Len(out') \in Nat
      /\ out'[n] = TitleRow(Now)
  BY <1>1, <1>2, FirstAdded, Written
<1>4. ASSUME NEW j \in (n + 1)..Len(out') PROVE out'[j].row \in {"file", "place"}
  <2>1. j \in DOMAIN out' /\ j \notin DOMAIN out
    BY <1>3
  <2>2. j - Len(out) \in DOMAIN rows /\ out'[j] = rows[j - Len(out)]
    BY <1>1, <1>2, <2>1, AddedRow
  <2>3. j - Len(out) # 1
    BY <1>3
  <2> QED
    BY <1>1, <2>2, <2>3
<1>5. \A j \in (n + 1)..Len(out') : out'[j].row # "title"
  BY <1>4
<1>6. TitleAt' = n
  <2>1. TitleIn(out') = n
    BY <1>3, <1>5, LastTitle
  <2> QED
    BY <2>1 DEF TitleIn, TitleAt
<1>7. HasTitle'
  BY <1>3, <1>5, <1>6 DEF HasTitle
<1>8. ASSUME NEW kind, kind \notin {"title", "file", "place"} PROVE Rows(kind)' = {}
  <2>1. Rows(kind)' = {k \in n..Len(out') : out'[k].row = kind}
    BY <1>6 DEF Rows
  <2>2. ASSUME NEW k \in n..Len(out') PROVE out'[k].row # kind
    <3>1. k = n \/ k \in (n + 1)..Len(out')
      BY <1>3
    <3> QED
      BY <1>3, <1>4, <1>8, <3>1
  <2> QED
    BY <2>1, <2>2
<1> QED
  BY <1>3, <1>6, <1>7, <1>8

\* Opening a snippet prints neither text nor marks.
LEMMA OpenAdded ==
    ASSUME Inv, LocalsInv, HasTitle, MainSnippet \/ LabelSnippet
    PROVE  /\ HasTitle' /\ Rows("text")' = Rows("text")
           /\ \A mark : MarkRows(mark)' = MarkRows(mark)
           /\ \A k \in Rows("text") \cup Rows("mark") : out'[k] = out[k]
<1>1. PICK rows : /\ Write(rows) /\ RowSeq(rows)
                  /\ \A k \in DOMAIN rows : rows[k].row = "border"
  BY OpenFacts
<1>2. RowSeq(out) /\ \A k \in DOMAIN rows : rows[k].row # "title"
  BY <1>1 DEF Inv, RowsShown, RowSeq
<1>3. HasTitle'
  BY <1>1, <1>2, TitleStays
<1>4. ASSUME NEW kind, kind # "border"
      PROVE  Rows(kind)' = Rows(kind) /\ \A k \in Rows(kind) : out'[k] = out[k]
  <2>1. {i \in DOMAIN rows : rows[i].row = kind} = {}
    BY <1>1, <1>4
  <2>2. PICK n : n = Len(out)
    OBVIOUS
  <2>3. /\ Rows(kind)' = Rows(kind) \cup {n + j : j \in {i \in DOMAIN rows : rows[i].row = kind}}
        /\ Rows(kind) \subseteq 1..n /\ \A k \in 1..n : out'[k] = out[k]
    BY <1>1, <1>2, <2>2, RowsAdded
  <2> QED
    BY <2>1, <2>3
<1>5. /\ Rows("text")' = Rows("text") /\ Rows("mark")' = Rows("mark")
      /\ \A k \in Rows("text") \cup Rows("mark") : out'[k] = out[k]
  BY <1>4
<1>6. ASSUME NEW mark PROVE MarkRows(mark)' = MarkRows(mark)
  BY <1>5 DEF MarkRows
<1> QED
  BY <1>3, <1>5, <1>6

\* The places of the rows of one round of the loop.
TextPlace == Len(out) + 1
MarkPlace == IF Shown THEN Len(out) + 2 ELSE Len(out) + 1

LEMMA LineAdded ==
    ASSUME Inv, LocalsInv, HasTitle, PrintLine
    PROVE  /\ HasTitle' /\ TitleAt' = TitleAt /\ Len(out) \in Nat
           /\ Len(out') = Len(out) + Len(LineRows)
           /\ TitleAt \in 1..Len(out)
           /\ \A k \in 1..Len(out) : out'[k] = out[k]
           /\ Rows("text") \subseteq 1..Len(out) /\ Rows("mark") \subseteq 1..Len(out)
           /\ Rows("text")' = Rows("text") \cup (IF Shown THEN {TextPlace} ELSE {})
           /\ Shown => out'[TextPlace] = TextNow
           /\ Rows("mark")' = Rows("mark") \cup (IF InSpan THEN {MarkPlace} ELSE {})
           /\ InSpan => out'[MarkPlace] = MarkNow
<1>1. Write(LineRows) /\ RowSeq(LineRows) /\ RowSeq(out)
  BY LineFacts DEF Inv, RowsShown, RowSeq
<1>2. TextNow.row = "text" /\ MarkNow.row = "mark"
  BY DEF TextNow, TextRow, MarkNow, Marks, MarkRow
<1>3. /\ (Shown /\ InSpan => LineRows = <<TextNow, MarkNow>>)
      /\ (Shown /\ ~InSpan => LineRows = <<TextNow>>)
      /\ (~Shown /\ InSpan => LineRows = <<MarkNow>>)
      /\ (~Shown /\ ~InSpan => LineRows = <<>>)
  BY DEF LineRows
<1> DEFINE q == TextNow
           r == MarkNow
           ls == LineRows
           n == Len(out)
<1>4. \A i \in DOMAIN ls : ls[i].row # "title"
  BY <1>2, <1>3
<1>5. HasTitle' /\ TitleAt' = TitleAt
  BY <1>1, <1>4, TitleStays
<1> HIDE DEF q, r, ls
<1>6. ASSUME NEW kind
      PROVE  /\ Rows(kind)' = Rows(kind) \cup {n + j : j \in {i \in DOMAIN ls : ls[i].row = kind}}
             /\ Rows(kind) \subseteq 1..n /\ n \in Nat
             /\ \A k \in 1..n : out'[k] = out[k]
             /\ \A j \in DOMAIN ls : out'[n + j] = ls[j]
  BY <1>1, <1>4, RowsAdded DEF ls
<1>7. /\ TitleAt \in 1..n /\ n \in Nat /\ Len(out') = n + Len(ls)
  BY <1>1, Written DEF HasTitle, ls
<1>8. /\ (Shown /\ InSpan => ls = <<q, r>>) /\ (Shown /\ ~InSpan => ls = <<q>>)
      /\ (~Shown /\ InSpan => ls = <<r>>) /\ (~Shown /\ ~InSpan => ls = <<>>)
      /\ q.row = "text" /\ r.row = "mark"
  BY <1>2, <1>3 DEF q, r, ls
<1>9. /\ {i \in DOMAIN ls : ls[i].row = "text"} = (IF Shown THEN {1} ELSE {})
      /\ {i \in DOMAIN ls : ls[i].row = "mark"}
             = (IF InSpan THEN IF Shown THEN {2} ELSE {1} ELSE {})
  <2>1. CASE Shown /\ InSpan
    BY <1>8, <2>1
  <2>2. CASE Shown /\ ~InSpan
    BY <1>8, <2>2
  <2>3. CASE ~Shown /\ InSpan
    BY <1>8, <2>3
  <2>4. CASE ~Shown /\ ~InSpan
    BY <1>8, <2>4
  <2> QED
    BY <2>1, <2>2, <2>3, <2>4
<1>10. /\ Shown => 1 \in DOMAIN ls /\ ls[1] = q
       /\ InSpan => IF Shown THEN 2 \in DOMAIN ls /\ ls[2] = r
                    ELSE 1 \in DOMAIN ls /\ ls[1] = r
  BY <1>8
<1>11. /\ Shown => out'[n + 1] = q
       /\ InSpan => IF Shown THEN out'[n + 2] = r ELSE out'[n + 1] = r
  BY <1>6, <1>10
<1>12. /\ Rows("text")' = Rows("text") \cup (IF Shown THEN {n + 1} ELSE {})
       /\ Rows("mark")' = Rows("mark") \cup
                            (IF InSpan THEN IF Shown THEN {n + 2} ELSE {n + 1} ELSE {})
  <2>1. \A m \in Nat : {n + j : j \in {m}} = {n + m}
    OBVIOUS
  <2>2. {n + j : j \in {}} = {}
    OBVIOUS
  <2> HIDE DEF n
  <2> QED
    BY <1>6, <1>9, <2>1, <2>2
<1> QED
  BY <1>5, <1>6, <1>7, <1>11, <1>12 DEF TextPlace, MarkPlace, q, r, ls
-----------------------------------------------------------------------------
(* The lines of a span are printed and marked.                             *)

\* Behind the first title there is always a last one.
Titled == phase \in Underway \/ (phase = "title" /\ current > 1) => HasTitle

LEMMA TitledNext ==
    ASSUME Inv, LocalsInv, Titled, [Next]_vars
    PROVE  Titled'
<1>1. CASE PrintTitle
  BY <1>1, TitleNew DEF Titled
<1>2. CASE ~PrintTitle
  <2>1. PICK rows : /\ RowSeq(out) /\ RowSeq(rows) /\ Write(rows)
                    /\ PrintTitle => 1 \in DOMAIN rows /\ rows[1] = TitleRow(Now)
                    /\ \A k \in DOMAIN rows : \/ rows[k].row \notin {"text", "title"}
                                              \/ PrintTitle /\ k = 1
                                              \/ PrintLine /\ rows[k] = TextNow
    BY NewRows
  <2>2. TextNow.row # "title"
    BY DEF TextNow, TextRow
  <2>3. \A k \in DOMAIN rows : rows[k].row # "title"
    BY <1>2, <2>1, <2>2
  <2>4. HasTitle => HasTitle'
    BY <2>1, <2>3, TitleStays
  <2>5. (phase' \in Underway \/ (phase' = "title" /\ current' > 1))
            => phase \in Underway \/ (phase = "title" /\ current > 1)
    <3>1. CASE Silent
      <4>1. CASE UNCHANGED vars
        BY <4>1 DEF vars, deVars
      <4>2. CASE ~UNCHANGED vars
        BY <3>1, <4>2 DEF Silent, EmitSimple, MakeSourceManager, BuildLineIndex,
             WithSourceManager, Emit, PrintAll, PrintedAll, EndSnippet, deVars, Underway
      <4> QED
        BY <4>1, <4>2
    <3>2. CASE MainSnippet \/ LabelSnippet
      BY <3>2, OpenFacts DEF Underway
    <3>3. CASE PrintLine
      BY <3>3 DEF PrintLine, Underway
    <3>4. CASE PrintRest
      BY <3>4 DEF PrintRest, Underway
    <3> QED
      BY <1>2, <3>1, <3>2, <3>3, <3>4, Steps
  <2> QED
    BY <2>4, <2>5 DEF Titled
<1> QED
  BY <1>1, <1>2

\* Rows of one output, as Lists says it of `out`.
ListsIn(o, rows, a, b) ==
    /\ {o[k].line : k \in rows} = a..b
    /\ \A j, k \in rows : j < k => o[j].line < o[k].line

LEMMA ListsSame ==
    ASSUME NEW o, NEW p, NEW rows, NEW a, NEW b, ListsIn(o, rows, a, b),
           \A k \in rows : p[k] = o[k]
    PROVE  ListsIn(p, rows, a, b)
  BY DEF ListsIn

\* A row behind the others continues the list.
LEMMA ListsMore ==
    ASSUME NEW o, NEW p, NEW n \in Nat, NEW rows, rows \subseteq 1..n, NEW a \in Int,
           NEW b \in Int, a <= b + 1, ListsIn(o, rows, a, b),
           \A k \in 1..n : p[k] = o[k], NEW m \in Nat, m > n, p[m].line = b + 1
    PROVE  ListsIn(p, rows \cup {m}, a, b + 1)
<1>1. {o[k].line : k \in rows} = a..b /\ \A j, k \in rows : j < k => o[j].line < o[k].line
  BY DEF ListsIn
<1>2. \A k \in rows : p[k] = o[k] /\ o[k].line \in a..b /\ k < m
  <2>1. \A k \in rows : k \in 1..n /\ k < m
    OBVIOUS
  <2>2. \A k \in rows : o[k].line \in a..b
    BY <1>1
  <2> QED
    BY <2>1, <2>2
<1>3. {p[k].line : k \in rows \cup {m}} = (a..b) \cup {b + 1}
  <2>1. {p[k].line : k \in rows} = a..b
    BY <1>1, <1>2
  <2> QED
    BY <2>1
<1>4. (a..b) \cup {b + 1} = a..(b + 1)
  OBVIOUS
<1>5. ASSUME NEW j \in rows \cup {m}, NEW k \in rows \cup {m}, j < k
      PROVE  p[j].line < p[k].line
  <2>1. CASE k = m
    <3>1. j \in rows
      BY <1>5, <2>1
    <3> QED
      BY <1>2, <2>1, <3>1
  <2>2. CASE k \in rows
    <3>1. j # m
      BY <1>2, <1>5, <2>2
    <3> QED
      BY <1>1, <1>2, <1>5, <2>2, <3>1
  <2> QED
    BY <2>1, <2>2
<1> QED
  BY <1>3, <1>4, <1>5 DEF ListsIn

LEMMA NothingListed ==
    ASSUME NEW o, NEW a \in Int, NEW b \in Int, b < a
    PROVE  ListsIn(o, {}, a, b)
  BY DEF ListsIn

\* The lines that have been marked for the labels.
Dashed == {out[k].line : k \in MarkRows("-")}

\* What the loop of the main snippet has printed, and that of a label.
MainShown(b) ==
    /\ Lists(MarkRows("^"), sn.startLine, Least(sn.endLine, b))
    /\ Lists(Rows("text"), Begin(sn), b)
LabelShown(b) ==
    /\ Lists(MarkRows("^"), FirstLine(Now.location), FinalLine(Now.location))
    /\ \A l \in 1..(labels - 1) :
           FirstLine(Now.labels[l])..FinalLine(Now.labels[l]) \subseteq Dashed
    /\ sn.startLine..Least(sn.endLine, b) \subseteq Dashed

ShownInv ==
    /\ phase = "main" => Rows("text") = {} /\ Rows("mark") = {}
    /\ phase = "lines" /\ labels = 0 => MainShown(sn.line - 1)
    /\ phase = "lines" /\ labels # 0 /\ HasSpan(Now) => LabelShown(sn.line - 1)
    /\ SpanShown

\* What is said of a span, in a step that leaves the buffer and the diagnostic.
LEMMA SpansStay ==
    ASSUME PrintFrame, current' = current
    PROVE  /\ Now' = Now /\ HasSpan(Now)' = HasSpan(Now) /\ Size' = Size
           /\ Newlines' = Newlines /\ countLines' = countLines
           /\ \A o : LineOf(o)' = LineOf(o)
           /\ FirstLine(Now.location)' = FirstLine(Now.location)
           /\ FinalLine(Now.location)' = FinalLine(Now.location)
           /\ \A l : /\ FirstLine(Now.labels[l])' = FirstLine(Now.labels[l])
                     /\ FinalLine(Now.labels[l])' = FinalLine(Now.labels[l])
<1>1. /\ Now' = Now /\ HasSpan(Now)' = HasSpan(Now) /\ Size' = Size
      /\ Newlines' = Newlines /\ countLines' = countLines
  BY DEF PrintFrame, Now, HasSpan, Size, Newlines, countLines
<1> QED
  BY <1>1 DEF LineOf, FirstLine, FinalLine, Start, End

\* The loop ends behind its last line, and the snippet is complete then.
LEMMA LoopComplete ==
    ASSUME Inv, LocalsInv, phase = "lines"
    PROVE  /\ Least(sn.endLine, sn.last) = sn.endLine
           /\ sn.last = Least(sn.endLine + 1, LineOf(Size))
           /\ sn.last <= Len(LineStarts)
<1>1. /\ sn.last = Least(countLines, sn.endLine + 1) /\ countLines = Len(LineStarts)
      /\ sn.endLine \in 1..Len(LineStarts) /\ Len(LineStarts) \in Nat
      /\ LineOf(Size) = Len(LineStarts)
  BY LoopFacts, BuiltFacts DEF LocalsInv, Locals
<1> QED
  BY <1>1 DEF Least

LoopTypes ==
    phase = "lines" =>
        /\ sn.startLine \in Nat /\ sn.endLine \in Nat /\ sn.line \in Nat /\ sn.last \in Nat
        /\ sn.startLine <= sn.endLine
        /\ sn.startLine = FirstLine(MarkedSpan) /\ sn.endLine = FinalLine(MarkedSpan)

LEMMA LoopTyped == Inv => LoopTypes
<1> SUFFICES ASSUME Inv, phase = "lines" PROVE LoopTypes
  BY DEF LoopTypes
<1> QED
  BY LoopFacts DEF LoopTypes, Covers, FirstLine, FinalLine

LEMMA LoopTypedNext ==
    ASSUME Inv, [Next]_vars
    PROVE  LoopTypes'
<1>1. (Inv => LoopTypes)'
  BY LoopTyped, PTL
<1> QED
  BY <1>1, InvNext

\* A step that leaves what has been printed, and the span, leaves the lists.
LEMMA ListsStay ==
    ASSUME HasTitle, MarkRows("^")' = MarkRows("^"), MarkRows("-")' = MarkRows("-"),
           Rows("text")' = Rows("text"),
           \A k \in Rows("text") \cup Rows("mark") : out'[k] = out[k]
    PROVE  /\ Dashed' = Dashed
           /\ \A a, b : Lists(MarkRows("^"), a, b) => ListsIn(out', MarkRows("^")', a, b)
           /\ \A a, b : Lists(Rows("text"), a, b) => ListsIn(out', Rows("text")', a, b)
<1>1. MarkRows("^") \subseteq Rows("mark") /\ MarkRows("-") \subseteq Rows("mark")
  BY DEF MarkRows
<1>2. Dashed' = Dashed
  BY <1>1 DEF Dashed
<1>3. \A a, b : /\ Lists(MarkRows("^"), a, b) <=> ListsIn(out, MarkRows("^"), a, b)
                /\ Lists(Rows("text"), a, b) <=> ListsIn(out, Rows("text"), a, b)
  BY DEF Lists, ListsIn
<1> QED
  BY <1>1, <1>2, <1>3, ListsSame

LEMMA ShownOpened ==
    ASSUME Inv, LocalsInv, Titled, ShownInv, [Next]_vars, MainSnippet \/ LabelSnippet
    PROVE  ShownInv'
<1>1. /\ PrintFrame /\ current' = current /\ phase \in {"main", "labels"}
      /\ labels' = (IF phase = "main" THEN labels ELSE labels + 1)
      /\ labels \in Nat /\ (phase = "main" => labels = 0)
      /\ Size = 0 => phase' = "labels"
      /\ Size # 0 => phase' = "lines" /\ Locals(sn)' /\ (sn.line = Begin(sn))'
      /\ Size # 0 => Size > 0
  <2>1. Size \in Nat
    BY DEF Inv, IndexInv, Size
  <2> QED
    BY <2>1, OpenFacts
<1>2. HasTitle
  BY <1>1 DEF Titled, Underway
<1>3. /\ Rows("text")' = Rows("text") /\ \A mark : MarkRows(mark)' = MarkRows(mark)
      /\ \A k \in Rows("text") \cup Rows("mark") : out'[k] = out[k]
  BY <1>2, OpenAdded
<1>4. CASE Size = 0
  <2>1. phase' = "labels" /\ ~(Size' > 0)
    BY <1>1, <1>4, SpansStay DEF Inv, IndexInv, Size
  <2> QED
    BY <2>1 DEF ShownInv, SpanShown
<1>5. CASE Size # 0
  <2>1. phase' = "lines" /\ (sn.line = Begin(sn))' /\ LoopTypes'
    BY <1>1, <1>5, LoopTypedNext
  <2>2. SpanShown'
    BY <2>1 DEF SpanShown
  <2>3. CASE phase = "main"
    <3>1. labels' = 0 /\ Rows("text")' = {} /\ MarkRows("^")' = {}
      BY <1>1, <1>3, <2>3 DEF ShownInv, MarkRows
    <3>2. /\ (Least(sn.endLine, sn.line - 1))' < sn'.startLine
          /\ sn'.line - 1 < (Begin(sn))'
          /\ (Least(sn.endLine, sn.line - 1))' \in Int /\ (Begin(sn))' \in Int
          /\ sn'.line - 1 \in Int /\ sn'.startLine \in Int
      BY <2>1 DEF Begin, Least, LoopTypes
    <3>3. MainShown(sn.line - 1)'
      BY <3>1, <3>2, NothingListed DEF MainShown, Lists, ListsIn
    <3> QED
      BY <2>1, <2>2, <3>1, <3>3 DEF ShownInv
  <2>4. CASE phase # "main"
    <3>1. phase = "labels" /\ labels' = labels + 1 /\ labels' # 0
      BY <1>1, <2>4
    <3>2. ASSUME HasSpan(Now)' PROVE LabelShown(sn.line - 1)'
      <4>1. HasSpan(Now) /\ Now' = Now
        BY <1>1, <3>2, SpansStay
      <4>2. /\ Lists(MarkRows("^"), FirstLine(Now.location), FinalLine(Now.location))
            /\ \A l \in 1..labels :
                   FirstLine(Now.labels[l])..FinalLine(Now.labels[l]) \subseteq Dashed
        BY <1>5, <1>1, <3>1, <4>1 DEF ShownInv, SpanShown, Dashed
      <4>3. /\ Dashed' = Dashed
            /\ \A a, b : Lists(MarkRows("^"), a, b) => ListsIn(out', MarkRows("^")', a, b)
        BY <1>2, <1>3, ListsStay
      <4>4. Lists(MarkRows("^"), FirstLine(Now.location), FinalLine(Now.location))'
        BY <1>1, <4>2, <4>3, SpansStay DEF Lists, ListsIn
      <4>5. labels' - 1 = labels
        BY <1>1, <3>1
      <4>6. (\A l \in 1..(labels - 1) :
                   FirstLine(Now.labels[l])..FinalLine(Now.labels[l]) \subseteq Dashed)'
        BY <1>1, <4>2, <4>3, <4>5, SpansStay
      <4>7. (Least(sn.endLine, sn.line - 1))' < sn'.startLine
            /\ (Least(sn.endLine, sn.line - 1))' \in Int /\ sn'.startLine \in Int
        <5>1. sn'.line = (Begin(sn))'
          BY <2>1
        <5>2. (Begin(sn))' <= sn'.startLine /\ (Begin(sn))' \in Int
          BY <2>1 DEF Begin, LoopTypes
        <5> QED
          BY <2>1, <5>1, <5>2 DEF Least, LoopTypes
      <4>8. (sn.startLine..Least(sn.endLine, sn.line - 1))' = {}
        BY <4>7
      <4> QED
        BY <4>4, <4>6, <4>8 DEF LabelShown
    <3> QED
      BY <2>1, <2>2, <3>1, <3>2 DEF ShownInv
  <2> QED
    BY <2>3, <2>4
<1> QED
  BY <1>4, <1>5

\* One round of the loop marks its line, if it is one of the span.
LEMMA MarkAdded ==
    ASSUME Inv, LocalsInv, HasTitle, PrintLine, NEW mark
    PROVE  /\ MarkRows(mark)' = MarkRows(mark) \cup
                                  (IF InSpan /\ sn.mark = mark THEN {MarkPlace} ELSE {})
           /\ MarkRows(mark) \subseteq 1..Len(out)
           /\ \A k \in MarkRows(mark) : out'[k] = out[k]
           /\ InSpan => out'[MarkPlace].line = sn.line
           /\ Shown => out'[TextPlace].line = sn.line
           /\ MarkPlace \in Nat /\ MarkPlace > Len(out)
           /\ TextPlace \in Nat /\ TextPlace > Len(out)
<1>1. /\ Len(out) \in Nat
      /\ \A k \in 1..Len(out) : out'[k] = out[k]
      /\ Rows("mark") \subseteq 1..Len(out)
      /\ Rows("mark")' = Rows("mark") \cup (IF InSpan THEN {MarkPlace} ELSE {})
      /\ InSpan => out'[MarkPlace] = MarkNow
      /\ Shown => out'[TextPlace] = TextNow
  BY LineAdded
<1>2. MarkNow.mark = sn.mark /\ MarkNow.line = sn.line /\ TextNow.line = sn.line
  BY DEF MarkNow, Marks, MarkRow, TextNow, TextRow
<1>3. MarkRows(mark)' = {k \in Rows("mark")' : out'[k].mark = mark}
  BY DEF MarkRows
<1>4. MarkRows(mark) = {k \in Rows("mark") : out[k].mark = mark}
  BY DEF MarkRows
<1>5. /\ MarkPlace \in Nat /\ MarkPlace > Len(out) /\ TextPlace \in Nat /\ TextPlace > Len(out)
  BY <1>1 DEF MarkPlace, TextPlace
<1> DEFINE p == MarkPlace
           q == TextPlace
<1> HIDE DEF p, q
<1>6. MarkRows(mark)' = MarkRows(mark) \cup
                          (IF InSpan /\ sn.mark = mark THEN {p} ELSE {})
  <2>1. CASE InSpan
    BY <1>1, <1>2, <1>3, <1>4, <2>1 DEF p
  <2>2. CASE ~InSpan
    BY <1>1, <1>3, <1>4, <2>2
  <2> QED
    BY <2>1, <2>2
<1>7. MarkRows(mark) \subseteq 1..Len(out) /\ \A k \in MarkRows(mark) : out'[k] = out[k]
  BY <1>1, <1>4
<1> QED
  BY <1>1, <1>2, <1>5, <1>6, <1>7 DEF p

\* What has been printed behind a step of the loop, up to the line b.
After(b) ==
    /\ labels = 0 =>
           /\ ListsIn(out', MarkRows("^")', sn.startLine, Least(sn.endLine, b))
           /\ ListsIn(out', Rows("text")', Begin(sn), b)
    /\ labels # 0 /\ HasSpan(Now) =>
           /\ ListsIn(out', MarkRows("^")', FirstLine(Now.location), FinalLine(Now.location))
           /\ \A l \in 1..(labels - 1) :
                  FirstLine(Now.labels[l])..FinalLine(Now.labels[l]) \subseteq Dashed'
           /\ sn.startLine..Least(sn.endLine, b) \subseteq Dashed'

LEMMA LineAfter ==
    ASSUME Inv, LocalsInv, Titled, ShownInv, PrintLine
    PROVE  After(sn.line)
<1>1. /\ phase = "lines" /\ sn.line <= sn.last /\ LoopTypes /\ Locals(sn) /\ labels \in Nat
      /\ labels = 0 => HasSpan(Now)
  BY LineFacts, LoopTyped, LoopFacts DEF LocalsInv
<1>2. HasTitle
  BY <1>1 DEF Titled, Underway
<1>3. /\ sn.startLine \in Nat /\ sn.endLine \in Nat /\ sn.line \in Nat
      /\ sn.startLine <= sn.endLine /\ Begin(sn) \in Int /\ Begin(sn) <= sn.line
      /\ sn.mark = (IF labels = 0 THEN "^" ELSE "-") /\ sn.skip = Skip
  BY <1>1 DEF LoopTypes, Locals, Begin
<1>4. CASE labels = 0
  <2>1. /\ ListsIn(out, MarkRows("^"), sn.startLine, Least(sn.endLine, sn.line - 1))
        /\ ListsIn(out, Rows("text"), Begin(sn), sn.line - 1)
    BY <1>1, <1>4 DEF ShownInv, MainShown, Lists, ListsIn
  <2>2. Shown /\ sn.mark = "^"
    BY <1>3, <1>4 DEF Shown, Skip
  <2>3. /\ Rows("text")' = Rows("text") \cup {TextPlace} /\ Rows("text") \subseteq 1..Len(out)
        /\ \A k \in 1..Len(out) : out'[k] = out[k]
        /\ Len(out) \in Nat
    BY <1>2, <2>2, LineAdded
  <2>4. /\ out'[TextPlace].line = sn.line /\ TextPlace \in Nat /\ TextPlace > Len(out)
        /\ MarkRows("^")' = MarkRows("^") \cup (IF InSpan THEN {MarkPlace} ELSE {})
        /\ MarkRows("^") \subseteq 1..Len(out)
        /\ InSpan => out'[MarkPlace].line = sn.line
        /\ MarkPlace \in Nat /\ MarkPlace > Len(out)
    BY <1>2, <2>2, MarkAdded
  <2> DEFINE p == MarkPlace
             q == TextPlace
             n == Len(out)
             texts == Rows("text")
             marks == MarkRows("^")
             texts2 == Rows("text")'
             marks2 == MarkRows("^")'
             o2 == out'
             a == sn.startLine
             b == sn.line
             c == Begin(sn)
  <2>5. b - 1 \in Int /\ b = (b - 1) + 1
    BY <1>3
  <2>6. /\ texts2 = texts \cup {q} /\ texts \subseteq 1..n /\ n \in Nat /\ q \in Nat /\ q > n
        /\ o2[q].line = (b - 1) + 1 /\ c \in Int /\ c <= (b - 1) + 1
        /\ ListsIn(out, texts, c, b - 1) /\ \A k \in 1..n : o2[k] = out[k]
    BY <1>3, <2>1, <2>3, <2>4
  <2>7. ListsIn(o2, texts2, c, b)
    <3> HIDE DEF n, q, texts, texts2, o2, c, b
    <3>1. ListsIn(o2, texts \cup {q}, c, (b - 1) + 1)
      BY <2>5, <2>6, ListsMore
    <3> QED
      BY <2>5, <2>6, <3>1
  <2>8. ListsIn(o2, marks2, a, Least(sn.endLine, b))
    <3>1. CASE InSpan
      <4>1. /\ Least(sn.endLine, b - 1) = b - 1 /\ Least(sn.endLine, b) = b
            /\ a <= (b - 1) + 1 /\ a \in Int
        BY <1>3, <3>1 DEF InSpan, Least
      <4>2. /\ marks2 = marks \cup {p} /\ marks \subseteq 1..n /\ n \in Nat /\ p \in Nat
            /\ p > n /\ o2[p].line = (b - 1) + 1
            /\ ListsIn(out, marks, a, b - 1) /\ \A k \in 1..n : o2[k] = out[k]
        BY <1>3, <2>1, <2>3, <2>4, <3>1, <4>1
      <4> HIDE DEF n, p, marks, marks2, o2, a, b
      <4>3. ListsIn(o2, marks \cup {p}, a, (b - 1) + 1)
        BY <2>5, <4>1, <4>2, ListsMore
      <4> QED
        BY <2>5, <4>1, <4>2, <4>3
    <3>2. CASE ~InSpan
      <4>1. a..Least(sn.endLine, b - 1) = a..Least(sn.endLine, b)
        BY <1>3, <3>2 DEF InSpan, Least
      <4>2. marks2 = marks /\ \A k \in marks : o2[k] = out[k]
        BY <2>3, <2>4, <3>2
      <4>3. ListsIn(out, marks, a, Least(sn.endLine, b))
        BY <2>1, <4>1 DEF ListsIn
      <4> HIDE DEF marks, marks2, o2, a, b
      <4> QED
        BY <4>2, <4>3, ListsSame
    <3> QED
      BY <3>1, <3>2
  <2> QED
    BY <1>4, <2>7, <2>8 DEF After
<1>5. CASE labels # 0 /\ HasSpan(Now)
  <2>1. LabelShown(sn.line - 1) /\ sn.mark = "-"
    BY <1>1, <1>3, <1>5 DEF ShownInv
  <2>2. /\ MarkRows("^")' = MarkRows("^") /\ \A k \in MarkRows("^") : out'[k] = out[k]
    BY <1>2, <2>1, MarkAdded
  <2>3. /\ MarkRows("-")' = MarkRows("-") \cup (IF InSpan THEN {MarkPlace} ELSE {})
        /\ \A k \in MarkRows("-") : out'[k] = out[k]
        /\ InSpan => out'[MarkPlace].line = sn.line
    BY <1>2, <2>1, MarkAdded
  <2>4. Dashed' = {out'[k].line : k \in MarkRows("-")'} /\ Dashed = {out[k].line : k \in MarkRows("-")}
    BY DEF Dashed
  <2> DEFINE p == MarkPlace
             marks == MarkRows("-")
             marks2 == MarkRows("-")'
  <2> HIDE DEF p, marks, marks2
  <2>5. Dashed \subseteq Dashed' /\ (InSpan => sn.line \in Dashed')
    BY <2>3, <2>4 DEF p, marks, marks2
  <2>6. ListsIn(out', MarkRows("^")', FirstLine(Now.location), FinalLine(Now.location))
    <3>1. ListsIn(out, MarkRows("^"), FirstLine(Now.location), FinalLine(Now.location))
      BY <2>1 DEF LabelShown, Lists, ListsIn
    <3> QED
      BY <2>2, <3>1, ListsSame
  <2>7. sn.startLine..Least(sn.endLine, sn.line) \subseteq Dashed'
    <3>1. ASSUME NEW n \in sn.startLine..Least(sn.endLine, sn.line) PROVE n \in Dashed'
      <4>1. n \in Int /\ sn.startLine <= n /\ n <= sn.endLine /\ n <= sn.line
        BY <1>3, <3>1 DEF Least
      <4>2. CASE n = sn.line
        BY <2>5, <4>1, <4>2 DEF InSpan
      <4>3. CASE n # sn.line
        <5>1. n \in sn.startLine..Least(sn.endLine, sn.line - 1)
          BY <1>3, <4>1, <4>3 DEF Least
        <5> QED
          BY <2>1, <2>5, <5>1 DEF LabelShown
      <4> QED
        BY <4>2, <4>3
    <3> QED
      BY <3>1
  <2>8. \A l \in 1..(labels - 1) :
            FirstLine(Now.labels[l])..FinalLine(Now.labels[l]) \subseteq Dashed'
    BY <2>1, <2>5 DEF LabelShown
  <2> QED
    BY <1>5, <2>6, <2>7, <2>8 DEF After
<1> QED
  BY <1>4, <1>5 DEF After

\* What has to be listed at the end of a snippet.
LEMMA ShownIfListed ==
    ASSUME phase' = "labels", labels' = labels,
      HasSpan(Now)' =>
          /\ ListsIn(out', MarkRows("^")', FirstLine(Now.location)', FinalLine(Now.location)')
          /\ labels = 0 => ListsIn(out', Rows("text")',
                                   IF FirstLine(Now.location)' > 1
                                   THEN FirstLine(Now.location)' - 1 ELSE 1,
                                   Least(FinalLine(Now.location)' + 1, LineOf(Size)'))
          /\ \A l \in 1..labels :
                 FirstLine(Now.labels[l])'..FinalLine(Now.labels[l])' \subseteq Dashed'
    PROVE  ShownInv'
<1> DEFINE first == FirstLine(Now.location)'
           final == FinalLine(Now.location)'
<1>1. SUFFICES ASSUME HasSpan(Now)' PROVE SpanShown'
  BY DEF ShownInv, SpanShown
<1>2. Lists(MarkRows("^"), FirstLine(Now.location), FinalLine(Now.location))'
  BY <1>1 DEF Lists, ListsIn
<1>3. labels' = 0 => Lists(Rows("text"), IF FirstLine(Now.location) > 1
                                         THEN FirstLine(Now.location) - 1 ELSE 1,
                           Least(FinalLine(Now.location) + 1, LineOf(Size)))'
  <2>1. ASSUME labels = 0
        PROVE  ListsIn(out', Rows("text")', IF first > 1 THEN first - 1 ELSE 1,
                       Least(final + 1, LineOf(Size)'))
    BY <1>1, <2>1
  <2>2. Least(FinalLine(Now.location) + 1, LineOf(Size))' = Least(final + 1, LineOf(Size)')
    BY DEF Least
  <2> QED
    BY <2>1, <2>2 DEF Lists, ListsIn
<1>4. ASSUME NEW l \in 1..labels',
             NEW n \in FirstLine(Now.labels[l])'..FinalLine(Now.labels[l])'
      PROVE  \E k \in MarkRows("-")' : out'[k].line = n
  <2>1. n \in Dashed'
    BY <1>1
  <2> QED
    BY <2>1 DEF Dashed
<1> QED
  BY <1>2, <1>3, <1>4 DEF SpanShown

\* With its last line the snippet is complete.
LEMMA LoopLeft ==
    ASSUME Inv, LocalsInv, ShownInv, phase = "lines", PrintFrame, current' = current,
           labels' = labels, phase' = "labels", After(sn.last)
    PROVE  ShownInv'
<1>1. /\ Least(sn.endLine, sn.last) = sn.endLine
      /\ sn.last = Least(sn.endLine + 1, LineOf(Size))
      /\ LoopTypes /\ labels \in Nat
  BY LoopComplete, LoopTyped DEF Inv, PrintInv
<1>2. /\ sn.startLine = FirstLine(MarkedSpan) /\ sn.endLine = FinalLine(MarkedSpan)
  BY <1>1 DEF LoopTypes
<1>3. SUFFICES ASSUME HasSpan(Now)' PROVE
          /\ ListsIn(out', MarkRows("^")', FirstLine(Now.location)', FinalLine(Now.location)')
          /\ labels = 0 => ListsIn(out', Rows("text")',
                                   IF FirstLine(Now.location)' > 1
                                   THEN FirstLine(Now.location)' - 1 ELSE 1,
                                   Least(FinalLine(Now.location)' + 1, LineOf(Size)'))
          /\ \A l \in 1..labels :
                 FirstLine(Now.labels[l])'..FinalLine(Now.labels[l])' \subseteq Dashed'
  BY ShownIfListed
<1>4. HasSpan(Now)
  BY <1>3, SpansStay
<1>5. CASE labels = 0
  <2>1. MarkedSpan = Now.location
    BY <1>5 DEF MarkedSpan
  <2>2. /\ ListsIn(out', MarkRows("^")', FirstLine(Now.location), FinalLine(Now.location))
        /\ ListsIn(out', Rows("text")', Begin(sn), sn.last)
    BY <1>1, <1>2, <1>5, <2>1 DEF After
  <2>3. Begin(sn) = IF FirstLine(Now.location) > 1 THEN FirstLine(Now.location) - 1 ELSE 1
    <3>1. sn.startLine = FirstLine(Now.location) /\ sn.startLine \in Nat
      BY <1>1, <1>2, <2>1 DEF LoopTypes
    <3>2. sn.startLine >= 1
      BY LoopFacts
    <3> QED
      BY <1>5, <3>1, <3>2 DEF Begin
  <2>4. sn.last = Least(FinalLine(Now.location) + 1, LineOf(Size))
    BY <1>1, <1>2, <2>1
  <2>5. /\ FirstLine(Now.location)' = FirstLine(Now.location)
        /\ FinalLine(Now.location)' = FinalLine(Now.location)
        /\ LineOf(Size)' = LineOf(Size)
    <3>1. \A o : LineOf(o)' = LineOf(o)
      BY SpansStay
    <3> QED
      BY <3>1, SpansStay DEF LineOf
  <2>6. \A l \in 1..labels : FALSE
    BY <1>5
  <2> QED
    BY <2>2, <2>3, <2>4, <2>5, <2>6
<1>6. CASE labels # 0
  <2>1. MarkedSpan = Now.labels[labels]
    BY <1>6 DEF MarkedSpan
  <2>2. /\ ListsIn(out', MarkRows("^")', FirstLine(Now.location), FinalLine(Now.location))
        /\ \A l \in 1..(labels - 1) :
               FirstLine(Now.labels[l])..FinalLine(Now.labels[l]) \subseteq Dashed'
        /\ FirstLine(Now.labels[labels])..FinalLine(Now.labels[labels]) \subseteq Dashed'
    BY <1>1, <1>2, <1>4, <1>6, <2>1 DEF After
  <2>3. \A l \in 1..labels : l \in 1..(labels - 1) \/ l = labels
    BY <1>1
  <2>4. \A l \in 1..labels :
            FirstLine(Now.labels[l])..FinalLine(Now.labels[l]) \subseteq Dashed'
    BY <2>2, <2>3
  <2> QED
    BY <1>6, <2>2, <2>4, SpansStay
<1> QED
  BY <1>5, <1>6

LEMMA ShownLine ==
    ASSUME Inv, LocalsInv, Titled, ShownInv, [Next]_vars, PrintLine
    PROVE  ShownInv'
<1>1. /\ PrintFrame /\ current' = current /\ labels' = labels /\ phase = "lines"
      /\ Now' = Now /\ HasSpan(Now)' = HasSpan(Now)
  BY LineFacts
<1>2. After(sn.line)
  BY LineAfter
<1>3. CASE phase' = "labels"
  <2>1. sn.line = Len(LineStarts) /\ sn.line <= sn.last /\ sn.last <= Len(LineStarts)
        /\ sn.line \in Nat /\ sn.last \in Nat
    BY <1>1, <1>3, LineFacts, LoopComplete, LoopFacts
  <2>2. sn.line = sn.last
    BY <2>1
  <2> QED
    BY <1>1, <1>2, <1>3, <2>2, LoopLeft
<1>4. CASE phase' = "lines"
  <2>1. /\ sn'.line = sn.line + 1
        /\ sn'.startLine = sn.startLine /\ sn'.endLine = sn.endLine
    BY <1>4, LineFacts
  <2>2. sn'.line - 1 = sn.line /\ (Begin(sn))' = Begin(sn)
    <3>1. sn.line \in Nat
      BY <1>1, LoopTyped DEF LoopTypes
    <3> QED
      BY <1>1, <2>1, <3>1 DEF Begin
  <2>3. ASSUME labels' = 0 PROVE MainShown(sn.line - 1)'
    BY <1>1, <1>2, <2>1, <2>2, <2>3 DEF After, MainShown, Lists, ListsIn, Least
  <2>4. ASSUME labels' # 0, HasSpan(Now)' PROVE LabelShown(sn.line - 1)'
    <3>1. /\ ListsIn(out', MarkRows("^")', FirstLine(Now.location), FinalLine(Now.location))
          /\ \A l \in 1..(labels - 1) :
                 FirstLine(Now.labels[l])..FinalLine(Now.labels[l]) \subseteq Dashed'
          /\ sn.startLine..Least(sn.endLine, sn.line) \subseteq Dashed'
      BY <1>1, <1>2, <2>4 DEF After
    <3>2. Lists(MarkRows("^"), FirstLine(Now.location), FinalLine(Now.location))'
      BY <1>1, <3>1, SpansStay DEF Lists, ListsIn
    <3>3. (\A l \in 1..(labels - 1) :
               FirstLine(Now.labels[l])..FinalLine(Now.labels[l]) \subseteq Dashed)'
      BY <1>1, <3>1, SpansStay
    <3>4. (sn.startLine..Least(sn.endLine, sn.line - 1) \subseteq Dashed)'
      BY <2>1, <2>2, <3>1 DEF Least
    <3> QED
      BY <3>2, <3>3, <3>4 DEF LabelShown
  <2> QED
    BY <1>4, <2>3, <2>4 DEF ShownInv, SpanShown
<1> QED
  BY <1>3, <1>4, LineFacts

LEMMA ShownNext ==
    ASSUME Inv, LocalsInv, Titled, ShownInv, [Next]_vars
    PROVE  ShownInv'
<1>1. CASE UNCHANGED vars
  <2>1. /\ Now' = Now /\ HasSpan(Now)' = HasSpan(Now) /\ UNCHANGED <<out, sn, labels, phase>>
        /\ PrintFrame /\ current' = current
    BY <1>1 DEF vars, deVars, smVars, PrintFrame, Now, HasSpan
  <2>2. /\ Rows("text")' = Rows("text") /\ Rows("mark")' = Rows("mark")
        /\ \A mark : MarkRows(mark)' = MarkRows(mark) /\ Dashed' = Dashed
    BY <2>1 DEF Rows, MarkRows, TitleAt, Dashed
  <2>3. /\ ShownInv
        /\ Begin(sn)' = Begin(sn) /\ LineOf(Size)' = LineOf(Size)
    BY <2>1, SpansStay DEF Begin, LineOf
  <2>4. /\ phase' = "main" => Rows("text")' = {} /\ Rows("mark")' = {}
        /\ phase' = "lines" /\ labels' = 0 => MainShown(sn.line - 1)'
    BY <2>1, <2>2, <2>3 DEF ShownInv, MainShown, Lists, Least
  <2>5. phase' = "lines" /\ labels' # 0 /\ HasSpan(Now)' => LabelShown(sn.line - 1)'
    BY <2>1, <2>2, <2>3, SpansStay DEF ShownInv, LabelShown, Lists, Least
  <2>6. SpanShown'
    BY <2>1, <2>2, <2>3, SpansStay DEF ShownInv, SpanShown, Lists, Least
  <2> QED
    BY <2>4, <2>5, <2>6 DEF ShownInv
<1>2. CASE EndSnippet
  <2>1. /\ PrintFrame /\ current' = current /\ labels' = labels /\ phase = "lines"
        /\ phase' = "labels" /\ UNCHANGED <<out, sn>> /\ sn.line > sn.last
    BY <1>2 DEF EndSnippet, PrintFrame, smVars
  <2>2. sn.line - 1 = sn.last
    <3>1. sn.line \in Nat /\ sn.last \in Nat /\ sn.line <= sn.last + 1
      BY <2>1, LoopFacts DEF AtLine
    <3> QED
      BY <2>1, <3>1
  <2>3. Dashed' = Dashed /\ MarkRows("^")' = MarkRows("^") /\ Rows("text")' = Rows("text")
    BY <2>1 DEF Dashed, MarkRows, Rows, TitleAt
  <2>4. After(sn.last)
    BY <2>1, <2>2, <2>3 DEF ShownInv, MainShown, LabelShown, After, Lists, ListsIn
  <2> QED
    BY <2>1, <2>4, LoopLeft
<1>3. CASE Silent /\ ~EndSnippet /\ ~UNCHANGED vars
  <2>1. phase' \notin Underway
    BY <1>3 DEF Silent, EmitSimple, MakeSourceManager, BuildLineIndex, WithSourceManager,
       Emit, PrintAll, PrintedAll, deVars, Underway
  <2> QED
    BY <2>1 DEF ShownInv, SpanShown, Underway
<1>4. CASE PrintTitle
  <2>1. /\ phase' = (IF HasSpan(Now) THEN "main" ELSE "labels")
        /\ HasSpan(Now)' = HasSpan(Now)
        /\ Rows("text")' = {} /\ Rows("mark")' = {}
    BY <1>4, TitleFacts, TitleNew
  <2> QED
    BY <2>1 DEF ShownInv, SpanShown
<1>5. CASE PrintRest
  <2>1. phase' = "title"
    BY <1>5 DEF PrintRest
  <2> QED
    BY <2>1 DEF ShownInv, SpanShown
<1> QED
  BY <1>1, <1>2, <1>3, <1>4, <1>5, ShownOpened, ShownLine, Steps

\* Every line of a span is printed and marked, once and in order, with the lines of
\* context around it, and every line of a label is marked (printSnippet,
\* DiagnosticEngine.cpp:89-181).
THEOREM SpanIsShown == Spec => []SpanShown
<1>1. Init => Titled /\ ShownInv
  BY DEF Init, Titled, ShownInv, SpanShown, Underway
<1>2. Inv /\ LocalsInv /\ Titled /\ ShownInv /\ [Next]_vars => (Titled /\ ShownInv)'
  BY TitledNext, ShownNext
<1>3. ShownInv => SpanShown
  BY DEF ShownInv
<1> QED
  BY <1>1, <1>2, <1>3, LocalsKept, PTL DEF Spec
-----------------------------------------------------------------------------
(* Marks are under the line they mark.                                     *)

UnderIn(o, t, k) ==
    \E j \in t..(k - 1) : /\ o[j].row = "text" /\ o[j].line = o[k].line
                          /\ \A i \in (j + 1)..k : o[i].row = "mark"

\* The last line of text of an output of n rows, with nothing behind it but marks.
EndsIn(o, t, n, line) ==
    \E j \in t..n : /\ o[j].row = "text" /\ o[j].line = line
                    /\ \A i \in (j + 1)..n : o[i].row = "mark"
EndsAt(line) == EndsIn(out, TitleAt, Len(out), line)
AllUnder == \A k \in Rows("mark") : UnderIn(out, TitleAt, k)

LEMMA UnderStays ==
    ASSUME NEW o, NEW p, NEW n \in Nat, NEW t \in 1..n, NEW k \in 1..n, UnderIn(o, t, k),
           \A i \in 1..n : p[i] = o[i]
    PROVE  UnderIn(p, t, k)
<1>1. PICK j \in t..(k - 1) : /\ o[j].row = "text" /\ o[j].line = o[k].line
                              /\ \A i \in (j + 1)..k : o[i].row = "mark"
  BY DEF UnderIn
<1>2. j \in 1..n /\ \A i \in (j + 1)..k : i \in 1..n
  OBVIOUS
<1>3. p[j] = o[j] /\ p[k] = o[k] /\ \A i \in (j + 1)..k : p[i] = o[i]
  BY <1>2
<1>4. p[j].row = "text" /\ p[j].line = p[k].line /\ \A i \in (j + 1)..k : p[i].row = "mark"
  BY <1>1, <1>3
<1> QED
  BY <1>4 DEF UnderIn

\* Marks that are added behind the line with which the output ends are under it.
LEMMA UnderEnd ==
    ASSUME NEW o, NEW p, NEW n \in Nat, NEW t \in 1..n, NEW line, EndsIn(o, t, n, line),
           \A i \in 1..n : p[i] = o[i], p[n + 1].row = "mark", p[n + 1].line = line
    PROVE  UnderIn(p, t, n + 1)
<1>1. PICK j \in t..n : /\ o[j].row = "text" /\ o[j].line = line
                        /\ \A i \in (j + 1)..n : o[i].row = "mark"
  BY DEF EndsIn
<1>2. j \in t..((n + 1) - 1) /\ j \in 1..n
  OBVIOUS
<1>3. ASSUME NEW i \in (j + 1)..(n + 1) PROVE p[i].row = "mark"
  <2>1. i = n + 1 \/ (i \in (j + 1)..n /\ i \in 1..n)
    OBVIOUS
  <2> QED
    BY <1>1, <2>1
<1> QED
  BY <1>1, <1>2, <1>3 DEF UnderIn

\* The line that a label's snippet leaves out is the last of the main snippet.
SkipLine == Least(countLines, LineOf(Now.location.to) + 1)

LEMMA CtxEnd == Inv => (phase \in Underway => MainCtxEndLine = SkipLine)
<1> SUFFICES ASSUME Inv, phase \in Underway PROVE MainCtxEndLine = SkipLine
  OBVIOUS
<1>1. LocationsRight /\ Now.location.to \in Nat
  BY PrintingFacts DEF Underway, Early, Inv, PrintInv
<1> QED
  BY <1>1 DEF LocationsRight, LocationOf, MainCtxEndLine, SkipLine

LEMMA MainEndsThere ==
    ASSUME Inv, LocalsInv, phase = "lines", labels = 0, AsParsed
    PROVE  sn.last = SkipLine
<1>1. /\ sn.last = Least(countLines, sn.endLine + 1)
      /\ sn.endLine = FinalLine(Now.location) /\ HasSpan(Now)
  BY LoopTyped DEF LocalsInv, Locals, LoopTypes, MarkedSpan
<1>2. /\ Now.location.from \in Nat /\ Now.location.to \in Nat
      /\ Now.location.from <= Now.location.to
  BY <1>1, LoopFacts DEF MarkedSpan, AsParsed
<1>3. Size \in Nat /\ Newlines \subseteq 0..(Size - 1)
  BY LoopFacts, BuiltFacts
<1>4. End(Now.location) = Least(Now.location.to, Size)
  BY <1>2, <1>3 DEF End, Start, Least
<1>5. LineOf(Least(Now.location.to, Size)) = LineOf(Now.location.to)
  <2>1. CASE Now.location.to < Size
    BY <2>1 DEF Least
  <2>2. CASE ~(Now.location.to < Size)
    <3>1. \A o \in 0..(Size - 1) : o < Size /\ o < Now.location.to
      BY <1>2, <1>3, <2>2
    <3>2. {o \in Newlines : o < Size} = {o \in Newlines : o < Now.location.to}
      BY <1>3, <3>1
    <3> QED
      BY <2>2, <3>2 DEF Least, LineOf
  <2> QED
    BY <2>1, <2>2
<1> QED
  BY <1>1, <1>4, <1>5 DEF SkipLine, FinalLine

LEMMA ParsedStays ==
    ASSUME Inv, [Next]_vars, PrintFrame, current' = current, phase \in Underway,
           phase' \in Underway
    PROVE  /\ SkipLine' = SkipLine /\ MainCtxEndLine = SkipLine /\ MainCtxEndLine' = SkipLine
           /\ AsParsed' <=> AsParsed
<1>1. SkipLine' = SkipLine
  BY SpansStay DEF SkipLine, Least, LineOf
<1>2. (Inv => (phase \in Underway => MainCtxEndLine = SkipLine))'
  BY CtxEnd, PTL
<1>3. MainCtxEndLine = SkipLine /\ MainCtxEndLine' = SkipLine
  BY <1>1, <1>2, CtxEnd, InvNext
<1>4. \A l : ReachesSkipped(Now.labels[l])' <=> ReachesSkipped(Now.labels[l])
  BY <1>3, SpansStay DEF ReachesSkipped
<1>5. AsParsed' <=> AsParsed
  BY <1>4, SpansStay DEF AsParsed
<1> QED
  BY <1>1, <1>3, <1>5

UnderInv ==
    phase \in Underway /\ AsParsed =>
        /\ AllUnder
        /\ phase = "lines" /\ labels = 0 /\ Begin(sn) < sn.line => EndsAt(sn.line - 1)
        /\ phase = "labels" /\ labels = 0 /\ HasSpan(Now) /\ Size > 0 => EndsAt(SkipLine)
        /\ phase = "lines" /\ labels # 0 /\ HasSpan(Now) /\ sn.line = Begin(sn) =>
               EndsAt(SkipLine)

\* What is under its text stays there when rows are added that are no titles.
LEMMA AllUnderStays ==
    ASSUME HasTitle, RowSeq(out), AllUnder, TitleAt' = TitleAt, Len(out) \in Nat,
           \A k \in 1..Len(out) : out'[k] = out[k], NEW k \in Rows("mark")
    PROVE  UnderIn(out', TitleAt', k)
<1>1. TitleAt \in 1..Len(out)
  BY RowDomain DEF HasTitle
<1>2. k \in 1..Len(out) /\ UnderIn(out, TitleAt, k)
  BY <1>1 DEF AllUnder, Rows
<1> DEFINE o == out
           q == out'
           t == TitleAt
           n == Len(out)
<1>3. UnderIn(o, t, k) /\ t \in 1..n /\ k \in 1..n /\ n \in Nat /\ \A i \in 1..n : q[i] = o[i]
  BY <1>1, <1>2
<1> HIDE DEF o, q, t, n
<1>4. UnderIn(q, t, k)
  BY <1>3, UnderStays
<1> QED
  BY <1>4 DEF q, t

\* Without a span a snippet leaves nothing out; the first label's leaves out the line
\* with which the output ends.
LEMMA UnderOpened ==
    ASSUME Inv, LocalsInv, Titled, UnderInv, [Next]_vars, MainSnippet \/ LabelSnippet
    PROVE  UnderInv'
<1>1. /\ PrintFrame /\ current' = current /\ phase \in {"main", "labels"}
      /\ labels' = (IF phase = "main" THEN labels ELSE labels + 1)
      /\ labels \in Nat /\ (phase = "main" => labels = 0)
      /\ Size = 0 => phase' = "labels"
      /\ Size # 0 => phase' = "lines" /\ (sn.line = Begin(sn))'
      /\ phase \in Underway /\ phase' \in Underway /\ Size \in Nat
  <2>1. Size \in Nat
    BY DEF Inv, IndexInv, Size
  <2> QED
    BY <2>1, OpenFacts DEF Underway
<1>2. HasTitle /\ RowSeq(out) /\ Len(out) \in Nat
  BY <1>1, RowDomain DEF Titled, Inv, RowsShown, RowSeq
<1>3. SUFFICES ASSUME AsParsed' PROVE
          /\ AllUnder'
          /\ phase' = "labels" /\ labels' = 0 /\ HasSpan(Now)' => ~(Size' > 0)
          /\ phase' = "lines" => (sn.line = Begin(sn))'
          /\ phase' = "lines" /\ labels' # 0 /\ HasSpan(Now)' => EndsAt(SkipLine)'
  <2>1. phase' = "lines" => (sn.line = Begin(sn))' /\ ~(Begin(sn) < sn.line)'
    BY <1>1, LoopTypedNext DEF LoopTypes
  <2> QED
    BY <2>1 DEF UnderInv
<1>4. /\ AsParsed /\ SkipLine' = SkipLine /\ Now' = Now /\ HasSpan(Now)' = HasSpan(Now)
      /\ Size' = Size
  BY <1>1, <1>3, ParsedStays, SpansStay
<1>5. AllUnder /\ (phase = "labels" /\ labels = 0 /\ HasSpan(Now) /\ Size > 0 => EndsAt(SkipLine))
  BY <1>1, <1>4 DEF UnderInv
<1>6. PICK rows : /\ Write(rows) /\ RowSeq(rows)
                  /\ \A k \in DOMAIN rows : rows[k].row = "border"
  BY OpenFacts
<1>7. TitleAt' = TitleAt /\ \A k \in 1..Len(out) : out'[k] = out[k]
  <2>1. \A k \in DOMAIN rows : rows[k].row # "title"
    BY <1>6
  <2> QED
    BY <1>2, <1>6, <2>1, TitleStays, Written
<1>8. Rows("mark")' = Rows("mark")
  <2>1. PICK n : n = Len(out)
    OBVIOUS
  <2>2. {i \in DOMAIN rows : rows[i].row = "mark"} = {}
    BY <1>6
  <2>3. \A k \in DOMAIN rows : rows[k].row # "title"
    BY <1>6
  <2>4. Rows("mark")' = Rows("mark") \cup
                          {n + j : j \in {i \in DOMAIN rows : rows[i].row = "mark"}}
    BY <1>2, <1>6, <2>1, <2>3, RowsAdded
  <2> QED
    BY <2>2, <2>4
<1>9. AllUnder'
  <2>1. \A k \in Rows("mark") : UnderIn(out', TitleAt', k)
    BY <1>2, <1>5, <1>7, AllUnderStays
  <2> QED
    BY <1>8, <2>1 DEF AllUnder
<1>10. ASSUME phase' = "lines", labels' # 0, HasSpan(Now)' PROVE EndsAt(SkipLine)'
  <2>1. phase = "labels" /\ labels' = labels + 1 /\ Size > 0 /\ HasSpan(Now)
    BY <1>1, <1>4, <1>10
  <2>2. labels = 0
    <3>1. LabelSnippet
      BY <2>1 DEF MainSnippet
    <3>2. labels < Len(Now.labels)
      BY <3>1 DEF LabelSnippet
    <3>3. Len(Now.labels) <= 1
      BY <1>4 DEF AsParsed
    <3>4. Len(Now.labels) \in Nat
      <4>1. Now.labels \in Seq([from : Nat, to : Nat, text : STRING])
        BY <1>1, PrintingFacts, OpenFacts DEF Early
      <4> QED
        BY <4>1
    <3> QED
      BY <1>1, <3>2, <3>3, <3>4
  <2>3. EndsAt(SkipLine)
    BY <1>5, <2>1, <2>2
  <2>4. out' = out
    <3>1. OpenSnippet(Now.labels[labels + 1], FALSE, FALSE, "-",
                      Now.labels[labels + 1].text, MainCtxEndLine)
      BY <2>1 DEF MainSnippet, LabelSnippet
    <3>2. Size = 0 \/ Write(<<>>)
      BY <3>1 DEF OpenSnippet
    <3>3. Write(<<>>)
      BY <2>1, <3>2
    <3>4. PICK S : out \in Seq(S)
      BY <1>2 DEF RowSeq
    <3> QED
      BY <3>3, <3>4, ConcatEmptySeq DEF Write
  <2> QED
    BY <1>4, <1>7, <2>3, <2>4 DEF EndsAt
<1>11. phase' = "labels" => ~(Size' > 0)
  BY <1>1, <1>4
<1> QED
  BY <1>1, <1>9, <1>10, <1>11

\* A round of the loop puts its marks under its text, or, where it leaves the text
\* out, under the line the output ends with.
LEMMA LineUnder ==
    ASSUME Inv, LocalsInv, Titled, UnderInv, AsParsed, PrintLine
    PROVE  /\ \A k \in Rows("mark")' : UnderIn(out', TitleAt', k)
           /\ Shown => EndsIn(out', TitleAt', Len(out'), sn.line)
<1>1. /\ phase = "lines" /\ sn.line <= sn.last /\ LoopTypes /\ Locals(sn) /\ labels \in Nat
      /\ labels = 0 => HasSpan(Now)
  BY LineFacts, LoopTyped, LoopFacts DEF LocalsInv
<1>2. HasTitle /\ RowSeq(out) /\ AllUnder
  BY <1>1 DEF Titled, Underway, Inv, RowsShown, RowSeq, UnderInv
<1> DEFINE n == Len(out)
           t == TitleAt
           o == out
           o2 == out'
<1>3. /\ t' = t /\ n \in Nat /\ t \in 1..n /\ Len(o2) = n + Len(LineRows)
      /\ \A k \in 1..n : o2[k] = o[k]
      /\ Rows("mark")' = Rows("mark") \cup (IF InSpan THEN {MarkPlace} ELSE {})
      /\ Shown => o2[TextPlace] = TextNow
      /\ InSpan => o2[MarkPlace] = MarkNow
  BY <1>2, LineAdded
<1>4. /\ TextNow.row = "text" /\ TextNow.line = sn.line
      /\ MarkNow.row = "mark" /\ MarkNow.line = sn.line
  BY DEF TextNow, TextRow, MarkNow, Marks, MarkRow
<1>5. \A k \in Rows("mark") : UnderIn(o2, t', k)
  BY <1>2, <1>3, AllUnderStays
<1>6. ASSUME Shown
      PROVE  /\ InSpan => UnderIn(o2, t, n + 2)
             /\ EndsIn(o2, t, Len(o2), sn.line)
  <2>1. /\ o2[n + 1].row = "text" /\ o2[n + 1].line = sn.line
        /\ InSpan => o2[n + 2].row = "mark" /\ o2[n + 2].line = sn.line
        /\ Len(o2) = IF InSpan THEN n + 2 ELSE n + 1
    <3>1. /\ InSpan => LineRows = <<TextNow, MarkNow>>
          /\ ~InSpan => LineRows = <<TextNow>>
      BY <1>6 DEF LineRows
    <3>2. Len(LineRows) = IF InSpan THEN 2 ELSE 1
      BY <3>1
    <3> QED
      BY <1>3, <1>4, <1>6, <3>2 DEF TextPlace, MarkPlace
  <2> HIDE DEF n, t, o2
  <2>2. ASSUME InSpan PROVE UnderIn(o2, t, n + 2)
    <3>1. n + 1 \in t..((n + 2) - 1)
      BY <1>3
    <3>2. ASSUME NEW i \in ((n + 1) + 1)..(n + 2) PROVE o2[i].row = "mark"
      <4>1. i = n + 2
        BY <1>3
      <4> QED
        BY <2>1, <2>2, <4>1
    <3> QED
      BY <2>1, <2>2, <3>1, <3>2 DEF UnderIn
  <2>3. EndsIn(o2, t, Len(o2), sn.line)
    <3>1. n + 1 \in t..Len(o2)
      BY <1>3, <2>1
    <3>2. ASSUME NEW i \in ((n + 1) + 1)..Len(o2) PROVE o2[i].row = "mark"
      <4>1. InSpan /\ i = n + 2
        BY <1>3, <2>1
      <4> QED
        BY <2>1, <4>1
    <3> QED
      BY <2>1, <3>1, <3>2 DEF EndsIn
  <2> QED
    BY <2>2, <2>3
<1>7. ASSUME ~Shown, InSpan PROVE UnderIn(o2, t, n + 1)
  <2>1. sn.skip # 0 /\ sn.line = sn.skip /\ sn.skip = Skip
    BY <1>1, <1>7 DEF Shown, Locals
  <2>2. labels # 0 /\ HasSpan(Now) /\ Skip = SkipLine
    BY <2>1 DEF Skip, SkipLine
  <2>3. sn.line = Begin(sn)
    <3>1. labels \in DOMAIN Now.labels
      <4>1. labels <= Len(Now.labels)
        BY <1>1, LoopFacts
      <4>2. Now.labels \in Seq([from : Nat, to : Nat, text : STRING])
        BY <1>1, PrintingFacts, LoopFacts DEF Early
      <4> QED
        BY <1>1, <2>2, <4>1, <4>2
    <3>2. ~ReachesSkipped(Now.labels[labels])
      BY <3>1 DEF AsParsed
    <3>3. MainCtxEndLine = SkipLine
      BY <1>1, CtxEnd DEF Underway
    <3>4. /\ sn.startLine = FirstLine(Now.labels[labels])
          /\ sn.endLine = FinalLine(Now.labels[labels])
          /\ sn.startLine \in Nat /\ sn.line \in Nat
      BY <1>1, <2>2 DEF LoopTypes, MarkedSpan
    <3>5. ~(sn.startLine < sn.line /\ sn.line <= sn.endLine)
      BY <2>1, <2>2, <3>2, <3>3, <3>4 DEF ReachesSkipped
    <3> QED
      BY <1>7, <2>2, <3>4, <3>5 DEF InSpan, Begin
  <2>4. EndsIn(o, t, n, sn.line)
    BY <1>1, <2>1, <2>2, <2>3 DEF UnderInv, EndsAt, Underway
  <2>5. o2[n + 1].row = "mark" /\ o2[n + 1].line = sn.line
    BY <1>3, <1>4, <1>7 DEF MarkPlace
  <2> HIDE DEF n, t, o, o2
  <2> QED
    BY <1>3, <2>4, <2>5, UnderEnd
<1>8. \A k \in Rows("mark")' : UnderIn(o2, t', k)
  <2>1. MarkPlace = IF Shown THEN n + 2 ELSE n + 1
    BY DEF MarkPlace
  <2>2. ASSUME NEW k \in Rows("mark")' PROVE k \in Rows("mark") \/ (InSpan /\ k = MarkPlace)
    BY <1>3
  <2> HIDE DEF n, t, o2
  <2> QED
    BY <1>3, <1>5, <1>6, <1>7, <2>1, <2>2
<1> QED
  BY <1>3, <1>6, <1>8

LEMMA UnderLine ==
    ASSUME Inv, LocalsInv, Titled, UnderInv, [Next]_vars, PrintLine
    PROVE  UnderInv'
<1>1. /\ PrintFrame /\ current' = current /\ labels' = labels /\ phase = "lines"
      /\ Now' = Now /\ HasSpan(Now)' = HasSpan(Now) /\ sn.line <= sn.last
      /\ \/ /\ phase' = "lines" /\ sn'.line = sn.line + 1
            /\ sn'.startLine = sn.startLine /\ sn'.endLine = sn.endLine
         \/ phase' = "labels" /\ sn' = sn /\ sn.line = Len(LineStarts)
  BY LineFacts
<1>2. SUFFICES ASSUME AsParsed' PROVE
          /\ AllUnder'
          /\ phase' = "lines" /\ labels' = 0 => EndsAt(sn.line - 1)'
          /\ phase' = "labels" /\ labels' = 0 => EndsAt(SkipLine)'
          /\ ~(phase' = "lines" /\ (sn.line = Begin(sn))' /\ HasSpan(Now)' /\ labels' # 0)
  BY DEF UnderInv
<1>3. AsParsed /\ SkipLine' = SkipLine
  BY <1>1, <1>2, ParsedStays DEF Underway
<1>4. /\ \A k \in Rows("mark")' : UnderIn(out', TitleAt', k)
      /\ Shown => EndsIn(out', TitleAt', Len(out'), sn.line)
  BY <1>3, LineUnder
<1>5. AllUnder'
  BY <1>4 DEF AllUnder
<1>6. sn.line \in Nat /\ sn.last \in Nat /\ sn.last <= Len(LineStarts)
  BY <1>1, LoopFacts, LoopComplete
<1>7. ASSUME labels = 0 PROVE Shown
  BY <1>1, <1>7 DEF Shown, LocalsInv, Locals, Skip
<1>8. ASSUME phase' = "lines", labels' = 0 PROVE EndsAt(sn.line - 1)'
  <2>1. sn'.line - 1 = sn.line
    BY <1>1, <1>6, <1>8
  <2> QED
    BY <1>1, <1>4, <1>7, <1>8, <2>1 DEF EndsAt
<1>9. ASSUME phase' = "labels", labels' = 0 PROVE EndsAt(SkipLine)'
  <2>1. sn.line = sn.last
    BY <1>1, <1>6, <1>9
  <2>2. sn.last = SkipLine
    BY <1>1, <1>3, <1>9, MainEndsThere
  <2> QED
    BY <1>1, <1>3, <1>4, <1>7, <1>9, <2>1, <2>2 DEF EndsAt
<1>10. ASSUME phase' = "lines", (sn.line = Begin(sn))' PROVE FALSE
  <2>1. (Begin(sn))' = Begin(sn) /\ sn'.line = sn.line + 1
    BY <1>1, <1>10 DEF Begin
  <2>2. Begin(sn) <= sn.line /\ Begin(sn) \in Int
    <3>1. sn.startLine \in Nat
      BY <1>1, LoopTyped DEF LoopTypes
    <3> QED
      BY <1>1, <3>1 DEF LocalsInv, Locals, Begin
  <2> QED
    BY <1>6, <1>10, <2>1, <2>2
<1> QED
  BY <1>5, <1>8, <1>9, <1>10

LEMMA UnderNext ==
    ASSUME Inv, LocalsInv, Titled, UnderInv, [Next]_vars
    PROVE  UnderInv'
<1>1. CASE UNCHANGED vars
  <2>1. /\ UNCHANGED <<out, sn, labels, phase, current>> /\ PrintFrame /\ UNCHANGED Cache
    BY <1>1 DEF vars, deVars, smVars, PrintFrame
  <2>2. /\ Rows("mark")' = Rows("mark") /\ TitleAt' = TitleAt /\ Begin(sn)' = Begin(sn)
        /\ Now' = Now /\ HasSpan(Now)' = HasSpan(Now) /\ Size' = Size
    BY <2>1, SpansStay DEF Rows, TitleAt, Begin
  <2>3. phase \in Underway => SkipLine' = SkipLine /\ (AsParsed' <=> AsParsed)
    BY <2>1, ParsedStays
  <2>4. AllUnder' <=> AllUnder
    BY <2>1, <2>2 DEF AllUnder
  <2>5. phase \in Underway /\ SkipLine' = SkipLine =>
            /\ EndsAt(SkipLine)' <=> EndsAt(SkipLine)
            /\ EndsAt(sn.line - 1)' <=> EndsAt(sn.line - 1)
    BY <2>1, <2>2 DEF EndsAt
  <2> QED
    BY <2>1, <2>2, <2>3, <2>4, <2>5 DEF UnderInv
<1>2. CASE EndSnippet
  <2>1. /\ PrintFrame /\ current' = current /\ labels' = labels /\ phase = "lines"
        /\ phase' = "labels" /\ UNCHANGED <<out, sn>> /\ sn.line > sn.last
    BY <1>2 DEF EndSnippet, PrintFrame, smVars
  <2>2. SUFFICES ASSUME AsParsed' PROVE AllUnder' /\ (labels = 0 => EndsAt(SkipLine)')
    BY <2>1 DEF UnderInv
  <2>3. AsParsed /\ SkipLine' = SkipLine
    BY <2>1, <2>2, ParsedStays DEF Underway
  <2>4. /\ AllUnder /\ (labels = 0 /\ Begin(sn) < sn.line => EndsAt(sn.line - 1))
        /\ TitleAt' = TitleAt /\ Rows("mark")' = Rows("mark")
    BY <2>1, <2>3 DEF UnderInv, Underway, TitleAt, Rows
  <2>5. ASSUME labels = 0 PROVE Begin(sn) < sn.line /\ sn.line - 1 = SkipLine
    <3>1. sn.last = SkipLine
      BY <2>1, <2>3, <2>5, MainEndsThere
    <3>2. /\ sn.line \in Nat /\ sn.last \in Nat /\ sn.line <= sn.last + 1
          /\ sn.startLine \in Nat /\ sn.endLine \in Nat /\ sn.startLine <= sn.endLine
      BY <2>1, LoopFacts, LoopTyped DEF AtLine, LoopTypes
    <3>3. sn.endLine <= sn.last
      BY <2>1, <3>2, LoopComplete DEF Least
    <3> QED
      BY <2>1, <3>1, <3>2, <3>3 DEF Begin
  <2> QED
    BY <2>1, <2>3, <2>4, <2>5 DEF AllUnder, EndsAt
<1>3. CASE Silent /\ ~EndSnippet /\ ~UNCHANGED vars
  <2>1. phase' \notin Underway
    BY <1>3 DEF Silent, EmitSimple, MakeSourceManager, BuildLineIndex, WithSourceManager,
       Emit, PrintAll, PrintedAll, deVars, Underway
  <2> QED
    BY <2>1 DEF UnderInv
<1>4. CASE PrintTitle
  <2>1. /\ phase' = (IF HasSpan(Now) THEN "main" ELSE "labels")
        /\ HasSpan(Now)' = HasSpan(Now) /\ Rows("mark")' = {}
    BY <1>4, TitleFacts, TitleNew
  <2> QED
    BY <2>1 DEF UnderInv, AllUnder
<1>5. CASE PrintRest
  <2>1. phase' = "title"
    BY <1>5 DEF PrintRest
  <2> QED
    BY <2>1 DEF UnderInv, Underway
<1> QED
  BY <1>1, <1>2, <1>3, <1>4, <1>5, UnderOpened, UnderLine, Steps

\* A mark stands under the line it marks, though a label's snippet leaves out the line
\* with which the main one ended, for the diagnostics the parser makes: one label at
\* most, which does not begin before that line and reach it
\* (DiagnosticEngine.cpp:141-175, 288-307).
THEOREM MarksAreUnderText == Spec => []MarksUnderText
<1>1. Init => Titled /\ UnderInv
  BY DEF Init, Titled, UnderInv, Underway
<1>2. Inv /\ LocalsInv /\ Titled /\ UnderInv /\ [Next]_vars => (Titled /\ UnderInv)'
  BY TitledNext, UnderNext
<1>3. UnderInv => MarksUnderText
  BY DEF UnderInv, AllUnder, UnderIn, MarksUnderText, Underway
<1> QED
  BY <1>1, <1>2, <1>3, LocalsKept, PTL DEF Spec
-----------------------------------------------------------------------------
(* Everything is said.                                                     *)

SaidRows == {k \in TitleAt..Len(out) : Says(out[k])}

\* Numbers behind the others of a set are counted on.
Longer(R, n, c) == R \cup ((n + 1)..(n + c))

LEMMA NthRun ==
    ASSUME NEW R, NEW n \in Nat, R \subseteq 1..n, NEW c \in Nat
    PROVE  /\ Cardinality(R) \in Nat
           /\ Cardinality(Longer(R, n, c)) = Cardinality(R) + c
           /\ \A k \in R : Nth(Longer(R, n, c), k) = Nth(R, k)
           /\ \A j \in 1..c : Nth(Longer(R, n, c), n + j) = Cardinality(R) + j
<1> DEFINE Q == R \cup ((n + 1)..(n + c))
<1> USE DEF Longer
<1>1. IsFiniteSet(R) /\ Cardinality(R) \in Nat
  <2>1. IsFiniteSet(1..n)
    BY FS_Interval
  <2> QED
    BY <2>1, FS_Subset, FS_CardinalityType
<1>2. ASSUME NEW j \in 0..c
      PROVE  Cardinality(R \cup ((n + 1)..(n + j))) = Cardinality(R) + j
  <2> DEFINE J == (n + 1)..(n + j)
  <2>1. IsFiniteSet(J) /\ Cardinality(J) = j
    BY FS_Interval
  <2>2. R \cap J = {}
    OBVIOUS
  <2>3. Cardinality(R \cap J) = 0
    BY <2>2, FS_EmptySet
  <2> HIDE DEF J
  <2>4. Cardinality(R \cup J) = Cardinality(R) + Cardinality(J) - Cardinality(R \cap J)
    BY <1>1, <2>1, FS_Union
  <2>5. Cardinality(R \cup J) = Cardinality(R) + j
    BY <1>1, <2>1, <2>3, <2>4
  <2> QED
    BY <2>5 DEF J
<1>3. ASSUME NEW k \in R PROVE {i \in Q : i <= k} = {i \in R : i <= k}
  OBVIOUS
<1>4. ASSUME NEW j \in 1..c PROVE {i \in Q : i <= n + j} = R \cup ((n + 1)..(n + j))
  <2>1. \A i \in R : i \in Nat /\ i <= n + j
    OBVIOUS
  <2>2. {i \in (n + 1)..(n + c) : i <= n + j} = (n + 1)..(n + j)
    OBVIOUS
  <2>3. {i \in Q : i <= n + j} = R \cup {i \in (n + 1)..(n + c) : i <= n + j}
    BY <2>1
  <2> QED
    BY <2>2, <2>3
<1>5. c \in 0..c /\ \A j \in 1..c : j \in 0..c
  OBVIOUS
<1>6. ASSUME NEW j \in 1..c PROVE Nth(Q, n + j) = Cardinality(R) + j
  <2>1. Nth(Q, n + j) = Cardinality(R \cup ((n + 1)..(n + j)))
    BY <1>4 DEF Nth
  <2>2. Cardinality(R \cup ((n + 1)..(n + j))) = Cardinality(R) + j
    BY <1>2, <1>5
  <2> QED
    BY <2>1, <2>2, Zenon
<1>7. \A k \in R : Nth(Q, k) = Nth(R, k)
  BY <1>3 DEF Nth
<1>8. Cardinality(Q) = Cardinality(R) + c
  BY <1>2, <1>5
<1> QED
  BY <1>1, <1>6, <1>7, <1>8

\* The words of a diagnostic, part by part.
Led == IF HasSpan(Now) /\ Size > 0 /\ Now.helps # <<>> THEN 1 ELSE 0
Labelled == IF Size > 0 THEN Len(Now.labels) ELSE 0

LEMMA Places ==
    ASSUME NEW f \in Nat, NEW m \in Nat, NEW a \in Nat
    PROVE  /\ \A k \in 1..(1 + f + m) : k \in 1..(1 + f + m + a)
           /\ \A k \in 1..(1 + f) : k \in 1..(1 + f + m)
           /\ \A k \in 1..m : 1 + f + k \in 1..(1 + f + m)
           /\ \A k \in 1..a : 1 + f + m + k \in 1..(1 + f + m + a)
           /\ 1 \in 1..(1 + f) /\ (f = 1 => 2 \in 1..(1 + f))
<1>1. \A k \in 1..(1 + f + m) : k \in 1..(1 + f + m + a)
  OBVIOUS
<1>2. \A k \in 1..(1 + f) : k \in 1..(1 + f + m)
  OBVIOUS
<1>3. \A k \in 1..m : 1 + f + k \in 1..(1 + f + m)
  OBVIOUS
<1>4. \A k \in 1..a : 1 + f + m + k \in 1..(1 + f + m + a)
  OBVIOUS
<1>5. 1 \in 1..(1 + f) /\ (f = 1 => 2 \in 1..(1 + f))
  OBVIOUS
<1> QED
  BY <1>1, <1>2, <1>3, <1>4, <1>5

LEMMA Words ==
    ASSUME Now \in Diagnostic, NEW w, w = ToBeSaid(Now), NEW rest, rest = Remaining(Now.helps),
           NEW a, a = Len(Now.notes), NEW b, b = Len(rest)
    PROVE  /\ Labelled \in Nat /\ a \in Nat /\ b \in Nat /\ Led \in {0, 1}
           /\ Len(w) = 1 + Led + Labelled + a + b
           /\ w[1] = Now.message
           /\ Led = 1 => w[2] = Head(Now.helps)
           /\ \A l \in 1..Labelled : w[1 + Led + l] = Now.labels[l].text
           /\ \A j \in 1..a : w[1 + Led + Labelled + j] = Now.notes[j]
           /\ \A j \in 1..b : w[1 + Led + Labelled + a + j] = rest[j]
<1> DEFINE p == <<Now.message>>
           q == IF HasSpan(Now) /\ Size > 0 /\ Now.helps # <<>> THEN <<Head(Now.helps)>>
                ELSE <<>>
           r == IF Size > 0 THEN [l \in DOMAIN Now.labels |-> Now.labels[l].text] ELSE <<>>
           s == Now.notes
<1>1. /\ Now.labels \in Seq([from : Nat, to : Nat, text : STRING])
      /\ Now.notes \in Seq(STRING) /\ Now.helps \in Seq(STRING)
  BY DEF Diagnostic, Location
<1>2. rest \in Seq(STRING) /\ rest = IF Now.helps # <<>> THEN Tail(Now.helps) ELSE <<>>
  <2>1. CASE Now.helps = <<>>
    BY <2>1 DEF Remaining
  <2>2. CASE Now.helps # <<>>
    BY <1>1, <2>2, HeadTailProperties DEF Remaining
  <2> QED
    BY <2>1, <2>2
<1>3. w = p \o q \o r \o s \o rest
  BY <1>2 DEF ToBeSaid
<1>4. RowSeq(p) /\ Len(p) = 1 /\ p[1] = Now.message
  BY RowSeqs
<1>5. RowSeq(q) /\ Len(q) = Led /\ Led \in {0, 1} /\ (Led = 1 => q[1] = Head(Now.helps))
  BY RowSeqs DEF Led
<1>6. RowSeq(r) /\ Len(r) = Labelled /\ Labelled \in Nat
      /\ \A l \in 1..Labelled : r[l] = Now.labels[l].text
  <2>1. DOMAIN Now.labels = 1..Len(Now.labels) /\ Len(Now.labels) \in Nat
    BY <1>1
  <2>2. CASE Size > 0
    <3> DEFINE S == {Now.labels[l].text : l \in DOMAIN Now.labels}
    <3>1. r = [l \in 1..Len(Now.labels) |-> Now.labels[l].text]
      BY <2>1, <2>2
    <3>2. r \in [1..Len(Now.labels) -> S]
      BY <2>1, <3>1
    <3>3. \A l \in 1..Len(Now.labels) : r[l] = Now.labels[l].text
      BY <3>1
    <3> HIDE DEF S, r
    <3>4. r \in Seq(S) /\ Len(r) = Len(Now.labels)
      BY <2>1, <3>2
    <3> QED
      BY <2>1, <2>2, <3>3, <3>4 DEF Labelled, RowSeq
  <2>3. CASE ~(Size > 0)
    BY <2>3, RowSeqs DEF Labelled
  <2> QED
    BY <2>2, <2>3
<1>7. RowSeq(s) /\ Len(s) = a /\ a \in Nat /\ RowSeq(rest) /\ b \in Nat
  BY <1>1, <1>2 DEF RowSeq
<1> DEFINE f == Led
           m == Labelled
           pq == p \o q
           pqr == pq \o r
           pqrs == pqr \o s
<1> HIDE DEF p, q, r, s, f, m
<1>8. /\ RowSeq(pq) /\ Len(pq) = 1 + f /\ pq[1] = Now.message
      /\ f = 1 => pq[2] = Head(Now.helps)
  <2>1. /\ RowSeq(pq) /\ Len(pq) = Len(p) + Len(q)
        /\ \A k \in 1..Len(p) : pq[k] = p[k]
        /\ \A k \in 1..Len(q) : pq[Len(p) + k] = q[k]
    <3>1. RowSeq(p) /\ RowSeq(q)
      BY <1>4, <1>5
    <3> QED
      BY <3>1, Joined
  <2> HIDE DEF pq
  <2> QED
    BY <1>4, <1>5, <2>1 DEF f
<1> HIDE DEF pq
<1>9. /\ RowSeq(pqr) /\ Len(pqr) = 1 + f + m /\ \A k \in 1..(1 + f) : pqr[k] = pq[k]
      /\ \A k \in 1..m : pqr[1 + f + k] = Now.labels[k].text
  <2>1. /\ RowSeq(pqr) /\ Len(pqr) = Len(pq) + Len(r)
        /\ \A k \in 1..Len(pq) : pqr[k] = pq[k]
        /\ \A k \in 1..Len(r) : pqr[Len(pq) + k] = r[k]
    <3>1. RowSeq(pq) /\ RowSeq(r)
      BY <1>6, <1>8
    <3> QED
      BY <3>1, Joined
  <2> HIDE DEF pqr
  <2> QED
    BY <1>6, <1>8, <2>1 DEF m
<1> HIDE DEF pqr
<1>10. /\ RowSeq(pqrs) /\ Len(pqrs) = 1 + f + m + a
       /\ \A k \in 1..(1 + f + m) : pqrs[k] = pqr[k]
       /\ \A k \in 1..a : pqrs[1 + f + m + k] = s[k]
  <2>1. /\ RowSeq(pqrs) /\ Len(pqrs) = Len(pqr) + Len(s)
        /\ \A k \in 1..Len(pqr) : pqrs[k] = pqr[k]
        /\ \A k \in 1..Len(s) : pqrs[Len(pqr) + k] = s[k]
    <3>1. RowSeq(pqr) /\ RowSeq(s)
      BY <1>7, <1>9
    <3> QED
      BY <3>1, Joined
  <2> HIDE DEF pqrs
  <2> QED
    BY <1>7, <1>9, <2>1
<1> HIDE DEF pqrs
<1>11. /\ Len(w) = 1 + f + m + a + b
       /\ \A k \in 1..(1 + f + m + a) : w[k] = pqrs[k]
       /\ \A k \in 1..b : w[1 + f + m + a + k] = rest[k]
  <2>1. w = pqrs \o rest
    BY <1>3 DEF pqrs, pqr, pq
  <2>2. /\ Len(pqrs \o rest) = Len(pqrs) + Len(rest)
        /\ \A k \in 1..Len(pqrs) : (pqrs \o rest)[k] = pqrs[k]
        /\ \A k \in 1..Len(rest) : (pqrs \o rest)[Len(pqrs) + k] = rest[k]
    <3>1. RowSeq(pqrs) /\ RowSeq(rest)
      BY <1>7, <1>10
    <3> QED
      BY <3>1, Joined
  <2> QED
    BY <1>7, <1>10, <2>1, <2>2
<1>12. f \in {0, 1} /\ m \in Nat /\ a \in Nat /\ b \in Nat
  BY <1>5, <1>6, <1>7 DEF f, m
<1>13. /\ \A k \in 1..(1 + f + m) : k \in 1..(1 + f + m + a)
       /\ \A k \in 1..(1 + f) : k \in 1..(1 + f + m)
       /\ \A k \in 1..m : 1 + f + k \in 1..(1 + f + m)
       /\ \A k \in 1..a : 1 + f + m + k \in 1..(1 + f + m + a)
       /\ 1 \in 1..(1 + f) /\ (f = 1 => 2 \in 1..(1 + f))
  <2>1. f \in Nat /\ m \in Nat /\ a \in Nat
    BY <1>12
  <2> QED
    BY <2>1, Places
<1>14. w[1] = Now.message /\ (f = 1 => w[2] = Head(Now.helps))
  BY <1>8, <1>9, <1>10, <1>11, <1>13
<1>15. ASSUME NEW l \in 1..m PROVE w[1 + f + l] = Now.labels[l].text
  BY <1>9, <1>10, <1>11, <1>13
<1>16. ASSUME NEW j \in 1..a PROVE w[1 + f + m + j] = Now.notes[j]
  BY <1>10, <1>11, <1>13 DEF s
<1> QED
  BY <1>11, <1>12, <1>14, <1>15, <1>16 DEF f, m

-----------------------------------------------------------------------------
(* The rows that say something.                                            *)

Sayers(rows) == {i \in DOMAIN rows : Says(rows[i])}

\* Which of them there are behind some more rows.
LEMMA SaidAdded ==
    ASSUME RowSeq(out), HasTitle, NEW rows, RowSeq(rows), Write(rows),
           \A k \in DOMAIN rows : rows[k].row # "title", NEW n, n = Len(out)
    PROVE  /\ SaidRows' = SaidRows \cup {n + j : j \in Sayers(rows)}
           /\ SaidRows \subseteq 1..n /\ n \in Nat
           /\ \A k \in 1..n : out'[k] = out[k]
           /\ \A j \in DOMAIN rows : out'[n + j] = rows[j]
<1>1. /\ n \in Nat /\ Len(rows) \in Nat
      /\ DOMAIN out = 1..n /\ DOMAIN rows = 1..Len(rows)
      /\ Len(out') = n + Len(rows)
      /\ \A k \in 1..n : out'[k] = out[k]
      /\ \A j \in 1..Len(rows) : out'[n + j] = rows[j]
  BY Written
<1>2. TitleAt' = TitleAt /\ TitleAt \in 1..n
  BY <1>1, TitleStays DEF HasTitle
<1> DEFINE t == TitleAt
<1>3. SaidRows' = {k \in t..(n + Len(rows)) : Says(out'[k])}
  BY <1>1, <1>2 DEF SaidRows, Says
<1>4. SaidRows = {k \in t..n : Says(out[k])}
  BY DEF SaidRows
<1>5. t \in 1..n
  BY <1>2
<1> DEFINE S == {i \in 1..Len(rows) : Says(rows[i])}
           New == {n + j : j \in S}
<1> HIDE DEF t
<1>6. ASSUME NEW k
      PROVE  k \in t..(n + Len(rows)) /\ Says(out'[k])
                 <=> (k \in t..n /\ Says(out[k])) \/ k \in New
  <2>1. CASE k \in t..n
    BY <1>1, <1>5, <2>1
  <2>2. CASE k \notin t..n
    <3>1. ASSUME k \in New PROVE k \in t..(n + Len(rows)) /\ Says(out'[k])
      <4>1. PICK j \in 1..Len(rows) : Says(rows[j]) /\ k = n + j
        BY <3>1
      <4>2. out'[k] = rows[j] /\ k \in t..(n + Len(rows))
        BY <1>1, <1>5, <4>1
      <4> QED
        BY <4>1, <4>2
    <3>2. ASSUME k \in t..(n + Len(rows)), Says(out'[k]) PROVE k \in New
      <4>1. k - n \in 1..Len(rows) /\ k = n + (k - n)
        BY <1>1, <1>5, <2>2, <3>2
      <4>2. out'[k] = rows[k - n]
        BY <1>1, <4>1
      <4>3. Says(rows[k - n])
        BY <3>2, <4>2
      <4> QED
        BY <4>1, <4>3
    <3> QED
      BY <2>2, <3>1, <3>2
  <2> QED
    BY <2>1, <2>2
<1>7. SaidRows' = SaidRows \cup New
  <2> HIDE DEF New, S
  <2> QED
    BY <1>3, <1>4, <1>6
<1> HIDE DEF S
<1>9. Sayers(rows) = S
  BY <1>1 DEF Sayers, S
<1>8. SaidRows \subseteq 1..n
  BY <1>1, <1>4, <1>5
<1> QED
  BY <1>1, <1>7, <1>8, <1>9

\* Few of them.
LEMMA FewSayers ==
    /\ Sayers(<<>>) = {}
    /\ \A q : Sayers(<<q>>) = IF Says(q) THEN {1} ELSE {}
    /\ \A q, r : ~Says(q) => Sayers(<<q, r>>) = IF Says(r) THEN {2} ELSE {}
<1>1. Sayers(<<>>) = {}
  BY DEF Sayers
<1>2. ASSUME NEW q PROVE Sayers(<<q>>) = IF Says(q) THEN {1} ELSE {}
  <2> DEFINE rows == <<q>>
  <2>1. DOMAIN rows = {1} /\ rows[1] = q
    OBVIOUS
  <2> HIDE DEF rows
  <2>2. Sayers(rows) = IF Says(q) THEN {1} ELSE {}
    BY <2>1 DEF Sayers
  <2> QED
    BY <2>2 DEF rows
<1>3. ASSUME NEW q, NEW r, ~Says(q) PROVE Sayers(<<q, r>>) = IF Says(r) THEN {2} ELSE {}
  <2> DEFINE rows == <<q, r>>
  <2>1. DOMAIN rows = {1, 2} /\ rows[1] = q /\ rows[2] = r
    OBVIOUS
  <2> HIDE DEF rows
  <2>2. Sayers(rows) = IF Says(r) THEN {2} ELSE {}
    BY <1>3, <2>1 DEF Sayers
  <2> QED
    BY <2>2 DEF rows
<1> QED
  BY <1>1, <1>2, <1>3

\* Some rows say the first words.
Tells(o, rows, c, words) ==
    /\ Cardinality(rows) = c
    /\ \A k \in rows : Said(o[k]) = words[Nth(rows, k)]

LEMMA TellsSame ==
    ASSUME NEW o, NEW p, NEW rows, NEW c, NEW words, Tells(o, rows, c, words),
           \A k \in rows : p[k] = o[k]
    PROVE  Tells(p, rows, c, words)
  BY DEF Tells

LEMMA TellsMore ==
    ASSUME NEW o, NEW p, NEW rows, NEW c, NEW words, Tells(o, rows, c, words),
           NEW n \in Nat, rows \subseteq 1..n, \A k \in rows : p[k] = o[k], NEW m \in Nat,
           \A j \in 1..m : Said(p[n + j]) = words[c + j]
    PROVE  Tells(p, Longer(rows, n, m), c + m, words)
<1> DEFINE more == Longer(rows, n, m)
<1>1. Cardinality(rows) = c /\ \A k \in rows : Said(o[k]) = words[Nth(rows, k)]
  BY DEF Tells
<1>2. /\ Cardinality(more) = Cardinality(rows) + m
      /\ \A k \in rows : Nth(more, k) = Nth(rows, k)
      /\ \A j \in 1..m : Nth(more, n + j) = Cardinality(rows) + j
  BY NthRun
<1> HIDE DEF more
<1>3. ASSUME NEW k \in rows PROVE Said(p[k]) = words[Nth(more, k)]
  <2>1. p[k] = o[k] /\ Nth(more, k) = Nth(rows, k)
    BY <1>2
  <2> QED
    BY <1>1, <2>1
<1>4. ASSUME NEW k \in (n + 1)..(n + m) PROVE Said(p[k]) = words[Nth(more, k)]
  <2>1. PICK j \in 1..m : k = n + j
    <3>1. k - n \in 1..m /\ k = n + (k - n)
      OBVIOUS
    <3> QED
      BY <3>1
  <2>2. Nth(more, n + j) = c + j
    BY <1>1, <1>2
  <2> QED
    BY <2>1, <2>2
<1>5. \A k \in more : k \in rows \/ k \in (n + 1)..(n + m)
  BY DEF more, Longer
<1>6. Tells(p, more, c + m, words)
  BY <1>1, <1>2, <1>3, <1>4, <1>5 DEF Tells
<1> QED
  BY <1>6 DEF more

\* How many words have been said when the loop is at a line, and altogether.
SoFar(line) ==
    IF labels = 0 THEN 1 + IF line > sn.endLine THEN Led ELSE 0
    ELSE Led + labels + IF line > sn.endLine THEN 1 ELSE 0
SaidSoFar ==
    CASE phase = "main" -> 1
      [] phase = "lines" -> SoFar(sn.line)
      [] phase = "labels" -> 1 + Led + IF Size > 0 THEN labels ELSE 0

LEMMA SoFarMoves ==
    ASSUME labels \in Nat, Led \in {0, 1}, sn.endLine \in Nat, NEW line \in Nat
    PROVE  /\ SoFar(line) \in Nat
           /\ line # sn.endLine => SoFar(line + 1) = SoFar(line)
           /\ line = sn.endLine => /\ SoFar(line) = (IF labels = 0 THEN 1 ELSE Led + labels)
                                   /\ labels = 0 => SoFar(line + 1) = 1 + Led
                                   /\ labels # 0 => SoFar(line + 1) = SoFar(line) + 1
           /\ line > sn.endLine => SoFar(line) = 1 + Led + labels
           /\ line <= sn.endLine => SoFar(line) = (IF labels = 0 THEN 1 ELSE Led + labels)
<1> DEFINE l == labels
           f == Led
           e == sn.endLine
<1>1. /\ SoFar(line) = IF l = 0 THEN 1 + (IF line > e THEN f ELSE 0)
                       ELSE f + l + (IF line > e THEN 1 ELSE 0)
      /\ SoFar(line + 1) = IF l = 0 THEN 1 + (IF line + 1 > e THEN f ELSE 0)
                           ELSE f + l + (IF line + 1 > e THEN 1 ELSE 0)
  BY DEF SoFar
<1>2. l \in Nat /\ f \in {0, 1} /\ e \in Nat
  OBVIOUS
<1> DEFINE s == SoFar(line)
           t == SoFar(line + 1)
<1> HIDE DEF l, f, e, s, t
<1>3. /\ s = IF l = 0 THEN 1 + (IF line > e THEN f ELSE 0)
             ELSE f + l + (IF line > e THEN 1 ELSE 0)
      /\ t = IF l = 0 THEN 1 + (IF line + 1 > e THEN f ELSE 0)
             ELSE f + l + (IF line + 1 > e THEN 1 ELSE 0)
  BY <1>1 DEF s, t
<1>4. s \in Nat /\ (line # e => t = s)
  BY <1>2, <1>3
<1>5. line = e => /\ s = (IF l = 0 THEN 1 ELSE f + l)
                  /\ l = 0 => t = 1 + f
                  /\ l # 0 => t = s + 1
  BY <1>2, <1>3
<1>6. line > e => s = 1 + f + l
  BY <1>2, <1>3
<1>7. line <= e => s = (IF l = 0 THEN 1 ELSE f + l)
  BY <1>2, <1>3
<1> QED
  BY <1>4, <1>5, <1>6, <1>7 DEF l, f, e, s, t

SaidInv ==
    /\ phase \in Underway /\ Captioned(Now) =>
           Tells(out, SaidRows, SaidSoFar, ToBeSaid(Now))
    /\ SaysEverything

LEMMA WordsStay ==
    ASSUME PrintFrame
    PROVE  /\ current' = current => /\ Now' = Now /\ ToBeSaid(Now)' = ToBeSaid(Now)
                                    /\ Captioned(Now)' = Captioned(Now)
                                    /\ Led' = Led
           /\ Size' = Size /\ Diagnostics' = Diagnostics
<1>1. Size' = Size /\ Diagnostics' = Diagnostics
  BY DEF PrintFrame, Size
<1>2. ASSUME current' = current
      PROVE  /\ Now' = Now /\ ToBeSaid(Now)' = ToBeSaid(Now)
             /\ Captioned(Now)' = Captioned(Now) /\ Led' = Led
  <2>1. Now' = Now
    BY <1>1, <1>2 DEF Now
  <2> QED
    BY <1>1, <2>1 DEF ToBeSaid, Captioned, HasSpan, Led
<1> QED
  BY <1>1, <1>2

\* The title says the message.
LEMMA SaidTitle ==
    ASSUME Inv, PrintTitle
    PROVE  SaidInv'
<1>1. /\ PrintFrame /\ current' = current /\ labels' = 0 /\ Now' = Now
      /\ phase' = (IF HasSpan(Now) THEN "main" ELSE "labels")
      /\ phase = "title" /\ current \in DOMAIN Diagnostics
  BY TitleFacts
<1>2. /\ HasTitle' /\ out'[TitleAt'] = TitleRow(Now) /\ RowSeq(out')
      /\ \A kind : kind \notin {"title", "file", "place"} => Rows(kind)' = {}
  BY TitleNew
<1> DEFINE t == TitleAt'
<1>3. /\ t \in 1..Len(out') /\ Len(out') \in Nat
      /\ \A j \in (t + 1)..Len(out') : out'[j].row # "title"
  BY <1>2, RowDomain DEF HasTitle
<1>4. \A kind : Rows(kind)' = {k \in t..Len(out') : out'[k].row = kind}
  BY DEF Rows
<1>5. SaidRows' = {t}
  <2>1. SaidRows' = {k \in t..Len(out') : Says(out'[k])}
    BY DEF SaidRows, Says
  <2>2. ASSUME NEW k \in t..Len(out'), k # t PROVE ~Says(out'[k])
    <3>1. k \in (t + 1)..Len(out')
      BY <1>3, <2>2
    <3>2. out'[k].row # "title"
      BY <1>3, <3>1
    <3>3. out'[k].row \notin {"note", "help", "mark"}
      <4>1. Rows("note")' = {} /\ Rows("help")' = {} /\ Rows("mark")' = {}
        BY <1>2
      <4> QED
        BY <1>4, <2>2, <4>1
    <3> QED
      BY <3>2, <3>3 DEF Says
  <2>3. Says(out'[t]) /\ t \in t..Len(out')
    BY <1>2, <1>3 DEF Says, TitleRow
  <2> HIDE DEF t
  <2> QED
    BY <2>1, <2>2, <2>3
<1>6. Now \in Diagnostic
  BY <1>1, PrintingFacts DEF Early
<1>7. ToBeSaid(Now)[1] = Now.message
  BY <1>6, Words
<1>8. Cardinality({t}) = 1 /\ Nth({t}, t) = 1
  <2>1. Cardinality({t}) = 1
    BY FS_Singleton
  <2>2. {j \in {t} : j <= t} = {t}
    BY <1>3
  <2> QED
    BY <2>1, <2>2 DEF Nth
<1>9. Said(out'[t]) = Now.message
  BY <1>2 DEF Said, TitleRow
<1>10. Tells(out', {t}, 1, ToBeSaid(Now))
  BY <1>7, <1>8, <1>9 DEF Tells
<1>11. SaidSoFar' = 1
  <2>1. CASE HasSpan(Now)
    BY <1>1, <2>1 DEF SaidSoFar
  <2>2. CASE ~HasSpan(Now)
    <3>1. Led' = 0
      BY <1>1, <2>2, WordsStay DEF Led
    <3> QED
      BY <1>1, <2>2, <3>1 DEF SaidSoFar
  <2> QED
    BY <2>1, <2>2
<1>12. phase' # "title"
  BY <1>1
<1> QED
  BY <1>1, <1>5, <1>10, <1>11, <1>12, WordsStay DEF SaidInv, SaysEverything, Tells

\* A snippet that is opened says nothing yet.
LEMMA SaidOpened ==
    ASSUME Inv, LocalsInv, Titled, SaidInv, [Next]_vars, MainSnippet \/ LabelSnippet
    PROVE  SaidInv'
<1>1. /\ PrintFrame /\ current' = current /\ phase \in {"main", "labels"}
      /\ labels' = (IF phase = "main" THEN labels ELSE labels + 1)
      /\ labels \in Nat /\ (phase = "main" => labels = 0)
      /\ Size = 0 => phase' = "labels"
      /\ Size # 0 => phase' = "lines" /\ (sn.line = Begin(sn))'
      /\ \E rows : /\ Write(rows) /\ RowSeq(rows)
                   /\ \A k \in DOMAIN rows : rows[k].row = "border"
  BY OpenFacts
<1>2. Size \in Nat /\ Size' = Size /\ Led' = Led
  BY <1>1, WordsStay DEF Inv, IndexInv, Size
<1>3. phase' # "title" /\ phase \in Underway
  BY <1>1, <1>2 DEF Underway
<1>4. SUFFICES ASSUME Captioned(Now)'
               PROVE  Tells(out', SaidRows', SaidSoFar', ToBeSaid(Now))
  <2>1. ToBeSaid(Now)' = ToBeSaid(Now)
    BY <1>1, WordsStay
  <2> QED
    BY <1>3, <1>4, <2>1 DEF SaidInv, SaysEverything, Tells
<1>5. Tells(out, SaidRows, SaidSoFar, ToBeSaid(Now))
  BY <1>1, <1>3, <1>4, WordsStay DEF SaidInv
<1>6. PICK rows : /\ Write(rows) /\ RowSeq(rows)
                  /\ \A k \in DOMAIN rows : rows[k].row = "border"
  BY <1>1
<1>7. RowSeq(out) /\ HasTitle
  BY <1>3 DEF Inv, RowsShown, RowSeq, Titled
<1>8. SaidRows' = SaidRows /\ \A k \in SaidRows : out'[k] = out[k]
  <2>1. \A k \in DOMAIN rows : rows[k].row # "title" /\ ~Says(rows[k])
    BY <1>6 DEF Says
  <2>2. PICK n : n = Len(out)
    OBVIOUS
  <2>3. /\ SaidRows' = SaidRows \cup {n + j : j \in Sayers(rows)}
        /\ SaidRows \subseteq 1..n /\ \A k \in 1..n : out'[k] = out[k]
    BY <1>6, <1>7, <2>1, <2>2, SaidAdded
  <2>4. Sayers(rows) = {}
    BY <2>1 DEF Sayers
  <2> QED
    BY <2>3, <2>4
<1>9. SaidSoFar' = SaidSoFar
  <2>1. CASE Size = 0
    <3>1. Led = 0
      BY <2>1 DEF Led
    <3> QED
      BY <1>1, <1>2, <2>1, <3>1 DEF SaidSoFar
  <2>2. CASE Size # 0
    <3>1. phase' = "lines" /\ (sn.line = Begin(sn))' /\ LoopTypes'
      BY <1>1, <2>2, LoopTypedNext
    <3>2. /\ sn'.line = (Begin(sn))' /\ (Begin(sn))' \in Int /\ (Begin(sn))' <= sn'.startLine
          /\ sn'.startLine \in Nat /\ sn'.endLine \in Nat /\ sn'.startLine <= sn'.endLine
      BY <3>1 DEF Begin, LoopTypes
    <3>3. ~(sn'.line > sn'.endLine)
      BY <3>2
    <3>4. SaidSoFar' = IF labels' = 0 THEN 1 + 0 ELSE Led + labels' + 0
      BY <1>2, <3>1, <3>3 DEF SaidSoFar, SoFar
    <3>5. Led \in Nat /\ Size > 0
      BY <1>2, <2>2 DEF Led
    <3>6. CASE phase = "main"
      BY <1>1, <3>4, <3>6 DEF SaidSoFar
    <3>7. CASE phase = "labels"
      BY <1>1, <3>4, <3>5, <3>7 DEF SaidSoFar
    <3> QED
      BY <1>1, <3>6, <3>7
  <2> QED
    BY <2>1, <2>2
<1> QED
  BY <1>5, <1>8, <1>9, TellsSame

\* The caption is said with the last line of the span.
LEMMA SaidByLine ==
    ASSUME Inv, LocalsInv, Titled, PrintLine, Captioned(Now),
           Tells(out, SaidRows, SoFar(sn.line), ToBeSaid(Now))
    PROVE  Tells(out', SaidRows', SoFar(sn.line + 1), ToBeSaid(Now))
<1>1. /\ phase = "lines" /\ LoopTypes /\ Locals(sn) /\ labels \in Nat
      /\ labels = 0 => HasSpan(Now)
      /\ labels <= Len(Now.labels) /\ Now \in Diagnostic /\ Size # 0 /\ Size \in Nat
      /\ Write(LineRows) /\ RowSeq(LineRows)
  BY LineFacts, LoopTyped, LoopFacts DEF LocalsInv, Inv, IndexInv, Size
<1>2. HasTitle /\ RowSeq(out)
  BY <1>1 DEF Titled, Underway, Inv, RowsShown, RowSeq
<1>3. /\ sn.startLine \in Nat /\ sn.endLine \in Nat /\ sn.line \in Nat
      /\ sn.startLine <= sn.endLine
      /\ sn.caption = (IF labels = 0 THEN MainCaption ELSE Now.labels[labels].text)
  BY <1>1 DEF LoopTypes, Locals
<1> DEFINE n == Len(out)
           m == MarkPlace
           words == ToBeSaid(Now)
           last == InSpan /\ MarkNow.caption # ""
<1>4. /\ n \in Nat /\ m \in Nat /\ m > n
      /\ SaidRows' = SaidRows \cup (IF last THEN {m} ELSE {})
      /\ SaidRows \subseteq 1..n /\ \A k \in SaidRows : out'[k] = out[k]
      /\ InSpan => out'[m] = MarkNow
  <2>1. TextNow.row = "text" /\ MarkNow.row = "mark"
    BY DEF TextNow, TextRow, MarkNow, Marks, MarkRow
  <2> DEFINE q == TextNow
             r == MarkNow
             ls == LineRows
  <2>2. /\ (Shown /\ InSpan => ls = <<q, r>>) /\ (Shown /\ ~InSpan => ls = <<q>>)
        /\ (~Shown /\ InSpan => ls = <<r>>) /\ (~Shown /\ ~InSpan => ls = <<>>)
    BY DEF LineRows
  <2>3. ~Says(q) /\ (Says(r) <=> r.caption # "") /\ q.row # "title" /\ r.row # "title"
    BY <2>1 DEF Says
  <2>4. /\ \A i \in DOMAIN ls : ls[i].row # "title"
        /\ Sayers(ls) = (IF last THEN IF Shown THEN {2} ELSE {1} ELSE {})
    <3>1. last <=> InSpan /\ Says(r)
      BY <2>3
    <3>2. q.row # "title" /\ r.row # "title" /\ ~Says(q)
      BY <2>3
    <3> HIDE DEF q, r, ls, last
    <3>3. CASE Shown /\ InSpan
      <4>1. ls = <<q, r>>
        BY <2>2, <3>3
      <4>2. Sayers(ls) = (IF Says(r) THEN {2} ELSE {})
        BY <3>2, <4>1, FewSayers
      <4> QED
        BY <3>1, <3>2, <3>3, <4>1, <4>2
    <3>4. CASE Shown /\ ~InSpan
      <4>1. ls = <<q>>
        BY <2>2, <3>4
      <4>2. Sayers(ls) = {}
        BY <3>2, <4>1, FewSayers
      <4> QED
        BY <3>1, <3>2, <3>4, <4>1, <4>2
    <3>5. CASE ~Shown /\ InSpan
      <4>1. ls = <<r>>
        BY <2>2, <3>5
      <4>2. Sayers(ls) = (IF Says(r) THEN {1} ELSE {})
        BY <4>1, FewSayers
      <4> QED
        BY <3>1, <3>2, <3>5, <4>1, <4>2
    <3>6. CASE ~Shown /\ ~InSpan
      <4>1. ls = <<>>
        BY <2>2, <3>6
      <4>2. Sayers(ls) = {}
        BY <4>1, FewSayers
      <4> QED
        BY <3>1, <3>6, <4>1, <4>2
    <3> QED
      BY <3>3, <3>4, <3>5, <3>6
  <2>5. /\ SaidRows' = SaidRows \cup {n + j : j \in Sayers(ls)}
        /\ SaidRows \subseteq 1..n /\ n \in Nat
        /\ \A k \in 1..n : out'[k] = out[k]
    <3> HIDE DEF ls
    <3>1. Write(ls) /\ RowSeq(ls)
      BY <1>1 DEF ls
    <3>2. \A i \in DOMAIN ls : ls[i].row # "title"
      BY <2>4
    <3> QED
      BY <1>2, <3>1, <3>2, SaidAdded
  <2>7. InSpan => out'[m] = MarkNow
    BY <1>2, LineAdded
  <2>8. SaidRows' = SaidRows \cup
                      (IF last THEN IF Shown THEN {n + 2} ELSE {n + 1} ELSE {})
    <3>1. \A i \in Nat : {n + j : j \in {i}} = {n + i}
      OBVIOUS
    <3>2. {n + j : j \in {}} = {}
      OBVIOUS
    <3> HIDE DEF n, last, ls
    <3> QED
      BY <2>4, <2>5, <3>1, <3>2
  <2> QED
    <3>1. m = IF Shown THEN n + 2 ELSE n + 1
      BY DEF MarkPlace
    <3>2. /\ SaidRows \subseteq 1..n /\ n \in Nat /\ \A k \in SaidRows : out'[k] = out[k]
      BY <2>5
    <3> HIDE DEF n, m, last, ls, q, r
    <3>3. n \in Nat /\ m \in Nat /\ m > n
      BY <3>1, <3>2
    <3>4. SaidRows' = SaidRows \cup (IF last THEN {m} ELSE {})
      <4>1. CASE last
        <5>1. {m} = IF Shown THEN {n + 2} ELSE {n + 1}
          BY <3>1
        <5> QED
          BY <2>8, <4>1, <5>1
      <4>2. CASE ~last
        BY <2>8, <4>2
      <4> QED
        BY <4>1, <4>2
    <3> QED
      BY <2>7, <3>2, <3>3, <3>4
<1>5. MarkNow.caption = IF sn.line = sn.endLine THEN sn.caption ELSE ""
  BY DEF MarkNow, Marks, MarkRow
<1>6. last <=> sn.line = sn.endLine /\ sn.caption # ""
  <2>1. CASE sn.line = sn.endLine
    <3>1. InSpan /\ MarkNow.caption = sn.caption
      BY <1>3, <1>5, <2>1 DEF InSpan
    <3> QED
      BY <2>1, <3>1
  <2>2. CASE sn.line # sn.endLine
    <3>1. MarkNow.caption = ""
      BY <1>5, <2>2
    <3> QED
      BY <2>2, <3>1
  <2> QED
    BY <2>1, <2>2
<1>7. /\ Led \in {0, 1} /\ Labelled = Len(Now.labels)
      /\ Led = 1 => words[2] = Head(Now.helps)
      /\ \A l \in 1..Labelled : words[1 + Led + l] = Now.labels[l].text
  <2>1. Labelled = Len(Now.labels)
    BY <1>1 DEF Labelled
  <2>2. /\ Led \in {0, 1} /\ (Led = 1 => words[2] = Head(Now.helps))
        /\ \A l \in 1..Labelled : words[1 + Led + l] = Now.labels[l].text
    BY <1>1, Words, Zenon
  <2> QED
    BY <2>1, <2>2
<1> DEFINE c == SoFar(sn.line)
           d == SoFar(sn.line + 1)
<1>8. /\ c \in Nat
      /\ sn.line # sn.endLine => d = c
      /\ sn.line = sn.endLine => /\ c = (IF labels = 0 THEN 1 ELSE Led + labels)
                                 /\ labels = 0 => d = 1 + Led
                                 /\ labels # 0 => d = c + 1
  BY <1>1, <1>3, <1>7, SoFarMoves
<1>9. Said(MarkNow) = MarkNow.caption
  BY DEF Said, MarkNow, Marks, MarkRow
<1> HIDE DEF last, words, c, d
<1>10. (last => d = c + 1 /\ Said(MarkNow) = words[c + 1]) /\ (~last => d = c)
  <2>1. CASE sn.line # sn.endLine
    BY <1>6, <1>8, <2>1
  <2>2. CASE sn.line = sn.endLine /\ labels = 0
    <3>1. c = 1 /\ d = 1 + Led
      BY <1>8, <2>2
    <3>2. sn.caption = MainCaption /\ HasSpan(Now) /\ Size > 0
      BY <1>1, <1>3, <2>2
    <3>3. CASE Now.helps = <<>>
      <4>1. sn.caption = ""
        BY <3>2, <3>3 DEF MainCaption
      <4>2. Led = 0
        BY <3>3 DEF Led
      <4>3. d = c
        BY <3>1, <4>2
      <4>4. ~last
        BY <1>6, <4>1
      <4> QED
        BY <4>3, <4>4
    <3>4. CASE Now.helps # <<>>
      <4>1. sn.caption = Head(Now.helps)
        BY <3>2, <3>4 DEF MainCaption
      <4>2. Led = 1
        BY <3>2, <3>4 DEF Led
      <4>3. Head(Now.helps) # ""
        BY <3>4 DEF Captioned
      <4>4. words[2] = sn.caption
        BY <1>7, <4>1, <4>2
      <4>5. last /\ MarkNow.caption = sn.caption
        BY <1>5, <1>6, <2>2, <4>1, <4>3
      <4> QED
        BY <1>9, <3>1, <4>2, <4>4, <4>5
    <3> QED
      BY <3>3, <3>4
  <2>3. CASE sn.line = sn.endLine /\ labels # 0
    <3>1. labels \in 1..Len(Now.labels) /\ labels \in 1..Labelled
      BY <1>1, <1>7, <2>3
    <3>2. labels \in DOMAIN Now.labels
      BY <1>1, <3>1 DEF Diagnostic
    <3>3. sn.caption = Now.labels[labels].text /\ Now.labels[labels].text # ""
      BY <1>3, <2>3, <3>2 DEF Captioned
    <3>4. words[1 + Led + labels] = sn.caption
      BY <1>7, <3>1, <3>3
    <3>5. c = Led + labels /\ d = c + 1 /\ 1 + Led + labels = c + 1
      <4>1. Led \in Nat
        BY <1>7
      <4>2. c = Led + labels /\ d = c + 1
        BY <1>8, <2>3
      <4>3. 1 + Led + labels = Led + labels + 1
        BY <1>1, <4>1
      <4> QED
        BY <4>2, <4>3
    <3>6. last /\ MarkNow.caption = sn.caption
      BY <1>5, <1>6, <2>3, <3>3
    <3> QED
      BY <1>9, <3>4, <3>5, <3>6
  <2> QED
    BY <2>1, <2>2, <2>3
<1> DEFINE rows == SaidRows
           rows2 == SaidRows'
           o2 == out'
<1>11. Tells(out, rows, c, words)
  BY DEF c, words
<1>12. Tells(o2, rows2, d, words)
  <2>1. CASE ~last
    <3>1. rows2 = rows /\ (\A k \in rows : o2[k] = out[k]) /\ d = c
      BY <1>4, <1>10, <2>1
    <3> HIDE DEF o2, rows, rows2
    <3>2. Tells(o2, rows, c, words)
      BY <1>11, <3>1, TellsSame
    <3> QED
      BY <3>1, <3>2
  <2>2. CASE last
    <3> DEFINE b == m - 1
    <3>1. InSpan
      BY <2>2 DEF last
    <3> HIDE DEF m, n
    <3>2. rows \subseteq 1..b /\ b \in Nat /\ b + 1 = m
      <4>1. n \in Nat /\ m \in Nat /\ m > n /\ rows \subseteq 1..n
        BY <1>4
      <4> HIDE DEF rows
      <4> QED
        BY <4>1
    <3> HIDE DEF b
    <3>3. /\ rows2 = rows \cup {m} /\ (\A k \in rows : o2[k] = out[k])
          /\ Said(o2[b + 1]) = words[c + 1] /\ d = c + 1
      BY <1>4, <1>10, <2>2, <3>1, <3>2
    <3> HIDE DEF o2, rows, rows2
    <3>4. {m} = (b + 1)..(b + 1)
      BY <3>2
    <3>5. \A j \in 1..1 : Said(o2[b + j]) = words[c + j]
      BY <3>3
    <3>6. rows2 = Longer(rows, b, 1)
      BY <3>3, <3>4 DEF Longer
    <3>7. Tells(o2, Longer(rows, b, 1), c + 1, words)
      BY <1>11, <3>2, <3>3, <3>5, TellsMore
    <3> QED
      BY <3>3, <3>6, <3>7
  <2> QED
    BY <2>1, <2>2
<1> QED
  BY <1>12 DEF d, words

LEMMA SaidLine ==
    ASSUME Inv, LocalsInv, Titled, SaidInv, [Next]_vars, PrintLine
    PROVE  SaidInv'
<1>1. /\ PrintFrame /\ current' = current /\ labels' = labels /\ phase = "lines"
      /\ LoopTypes /\ labels \in Nat /\ Size # 0 /\ Size \in Nat
      /\ sn.endLine <= Len(LineStarts)
      /\ Len(LineStarts) \in Nat
      /\ \/ phase' = "lines" /\ sn'.line = sn.line + 1 /\ sn'.endLine = sn.endLine
         \/ phase' = "labels" /\ sn' = sn /\ sn.line = Len(LineStarts)
  BY LineFacts, LoopTyped, LoopFacts DEF Inv, IndexInv, Size
<1>2. phase' # "title" /\ phase \in Underway
  BY <1>1 DEF Underway
<1>3. SUFFICES ASSUME Captioned(Now)'
               PROVE  Tells(out', SaidRows', SaidSoFar', ToBeSaid(Now))
  <2>1. ToBeSaid(Now)' = ToBeSaid(Now)
    BY <1>1, WordsStay
  <2> QED
    BY <1>2, <1>3, <2>1 DEF SaidInv, SaysEverything, Tells
<1>4. Captioned(Now) /\ Led' = Led /\ Size' = Size
  BY <1>1, <1>3, WordsStay
<1>5. Tells(out, SaidRows, SoFar(sn.line), ToBeSaid(Now))
  BY <1>1, <1>2, <1>4 DEF SaidInv, SaidSoFar
<1>6. Tells(out', SaidRows', SoFar(sn.line + 1), ToBeSaid(Now))
  BY <1>4, <1>5, SaidByLine
<1>7. SaidSoFar' = SoFar(sn.line + 1)
  <2>1. sn.line \in Nat /\ sn.endLine \in Nat
    BY <1>1 DEF LoopTypes
  <2>2. CASE phase' = "lines"
    <3>1. sn'.line = sn.line + 1 /\ sn'.endLine = sn.endLine
      BY <1>1, <2>2
    <3> QED
      BY <1>1, <1>4, <2>2, <3>1 DEF SaidSoFar, SoFar
  <2>3. CASE phase' = "labels"
    <3>1. sn.line = Len(LineStarts)
      BY <1>1, <2>3
    <3>2. sn.line + 1 > sn.endLine /\ sn.line + 1 \in Nat
      BY <1>1, <2>1, <3>1
    <3>3. SaidSoFar' = 1 + Led + labels
      <4>1. Size' > 0
        BY <1>1, <1>4
      <4> QED
        BY <1>1, <1>4, <2>3, <4>1 DEF SaidSoFar
    <3>4. Led \in {0, 1}
      BY DEF Led
    <3>5. SoFar(sn.line + 1) = 1 + Led + labels
      BY <1>1, <2>1, <3>2, <3>4, SoFarMoves
    <3> QED
      BY <3>3, <3>5
  <2> QED
    BY <1>1, <2>2, <2>3
<1> QED
  BY <1>6, <1>7

\* Behind its last line a snippet has said its caption.
LEMMA SaidEnd ==
    ASSUME Inv, LocalsInv, SaidInv, EndSnippet
    PROVE  SaidInv'
<1>1. /\ PrintFrame /\ current' = current /\ labels' = labels /\ phase = "lines"
      /\ phase' = "labels" /\ UNCHANGED <<out, sn>> /\ sn.line > sn.last
  BY DEF EndSnippet, PrintFrame, smVars
<1>2. /\ LoopTypes /\ Least(sn.endLine, sn.last) = sn.endLine /\ labels \in Nat
      /\ Size # 0 /\ Size \in Nat
  BY <1>1, LoopTyped, LoopComplete, LoopFacts DEF Inv, IndexInv, Size
<1>3. sn.line > sn.endLine /\ sn.line \in Nat /\ sn.endLine \in Nat
  BY <1>1, <1>2 DEF LoopTypes, Least
<1>4. /\ Led' = Led /\ Size' = Size /\ ToBeSaid(Now)' = ToBeSaid(Now)
      /\ Captioned(Now)' = Captioned(Now) /\ SaidRows' = SaidRows
  BY <1>1, WordsStay DEF SaidRows, TitleAt
<1>5. Led \in {0, 1}
  BY DEF Led
<1>6. SoFar(sn.line) = 1 + Led + labels
  BY <1>2, <1>3, <1>5, SoFarMoves
<1>7. SaidSoFar = SoFar(sn.line)
  BY <1>1 DEF SaidSoFar
<1>8. SaidSoFar' = 1 + Led + labels
  <2>1. Size' > 0
    BY <1>2, <1>4
  <2> QED
    BY <1>1, <1>4, <2>1 DEF SaidSoFar
<1>9. Captioned(Now)' => Tells(out', SaidRows', SaidSoFar', ToBeSaid(Now)')
  BY <1>1, <1>4, <1>6, <1>7, <1>8 DEF SaidInv, Underway
<1> QED
  BY <1>1, <1>9 DEF SaidInv, SaysEverything, Tells

\* The notes and the other helps are said last.
LEMMA SaidRest ==
    ASSUME Inv, LocalsInv, Titled, SaidInv, PrintRest
    PROVE  SaidInv'
<1> DEFINE rest == Remaining(Now.helps)
           a == Len(Now.notes)
           b == Len(rest)
           words == ToBeSaid(Now)
           n == Len(out)
<1>1. /\ PrintFrame /\ current' = current + 1 /\ current \in Nat
      /\ phase = "labels" /\ phase' = "title" /\ Now \in Diagnostic /\ labels = Len(Now.labels)
      /\ a \in Nat /\ b \in Nat
      /\ \E rows : /\ Write(rows) /\ RowSeq(rows) /\ a + b <= Len(rows) /\ Len(rows) \in Nat
                   /\ \A k \in 1..a : rows[k] = NoteRow(Now.notes[k])
                   /\ \A k \in 1..b : rows[a + k] = HelpRow(rest[k])
                   /\ \A k \in (a + b + 1)..Len(rows) : rows[k].row = "ice"
  BY RestFacts DEF RestRows
<1>2. PICK rows : /\ Write(rows) /\ RowSeq(rows) /\ a + b <= Len(rows) /\ Len(rows) \in Nat
                  /\ \A k \in 1..a : rows[k] = NoteRow(Now.notes[k])
                  /\ \A k \in 1..b : rows[a + k] = HelpRow(rest[k])
                  /\ \A k \in (a + b + 1)..Len(rows) : rows[k].row = "ice"
  BY <1>1
<1>3. /\ Labelled \in Nat /\ Led \in {0, 1} /\ Len(words) = 1 + Led + Labelled + a + b
      /\ \A j \in 1..a : words[1 + Led + Labelled + j] = Now.notes[j]
      /\ \A j \in 1..b : words[1 + Led + Labelled + a + j] = rest[j]
  <2>1. /\ words = ToBeSaid(Now) /\ rest = Remaining(Now.helps) /\ a = Len(Now.notes)
        /\ b = Len(rest) /\ Now \in Diagnostic
    BY <1>1
  <2> HIDE DEF words, rest, a, b
  <2> QED
    BY <2>1, Words
<1>4. SaidSoFar = 1 + Led + Labelled
  BY <1>1 DEF SaidSoFar, Labelled
<1>5. RowSeq(out) /\ HasTitle /\ DOMAIN rows = 1..Len(rows)
  BY <1>1, <1>2, RowDomain DEF Inv, RowsShown, RowSeq, Titled, Underway
<1> DEFINE c == 1 + Led + Labelled
<1>6. c \in Nat
  BY <1>3
<1>7. /\ Diagnostics[current' - 1] = Now /\ Size' = Size /\ Diagnostics' = Diagnostics
      /\ phase' \notin Underway
  <2>1. current' - 1 = current
    BY <1>1
  <2> QED
    BY <1>1, <2>1, WordsStay DEF Now, Underway
<1>8. /\ Captioned(Diagnostics[current - 1])' = Captioned(Now)
      /\ ToBeSaid(Diagnostics[current - 1])' = words
  BY <1>7 DEF Captioned, ToBeSaid, HasSpan
<1>9. SUFFICES ASSUME Captioned(Now)
               PROVE  Tells(out', SaidRows', Len(words), words)
  BY <1>7, <1>8, <1>9 DEF SaidInv, SaysEverything, SaidRows, Tells
<1>10. Tells(out, SaidRows, c, words)
  BY <1>1, <1>4, <1>9 DEF SaidInv, Underway
<1> HIDE DEF rest, a, b, words, n, c
<1>11. ASSUME NEW k \in 1..Len(rows)
       PROVE  \/ /\ k \in 1..a /\ rows[k].row = "note" /\ Said(rows[k]) = Now.notes[k]
              \/ /\ k - a \in 1..b /\ rows[k].row = "help" /\ Said(rows[k]) = rest[k - a]
                 /\ k = a + (k - a)
              \/ k \in (a + b + 1)..Len(rows) /\ rows[k].row = "ice"
  <2>1. CASE k \in 1..a
    <3>1. rows[k] = NoteRow(Now.notes[k])
      BY <1>2, <2>1
    <3> QED
      BY <2>1, <3>1 DEF NoteRow, Said
  <2>2. CASE k \in (a + 1)..(a + b)
    <3>1. k - a \in 1..b /\ k = a + (k - a)
      BY <1>1, <2>2
    <3>2. rows[k] = HelpRow(rest[k - a])
      BY <1>2, <3>1
    <3>3. rows[k].row = "help" /\ Said(rows[k]) = rest[k - a]
      BY <3>2 DEF HelpRow, Said
    <3> QED
      BY <3>1, <3>3
  <2>3. CASE k \in (a + b + 1)..Len(rows)
    BY <1>2, <2>3
  <2>4. k \in 1..a \/ k \in (a + 1)..(a + b) \/ k \in (a + b + 1)..Len(rows)
    BY <1>1, <1>2
  <2> QED
    BY <2>1, <2>2, <2>3, <2>4
<1>12. \A k \in DOMAIN rows : rows[k].row # "title"
  BY <1>5, <1>11
<1>13. Sayers(rows) = 1..(a + b)
  <2>1. ASSUME NEW k \in 1..Len(rows) PROVE Says(rows[k]) <=> k \in 1..(a + b)
    <3>1. CASE k \in 1..a /\ rows[k].row = "note"
      BY <1>1, <3>1 DEF Says
    <3>2. CASE k - a \in 1..b /\ rows[k].row = "help"
      BY <1>1, <3>2 DEF Says
    <3>3. CASE k \in (a + b + 1)..Len(rows) /\ rows[k].row = "ice"
      BY <1>1, <3>3 DEF Says
    <3> QED
      BY <1>11, <3>1, <3>2, <3>3
  <2>2. Sayers(rows) = {k \in 1..Len(rows) : Says(rows[k])}
    BY <1>5 DEF Sayers
  <2>3. 1..(a + b) \subseteq 1..Len(rows)
    BY <1>1, <1>2
  <2> QED
    BY <2>1, <2>2, <2>3
<1>14. /\ SaidRows' = SaidRows \cup {n + j : j \in Sayers(rows)}
       /\ SaidRows \subseteq 1..n /\ n \in Nat
       /\ \A k \in 1..n : out'[k] = out[k]
       /\ \A j \in DOMAIN rows : out'[n + j] = rows[j]
  BY <1>2, <1>5, <1>12, SaidAdded DEF n
<1>15. SaidRows' = Longer(SaidRows, n, a + b)
  <2>1. {n + j : j \in 1..(a + b)} = (n + 1)..(n + (a + b))
    <3>1. ASSUME NEW k \in (n + 1)..(n + (a + b)) PROVE \E j \in 1..(a + b) : k = n + j
      <4>1. k - n \in 1..(a + b) /\ k = n + (k - n)
        BY <1>1, <1>14
      <4> QED
        BY <4>1
    <3>2. \A j \in 1..(a + b) : n + j \in (n + 1)..(n + (a + b))
      BY <1>1, <1>14
    <3> QED
      BY <3>1, <3>2
  <2> QED
    BY <1>13, <1>14, <2>1 DEF Longer
<1>16. ASSUME NEW j \in 1..(a + b) PROVE Said(out'[n + j]) = words[c + j]
  <2>1. j \in 1..Len(rows)
    BY <1>1, <1>2
  <2>2. out'[n + j] = rows[j]
    BY <1>5, <1>14, <2>1
  <2>3. CASE j \in 1..a /\ Said(rows[j]) = Now.notes[j]
    BY <1>3, <2>2, <2>3 DEF c
  <2>4. CASE j - a \in 1..b /\ Said(rows[j]) = rest[j - a] /\ j = a + (j - a)
    <3>1. words[c + a + (j - a)] = rest[j - a]
      BY <1>3, <2>4 DEF c
    <3>2. c + a + (j - a) = c + j
      BY <1>1, <1>6
    <3> QED
      BY <2>2, <2>4, <3>1, <3>2
  <2>5. ~(j \in (a + b + 1)..Len(rows))
    BY <1>1
  <2> QED
    BY <1>11, <2>1, <2>3, <2>4, <2>5
<1>17. a + b \in Nat /\ \A k \in SaidRows : out'[k] = out[k]
  BY <1>1, <1>14
<1> DEFINE o2 == out'
           said == SaidRows
           both == a + b
<1>18. /\ Tells(out, said, c, words) /\ n \in Nat /\ said \subseteq 1..n
       /\ \A k \in said : o2[k] = out[k]
       /\ both \in Nat /\ \A j \in 1..both : Said(o2[n + j]) = words[c + j]
  BY <1>10, <1>14, <1>16, <1>17
<1>19. Tells(o2, Longer(said, n, both), c + both, words)
  <2> HIDE DEF o2, said, both
  <2> QED
    BY <1>18, TellsMore
<1>20. c + both = Len(words)
  BY <1>1, <1>3 DEF c
<1> QED
  BY <1>15, <1>19, <1>20

LEMMA SaidNext ==
    ASSUME Inv, LocalsInv, Titled, SaidInv, [Next]_vars
    PROVE  SaidInv'
<1>1. CASE UNCHANGED vars
  <2>1. PrintFrame /\ UNCHANGED <<phase, current, labels, sn, out>>
    BY <1>1 DEF vars, deVars, smVars, PrintFrame
  <2>2. /\ ToBeSaid(Now)' = ToBeSaid(Now) /\ Captioned(Now)' = Captioned(Now)
        /\ Led' = Led /\ Size' = Size /\ Diagnostics' = Diagnostics
    BY <2>1, WordsStay
  <2>3. SaidRows' = SaidRows /\ SaidSoFar' = SaidSoFar
    BY <2>1, <2>2 DEF SaidRows, TitleAt, SaidSoFar, SoFar
  <2>4. (phase \in Underway /\ Captioned(Now)
             => Tells(out, SaidRows, SaidSoFar, ToBeSaid(Now)))'
    BY <2>1, <2>2, <2>3 DEF SaidInv, Tells
  <2>5. SaysEverything'
    <3>1. SaysEverything
      BY DEF SaidInv
    <3> QED
      BY <2>1, <2>2, <3>1 DEF SaysEverything, TitleAt, Captioned, ToBeSaid, HasSpan
  <2> QED
    BY <2>4, <2>5 DEF SaidInv
<1>2. CASE Silent /\ ~EndSnippet /\ ~UNCHANGED vars
  <2>1. phase' \notin Underway /\ (phase' = "title" => ~(current' > 1))
    BY <1>2 DEF Silent, EmitSimple, MakeSourceManager, BuildLineIndex, WithSourceManager,
       Emit, PrintAll, PrintedAll, deVars, Underway
  <2> QED
    BY <2>1 DEF SaidInv, SaysEverything
<1> QED
  BY <1>1, <1>2, SaidTitle, SaidOpened, SaidLine, SaidEnd, SaidRest, Steps

\* Nothing of a diagnostic is lost on the way to the terminal: once it is printed, its
\* message, its first help, the texts of its labels, its notes and its other helps have
\* been said, each once and in this order (DiagnosticEngine.cpp:41-181, 214-295); but
\* for the first help if there is no span or the buffer is empty, and the labels if it
\* is empty.
THEOREM EverythingIsSaid == Spec => []SaysEverything
<1>1. Init => Titled /\ SaidInv
  BY DEF Init, Titled, SaidInv, SaysEverything, Underway
<1>2. Inv /\ LocalsInv /\ Titled /\ SaidInv /\ [Next]_vars => (Titled /\ SaidInv)'
  BY TitledNext, SaidNext
<1>3. SaidInv => SaysEverything
  BY DEF SaidInv
<1> QED
  BY <1>1, <1>2, <1>3, LocalsKept, PTL DEF Spec
=============================================================================
