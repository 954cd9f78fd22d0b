----------------------- MODULE DiagnosticEngine_proofs -----------------------
(***************************************************************************)
(* For every buffer and everything the phases report.  The line index of a *)
(* buffer holds the first characters of its lines, and the binary search   *)
(* over it finds the line of an offset; printing stays within the buffer,  *)
(* and the lines of a snippet are lines of the buffer with their numbers.  *)
(***************************************************************************)
EXTENDS DiagnosticEngine, FiniteSetTheorems, SequenceTheorems, TLAPS

-----------------------------------------------------------------------------
(* Counting line ends.                                                     *)

LEMMA NewlinesFinite ==
    ASSUME buf \in Seq(Char)
    PROVE  /\ Size \in Nat
           /\ Newlines \subseteq 0..(Size - 1)
           /\ IsFiniteSet(Newlines)
<1>1. Size \in Nat
  BY DEF Size
<1>2. Newlines \subseteq 0..(Size - 1)
  BY DEF Newlines
<1>3. IsFiniteSet(0..(Size - 1))
  BY <1>1, FS_Interval
<1> QED
  BY <1>1, <1>2, <1>3, FS_Subset

Before(offset) == {o \in Newlines : o < offset}

LEMMA BeforeFinite ==
    ASSUME buf \in Seq(Char), NEW a \in Nat
    PROVE  /\ IsFiniteSet(Before(a))
           /\ Cardinality(Before(a)) \in Nat
           /\ LineOf(a) = 1 + Cardinality(Before(a))
<1>1. IsFiniteSet(Before(a))
  BY NewlinesFinite, FS_Subset DEF Before
<1> QED
  BY <1>1, FS_CardinalityType DEF LineOf, Before

LEMMA LineOfType ==
    ASSUME buf \in Seq(Char), NEW a \in Nat
    PROVE  LineOf(a) \in Nat /\ LineOf(a) >= 1
<1>1. Cardinality(Before(a)) \in Nat /\ LineOf(a) = 1 + Cardinality(Before(a))
  BY BeforeFinite
<1> QED
  BY <1>1

\* A later character is in no earlier line.
LEMMA LineOfMonotone ==
    ASSUME buf \in Seq(Char), NEW a \in Nat, NEW b \in Nat, a <= b
    PROVE  LineOf(a) <= LineOf(b)
<1>1. Before(a) \subseteq Before(b)
  BY NewlinesFinite DEF Before
<1>2. Cardinality(Before(a)) <= Cardinality(Before(b))
  BY <1>1, BeforeFinite, FS_Subset
<1> QED
  BY <1>2, BeforeFinite

\* Behind a line end there is another line.
LEMMA LineOfNext ==
    ASSUME buf \in Seq(Char), NEW o \in Newlines
    PROVE  o \in Nat /\ LineOf(o + 1) = LineOf(o) + 1
<1>1. o \in Nat
  BY NewlinesFinite
<1>2. \A p \in Newlines : p \in Nat /\ (p < o + 1 <=> p < o \/ p = o)
  BY <1>1, NewlinesFinite
<1>a. Before(o + 1) = Before(o) \cup {o}
  BY <1>2 DEF Before
<1>b. o \notin Before(o)
  BY <1>1 DEF Before
<1>3. Cardinality(Before(o + 1)) = Cardinality(Before(o)) + 1
  BY <1>1, <1>a, <1>b, BeforeFinite, FS_AddElement
<1> QED
  BY <1>1, <1>3, BeforeFinite

\* A line goes on to its line end.
LEMMA LineOfSame ==
    ASSUME buf \in Seq(Char), NEW a \in Nat, NEW b \in Nat, a <= b,
           \A o \in a..(b - 1) : o \notin Newlines
    PROVE  LineOf(b) = LineOf(a)
<1>1. Before(b) = Before(a)
  BY NewlinesFinite DEF Before
<1> QED
  BY <1>1, BeforeFinite

LEMMA LineOfAcross ==
    ASSUME buf \in Seq(Char), NEW a \in Nat, NEW b \in Nat, NEW o \in Newlines,
           a <= o, o < b
    PROVE  LineOf(a) < LineOf(b)
<1>1. o \in Nat /\ LineOf(o + 1) = LineOf(o) + 1
  BY LineOfNext
<1>2. LineOf(a) <= LineOf(o) /\ LineOf(o + 1) <= LineOf(b)
  BY <1>1, LineOfMonotone
<1> QED
  BY <1>1, <1>2, LineOfType

-----------------------------------------------------------------------------
(* The index.                                                              *)

IndexInv ==
    /\ buf \in Seq(Char)
    /\ scanned \in 0..Size
    /\ LineStarts \in Seq(Nat)
    /\ Len(LineStarts) >= 1
    /\ LineStarts[1] = 0
    /\ \A k \in 2..Len(LineStarts) :
           LineStarts[k] - 1 \in Newlines /\ LineStarts[k] <= scanned
    /\ \A k \in 1..Len(LineStarts) : LineOf(LineStarts[k]) = k
    /\ LineOf(scanned) = Len(LineStarts)

LEMMA IndexInit ==
    ASSUME NEW b \in Buffers, SMInit(b)
    PROVE  IndexInv
<1>1. buf \in Seq(Char) /\ LineStarts = <<0>> /\ scanned = 0
  BY BufferAssumption DEF SMInit
<1>2. Size \in Nat
  BY <1>1, NewlinesFinite
<1>3. Before(0) = {}
  BY <1>1, NewlinesFinite DEF Before
<1>4. LineOf(0) = 1
  <2>1. LineOf(0) = 1 + Cardinality(Before(0))
    BY <1>1, BeforeFinite
  <2> QED
    BY <1>3, <2>1, FS_EmptySet
<1> QED
  BY <1>1, <1>2, <1>4 DEF IndexInv

LEMMA IndexScan ==
    ASSUME IndexInv, Scan
    PROVE  IndexInv'
<1>0. /\ buf \in Seq(Char) /\ buf' = buf
      /\ Size \in Nat /\ scanned \in Nat /\ scanned < Size
      /\ scanned' = scanned + 1
  BY NewlinesFinite DEF IndexInv, Scan, IndexBuilt
<1>1. /\ Size' = Size /\ Newlines' = Newlines
      /\ \A a \in Nat : (LineOf(a))' = LineOf(a)
  BY <1>0 DEF Size, Newlines, LineOf
<1>2. CASE scanned \in Newlines
  <2>1. LineOf(scanned + 1) = Len(LineStarts) + 1
    BY <1>0, <1>2, LineOfNext DEF IndexInv
  <2>2. LineStarts' = Append(LineStarts, scanned + 1)
    BY <1>2 DEF Scan
  <2>3. /\ LineStarts' \in Seq(Nat)
        /\ Len(LineStarts') = Len(LineStarts) + 1
        /\ LineStarts'[Len(LineStarts) + 1] = scanned + 1
        /\ \A k \in 1..Len(LineStarts) : LineStarts'[k] = LineStarts[k]
    BY <1>0, <2>2 DEF IndexInv
  <2>4. \A k \in 2..Len(LineStarts') :
            LineStarts'[k] - 1 \in Newlines /\ LineStarts'[k] <= scanned + 1
    <3>1. TAKE k \in 2..Len(LineStarts')
    <3>2. CASE k \in 2..Len(LineStarts)
      <4>1. /\ LineStarts'[k] = LineStarts[k] /\ LineStarts[k] \in Nat
            /\ LineStarts[k] - 1 \in Newlines /\ LineStarts[k] <= scanned
        BY <2>3, <3>2 DEF IndexInv
      <4> QED
        BY <1>0, <4>1
    <3>3. CASE k = Len(LineStarts) + 1
      <4>1. LineStarts'[k] = scanned + 1 /\ (scanned + 1) - 1 = scanned
        BY <1>0, <2>3, <3>3
      <4> QED
        BY <1>0, <1>2, <4>1
    <3> QED
      BY <2>3, <3>1, <3>2, <3>3 DEF IndexInv
  <2>5. \A k \in 1..Len(LineStarts') : LineOf(LineStarts'[k]) = k
    <3>1. TAKE k \in 1..Len(LineStarts')
    <3>2. CASE k \in 1..Len(LineStarts)
      BY <2>3, <3>2 DEF IndexInv
    <3>3. CASE k = Len(LineStarts) + 1
      BY <2>1, <2>3, <3>3
    <3> QED
      BY <2>3, <3>1, <3>2, <3>3 DEF IndexInv
  <2>6. \A k \in 1..Len(LineStarts') : (LineOf(LineStarts[k]))' = k
    <3>1. TAKE k \in 1..Len(LineStarts')
    <3>2. LineStarts'[k] \in Nat /\ (LineOf(LineStarts[k]))' = LineOf(LineStarts'[k])
      BY <1>0, <1>1, <2>3, <3>1 DEF LineOf
    <3> QED
      BY <2>5, <3>1, <3>2
  <2>7. (LineOf(scanned))' = Len(LineStarts')
    BY <1>0, <1>1, <2>1, <2>3 DEF LineOf
  <2> QED
    BY <1>0, <1>1, <2>3, <2>4, <2>6, <2>7 DEF IndexInv
<1>3. CASE scanned \notin Newlines
  <2>1. LineOf(scanned + 1) = LineOf(scanned)
    BY <1>0, <1>3, LineOfSame
  <2>2. LineStarts' = LineStarts
    BY <1>3 DEF Scan
  <2>3. (LineOf(scanned))' = Len(LineStarts')
    BY <1>0, <1>1, <2>1, <2>2 DEF LineOf, IndexInv
  <2>4. \A k \in 1..Len(LineStarts') : (LineOf(LineStarts[k]))' = k
    BY <1>0, <1>1, <2>2 DEF LineOf, IndexInv
  <2> QED
    BY <1>0, <1>1, <2>2, <2>3, <2>4 DEF IndexInv
<1> QED
  BY <1>2, <1>3

-----------------------------------------------------------------------------
(* The search.                                                             *)

LEMMA IndexFacts ==
    ASSUME IndexInv
    PROVE  /\ Size \in Nat /\ scanned \in Nat /\ Len(LineStarts) \in Nat
           /\ Newlines \subseteq 0..(Size - 1)
           /\ \A k \in DOMAIN LineStarts :
                  k \in 1..Len(LineStarts) /\ LineStarts[k] \in Nat
  BY NewlinesFinite DEF IndexInv

\* A line starts at an offset or before it just if the offset is in that line
\* or in a later one.
LEMMA StartsUpTo ==
    ASSUME IndexInv, NEW k \in DOMAIN LineStarts, NEW offset \in Nat
    PROVE  LineStarts[k] <= offset <=> k <= LineOf(offset)
<1>1. /\ LineStarts[k] \in Nat /\ k \in 1..Len(LineStarts)
      /\ LineOf(LineStarts[k]) = k
      /\ LineOf(offset) \in Nat /\ LineOf(offset) >= 1
  BY IndexFacts, LineOfType DEF IndexInv
<1>2. CASE LineStarts[k] <= offset
  BY <1>1, <1>2, LineOfMonotone DEF IndexInv
<1>3. CASE ~(LineStarts[k] <= offset)
  <2>1. k # 1
    BY <1>1, <1>3 DEF IndexInv
  <2>2. LineStarts[k] - 1 \in Newlines
    BY <1>1, <2>1 DEF IndexInv
  <2>3. LineOf(offset) < LineOf(LineStarts[k])
    <3>1. offset <= LineStarts[k] - 1 /\ LineStarts[k] - 1 < LineStarts[k]
      BY <1>1, <1>3
    <3> QED
      BY <1>1, <2>2, <3>1, LineOfAcross DEF IndexInv
  <2> QED
    BY <1>1, <1>3, <2>3
<1> QED
  BY <1>2, <1>3

\* Every offset is in a line of the index, the ones behind the end in the last.
LEMMA LineInIndex ==
    ASSUME IndexInv, IndexBuilt, NEW offset \in Nat
    PROVE  LineOf(offset) \in DOMAIN LineStarts
<1>1. buf \in Seq(Char) /\ LineOf(Size) = Len(LineStarts)
  BY DEF IndexInv, IndexBuilt
<1>2. LineOf(offset) \in Nat /\ LineOf(offset) >= 1 /\ Size \in Nat
  BY <1>1, LineOfType, NewlinesFinite
<1>3. CASE offset <= Size
  BY <1>1, <1>2, <1>3, LineOfMonotone, IndexFacts DEF IndexInv
<1>4. CASE offset > Size
  <2>1. \A o \in Size..(offset - 1) : o \notin Newlines
    BY <1>1, <1>2, NewlinesFinite
  <2>2. LineOf(offset) = LineOf(Size)
    BY <1>1, <1>2, <1>4, <2>1, LineOfSame
  <2> QED
    BY <1>1, <1>2, <2>2, IndexFacts DEF IndexInv
<1> QED
  BY <1>2, <1>3, <1>4

LEMMA UpperBoundIsNext ==
    ASSUME IndexInv, IndexBuilt, NEW offset \in Nat
    PROVE  UpperBound(LineStarts, offset) = LineOf(offset) + 1
<1> DEFINE m == LineOf(offset)
           P(k) == /\ \A j \in 1..(k - 1) : LineStarts[j] <= offset
                   /\ k <= Len(LineStarts) => LineStarts[k] > offset
<1>1. m \in 1..Len(LineStarts) /\ Len(LineStarts) \in Nat
  BY LineInIndex, IndexFacts
<1>2. \A j \in 1..Len(LineStarts) :
          LineStarts[j] \in Nat /\ (LineStarts[j] <= offset <=> j <= m)
  BY StartsUpTo, IndexFacts DEF IndexInv
<1> HIDE DEF m
<1>3. m + 1 \in 1..(Len(LineStarts) + 1) /\ P(m + 1)
  BY <1>1, <1>2
<1>4. \A k \in 1..(Len(LineStarts) + 1) : P(k) => k = m + 1
  <2>1. SUFFICES ASSUME NEW k \in 1..(Len(LineStarts) + 1), P(k)
                 PROVE  k = m + 1
    OBVIOUS
  <2>2. k <= m + 1
    <3>1. ASSUME k > m + 1 PROVE FALSE
      <4>1. m + 1 \in 1..(k - 1) /\ m + 1 \in 1..Len(LineStarts)
        BY <1>1, <3>1
      <4> QED
        BY <1>1, <1>2, <2>1, <4>1
    <3> QED
      BY <1>1, <3>1
  <2>3. k >= m + 1
    BY <1>1, <1>2, <2>1
  <2> QED
    BY <1>1, <2>2, <2>3
<1>5. UpperBound(LineStarts, offset) = CHOOSE k \in 1..(Len(LineStarts) + 1) : P(k)
  BY DEF UpperBound
<1> HIDE DEF P
<1>6. UpperBound(LineStarts, offset) = m + 1
  BY <1>3, <1>4, <1>5
<1> QED
  BY <1>6 DEF m

\* There is one offset a line starts at.
LEMMA LineStartUnique ==
    ASSUME buf \in Seq(Char), NEW offset \in Nat, NEW s \in 0..offset,
           s = 0 \/ s - 1 \in Newlines,
           \A o \in s..(offset - 1) : o \notin Newlines
    PROVE  LineStartOf(offset) = s
<1> DEFINE P(t) == /\ t = 0 \/ t - 1 \in Newlines
                   /\ \A o \in t..(offset - 1) : o \notin Newlines
<1>1. P(s)
  OBVIOUS
<1>2. \A t \in 0..offset : P(t) => t = s
  <2>1. SUFFICES ASSUME NEW t \in 0..offset, P(t)
                 PROVE  t = s
    OBVIOUS
  <2>2. ~(t < s)
    <3>1. ASSUME t < s PROVE FALSE
      <4>1. s - 1 \in Newlines /\ s - 1 \in t..(offset - 1)
        BY <3>1
      <4> QED
        BY <2>1, <4>1
    <3> QED
      BY <3>1
  <2>3. ~(s < t)
    <3>1. ASSUME s < t PROVE FALSE
      <4>1. t - 1 \in Newlines /\ t - 1 \in s..(offset - 1)
        BY <2>1, <3>1
      <4> QED
        BY <4>1
    <3> QED
      BY <3>1
  <2> QED
    BY <2>2, <2>3
<1>3. LineStartOf(offset) = CHOOSE t \in 0..offset : P(t)
  BY DEF LineStartOf
<1> HIDE DEF P
<1> QED
  BY <1>1, <1>2, <1>3

\* The line of the index that an offset is in starts where that line starts.
LEMMA StartIsLineStart ==
    ASSUME IndexInv, IndexBuilt, NEW offset \in Nat
    PROVE  /\ LineStarts[LineOf(offset)] \in 0..offset
           /\ LineStarts[LineOf(offset)] = LineStartOf(offset)
<1> DEFINE m == LineOf(offset)
           s == LineStarts[m]
<1>1. m \in DOMAIN LineStarts /\ m \in 1..Len(LineStarts)
  BY LineInIndex, IndexFacts
<1>2. s \in Nat /\ s <= offset
  BY <1>1, StartsUpTo, IndexFacts
<1>3. s = 0 \/ s - 1 \in Newlines
  BY <1>1, IndexFacts DEF IndexInv
<1>4. \A o \in s..(offset - 1) : o \notin Newlines
  <2>1. SUFFICES ASSUME NEW o \in s..(offset - 1), o \in Newlines
                 PROVE  FALSE
    OBVIOUS
  <2>2. LineOf(s) < LineOf(offset)
    BY <1>2, <2>1, LineOfAcross DEF IndexInv
  <2>3. LineOf(s) = m
    BY <1>1 DEF IndexInv
  <2> QED
    BY <1>1, <2>2, <2>3
<1>5. s \in 0..offset
  BY <1>2
<1>6. buf \in Seq(Char)
  BY DEF IndexInv
<1> HIDE DEF s
<1>7. LineStartOf(offset) = s
  BY <1>3, <1>4, <1>5, <1>6, LineStartUnique
<1> QED
  BY <1>5, <1>7 DEF s

\* getLocation finds the line and the column of every offset
\* (SourceManager.cpp:39-56).
THEOREM LocateCorrect ==
    ASSUME IndexInv, IndexBuilt, NEW offset \in Nat
    PROVE  Locate(offset) = LocationOf(offset)
<1>1. UpperBound(LineStarts, offset) - 1 = LineOf(offset)
  <2>1. LineOf(offset) \in Nat
    BY LineOfType DEF IndexInv
  <2> QED
    BY <2>1, UpperBoundIsNext
<1> QED
  BY <1>1, StartIsLineStart DEF Locate, LocationOf

\* An answer that is remembered is right, so the next one is.
LEMMA RememberCorrect ==
    ASSUME IndexInv, IndexBuilt, CacheTruthful, DOMAIN Cache \subseteq Nat,
           NEW S \in SUBSET Nat, Remember(S), UNCHANGED buf
    PROVE  CacheTruthful' /\ (DOMAIN Cache)' \subseteq Nat
<1>1. \A o \in Nat : getLocation(o) = LocationOf(o)
  BY LocateCorrect DEF getLocation, CacheTruthful
<1>2. \A o \in Nat : (LocationOf(o))' = LocationOf(o)
  BY DEF LocationOf, LineOf, LineStartOf, Newlines, Size
<1> QED
  BY <1>1, <1>2 DEF Remember, CacheTruthful

-----------------------------------------------------------------------------
(* Searching for line ends.                                                *)

Built == IndexInv /\ IndexBuilt

LEMMA BuiltFacts ==
    ASSUME Built
    PROVE  /\ buf \in Seq(Char) /\ Size \in Nat /\ Len(LineStarts) \in Nat
           /\ Newlines \subseteq 0..(Size - 1)
           /\ DOMAIN LineStarts = 1..Len(LineStarts)
           /\ LineStarts[1] = 0
           /\ \A k \in DOMAIN LineStarts :
                  /\ LineStarts[k] \in 0..Size
                  /\ LineStarts[k] = 0 \/ LineStarts[k] - 1 \in Newlines
                  /\ LineOf(LineStarts[k]) = k
           /\ LineOf(Size) = Len(LineStarts)
<1>1. IndexInv /\ scanned = Size
  BY DEF Built, IndexBuilt
<1>2. \A k \in DOMAIN LineStarts : LineStarts[k] \in 0..Size
  BY <1>1, IndexFacts DEF IndexInv
<1> QED
  BY <1>1, <1>2, IndexFacts DEF IndexInv

\* Searching backwards from an offset finds where its line starts.
LEMMA FindLineStart ==
    ASSUME Built, NEW off \in 0..Size
    PROVE  findLineStart(off) = LineStarts[LineOf(off)]
<1> DEFINE m == LineOf(off)
           earlier == {o \in Newlines : o < off}
           P(o) == \A p \in earlier : p <= o
<1>1. Size \in Nat /\ off \in Nat /\ Least(off, Size) = off
  BY BuiltFacts DEF Least
<1>2. findLineStart(off) = IF earlier = {} THEN 0 ELSE 1 + CHOOSE o \in earlier : P(o)
  BY <1>1 DEF findLineStart
<1>3. m \in DOMAIN LineStarts /\ m \in 1..Len(LineStarts) /\ LineStarts[m] \in 0..off
  BY <1>1, LineInIndex, StartIsLineStart, BuiltFacts DEF Built
<1>4. \A o \in earlier : o \in Nat /\ o < LineStarts[m]
  <2>1. SUFFICES ASSUME NEW o \in earlier, ~(o < LineStarts[m]) PROVE FALSE
    BY BuiltFacts
  <2>2. o \in Newlines /\ o \in Nat /\ o < off /\ LineStarts[m] \in Nat /\ LineStarts[m] <= o
    BY <1>3, <2>1, BuiltFacts
  <2>3. LineOf(LineStarts[m]) < LineOf(off)
    BY <1>1, <2>2, LineOfAcross, BuiltFacts
  <2> QED
    BY <1>3, <2>3, BuiltFacts
<1>5. CASE LineStarts[m] = 0
  <2>1. earlier = {}
    BY <1>4, <1>5
  <2> QED
    BY <1>2, <1>5, <2>1
<1>6. CASE LineStarts[m] # 0
  <2> DEFINE e == LineStarts[m] - 1
  <2>1. e \in earlier
    BY <1>1, <1>3, <1>6, BuiltFacts
  <2>2. P(e)
    BY <1>3, <1>4
  <2>3. \A o \in earlier : P(o) => o = e
    BY <1>3, <1>4, <2>1
  <2> HIDE DEF e, P, earlier
  <2>4. (CHOOSE o \in earlier : P(o)) = e
    BY <2>1, <2>2, <2>3
  <2>5. findLineStart(off) = 1 + e
    BY <1>2, <2>1, <2>4
  <2> QED
    BY <1>3, <2>5 DEF e
<1> QED
  BY <1>5, <1>6

\* Searching forwards from an offset finds where its line ends.
LEMMA FindLineEnd ==
    ASSUME Built, NEW off \in 0..Size
    PROVE  /\ findLineEnd(off) \in off..Size
           /\ \A o \in off..(findLineEnd(off) - 1) : o \notin Newlines
           /\ findLineEnd(off) = Size \/ findLineEnd(off) \in Newlines
<1> DEFINE m == LineOf(off)
           later == {o \in Newlines : off <= o}
           P(o) == \A p \in later : o <= p
<1>1. findLineEnd(off) = IF later = {} THEN Size ELSE CHOOSE o \in later : P(o)
  BY DEF findLineEnd
<1>2. Size \in Nat /\ off \in Nat
  BY BuiltFacts
<1>3. CASE later = {}
  BY <1>1, <1>2, <1>3
<1>4. CASE later # {}
  <2> DEFINE e == LineStarts[m + 1] - 1
  <2>1. m \in Nat /\ m + 1 \in DOMAIN LineStarts
    <3>1. PICK p \in later : TRUE
      BY <1>4
    <3>2. p \in Newlines /\ off <= p /\ p < Size
      BY <3>1, BuiltFacts
    <3>3. m < LineOf(Size)
      BY <1>2, <3>2, LineOfAcross, BuiltFacts
    <3>4. m \in Nat /\ m >= 1
      BY <1>2, LineOfType, BuiltFacts
    <3>5. m + 1 \in 1..Len(LineStarts)
      BY <3>3, <3>4, BuiltFacts
    <3> QED
      BY <3>4, <3>5, BuiltFacts
  <2>2. LineStarts[m + 1] \in Nat /\ LineStarts[m + 1] > off
    BY <1>2, <2>1, StartsUpTo, BuiltFacts DEF Built
  <2>3. e \in later
    BY <1>2, <2>1, <2>2, BuiltFacts
  <2>4. P(e)
    <3>1. SUFFICES ASSUME NEW p \in later, p < e PROVE FALSE
      BY <2>2, BuiltFacts
    <3>2. p \in Newlines /\ p \in Nat /\ off <= p /\ p + 1 < LineStarts[m + 1]
      BY <2>2, <3>1, BuiltFacts
    <3>3. m < LineOf(p + 1) /\ LineOf(p + 1) \in Nat
      BY <1>2, <3>2, LineOfAcross, LineOfType, BuiltFacts
    <3>4. m + 1 <= LineOf(p + 1)
      BY <2>1, <3>3
    <3>5. LineStarts[m + 1] <= p + 1
      BY <2>1, <3>2, <3>4, StartsUpTo DEF Built
    <3> QED
      BY <2>2, <3>2, <3>5
  <2>5. \A o \in later : P(o) => o = e
    BY <2>2, <2>3, <2>4, BuiltFacts
  <2>6. findLineEnd(off) = e
    <3> HIDE DEF e, P, later
    <3> QED
      BY <1>1, <1>4, <2>3, <2>4, <2>5
  <2>7. e \in off..(Size - 1) /\ e \in Newlines
    BY <2>3, BuiltFacts
  <2>8. \A o \in off..(e - 1) : o \notin Newlines
    BY <1>2, <2>4, <2>7
  <2> QED
    BY <1>2, <2>6, <2>7, <2>8
<1> QED
  BY <1>3, <1>4

\* Behind a line end the next line starts.
LEMMA NextLineStart ==
    ASSUME Built, NEW o \in Newlines
    PROVE  /\ LineOf(o) \in Nat
           /\ LineOf(o) + 1 \in DOMAIN LineStarts
           /\ LineStarts[LineOf(o) + 1] = o + 1
<1>a. o \in Nat /\ o + 1 \in Nat
  BY BuiltFacts
<1>1. o + 1 \in Nat /\ LineOf(o + 1) = LineOf(o) + 1 /\ LineOf(o) \in Nat
  BY <1>a, LineOfNext, LineOfType, BuiltFacts
<1>2. LineStarts[LineOf(o + 1)] = LineStartOf(o + 1) /\ LineOf(o + 1) \in DOMAIN LineStarts
  BY <1>a, StartIsLineStart, LineInIndex DEF Built
<1>3. LineStartOf(o + 1) = o + 1
  <2>1. o + 1 \in 0..(o + 1) /\ (o + 1) - 1 \in Newlines
    BY <1>a
  <2>2. \A p \in (o + 1)..((o + 1) - 1) : p \notin Newlines
    BY <1>a
  <2> QED
    BY <1>a, <2>1, <2>2, LineStartUnique, BuiltFacts
<1> QED
  BY <1>1, <1>2, <1>3

\* A line of the index, and the offsets in it.
LEMMA LineExtent ==
    ASSUME Built, NEW k \in DOMAIN LineStarts, NEW o \in 0..Size
    PROVE  LineOf(o) = k <=> LineStarts[k] <= o /\ o <= findLineEnd(LineStarts[k])
<1> DEFINE a == LineStarts[k]
           to == findLineEnd(a)
<1>1. a \in 0..Size /\ Size \in Nat /\ k \in Nat /\ LineOf(a) = k /\ o \in Nat
  BY BuiltFacts
<1>2. /\ to \in a..Size
      /\ \A p \in a..(to - 1) : p \notin Newlines
      /\ to = Size \/ to \in Newlines
  BY <1>1, FindLineEnd
<1>3. LineOf(o) \in Nat
  BY <1>1, LineOfType, BuiltFacts
<1> HIDE DEF to, a
<1>4. ASSUME LineOf(o) = k PROVE a <= o
  BY <1>1, <1>4, StartsUpTo DEF Built, a
<1>5. ASSUME LineOf(o) = k, to < o PROVE FALSE
  <2>1. to \in Newlines /\ a <= to /\ a \in Nat
    BY <1>1, <1>2, <1>5
  <2>2. LineOf(a) < LineOf(o)
    BY <1>1, <1>5, <2>1, LineOfAcross, BuiltFacts
  <2> QED
    BY <1>1, <1>3, <1>5, <2>2
<1>6. ASSUME a <= o, o <= to PROVE LineOf(o) = k
  <2>1. \A p \in a..(o - 1) : p \notin Newlines
    BY <1>1, <1>2, <1>6
  <2>2. a \in Nat /\ o \in Nat /\ buf \in Seq(Char)
    BY <1>1, BuiltFacts
  <2>3. LineOf(o) = LineOf(a)
    BY <1>6, <2>1, <2>2, LineOfSame
  <2> QED
    BY <1>1, <2>3
<1>7. to \in Nat
  BY <1>1, <1>2
<1> QED
  BY <1>1, <1>4, <1>5, <1>6, <1>7 DEF to, a

LEMMA CountLines ==
    ASSUME Built, Size # 0
    PROVE  countLines = Len(LineStarts)
<1>1. Newlines = {o \in Newlines : o < Size}
  BY BuiltFacts
<1>2. LineOf(Size) = 1 + Cardinality(Newlines)
  BY <1>1 DEF LineOf
<1> QED
  BY <1>2, BuiltFacts DEF countLines

-----------------------------------------------------------------------------
(* A snippet as it is opened.                                              *)

LocationsRight == \A o \in Nat : getLocation(o) = LocationOf(o)

LEMMA CacheRight ==
    ASSUME Built, CacheTruthful
    PROVE  LocationsRight
  BY LocateCorrect DEF LocationsRight, getLocation, CacheTruthful, Built

\* What the locals of printSnippet say of the span.
Covers(s, span) ==
    /\ s.startLine = LineOf(Start(span)) /\ s.endLine = LineOf(End(span))
    /\ s.startCol = Start(span) - LineStarts[s.startLine] + 1
    /\ s.endCol = End(span) - LineStarts[s.endLine] + 1

\* The line number and the offset of the loop belong together.
AtLine(s) ==
    /\ s.line \in Nat \ {0} /\ s.last \in 0..Len(LineStarts)
    /\ s.line <= s.last + 1
    /\ s.off \in 0..Size
    /\ s.line <= s.last => s.off = LineStarts[s.line]

Whole(s) ==
    s = [line |-> s.line, off |-> s.off, startLine |-> s.startLine, endLine |-> s.endLine,
         startCol |-> s.startCol, endCol |-> s.endCol, last |-> s.last, gutter |-> s.gutter,
         mark |-> s.mark, caption |-> s.caption, skip |-> s.skip]

LEMMA SpanInBuffer ==
    ASSUME Built, NEW span, span.from \in Nat, span.to \in Nat
    PROVE  /\ Start(span) \in 0..Size /\ End(span) \in 0..Size
           /\ Start(span) <= End(span)
  BY BuiltFacts DEF Start, End, Least

LEMMA LineStartsItself ==
    ASSUME Built, NEW off \in 0..Size
    PROVE  /\ LineOf(off) \in DOMAIN LineStarts /\ LineOf(off) \in Nat /\ LineOf(off) >= 1
           /\ LineStarts[LineOf(off)] = LineStartOf(off)
           /\ LineStarts[LineOf(off)] \in 0..off
  BY BuiltFacts, StartIsLineStart, LineInIndex, LineOfType DEF Built

LEMMA SnippetOpened ==
    ASSUME Built, LocationsRight, Size # 0, NEW span, span.from \in Nat, span.to \in Nat,
           NEW context \in BOOLEAN, NEW mark, NEW caption, NEW skip
    PROVE  LET s == Snippet(span, context, mark, caption, skip)
           IN  Whole(s) /\ Covers(s, span) /\ AtLine(s)
<1> DEFINE s == Snippet(span, context, mark, caption, skip)
           a == Start(span)
           b == End(span)
           m == LineOf(a)
           n == LineOf(b)
           own == LineStarts[m]
           last == Least(countLines, n + 1)
           before == context /\ m > 1
<1>1. a \in 0..Size /\ b \in 0..Size /\ a <= b /\ Size \in Nat /\ a \in Nat /\ b \in Nat
  BY SpanInBuffer, BuiltFacts
<1>2. /\ getLocation(a) = [line |-> m, column |-> a - own + 1]
      /\ getLocation(b) = [line |-> n, column |-> b - LineStarts[n] + 1]
      /\ own \in 0..a
      /\ m \in 1..Len(LineStarts) /\ n \in 1..Len(LineStarts) /\ m <= n
  BY <1>1, LineStartsItself, LineOfMonotone, BuiltFacts DEF LocationsRight, LocationOf
<1>3. findLineStart(a) = own
  BY <1>1, FindLineStart
<1>4. s = [line |-> IF before THEN m - 1 ELSE m,
           off |-> IF before /\ own # 0 THEN findLineStart(own - 1) ELSE own,
           startLine |-> m, endLine |-> n,
           startCol |-> a - own + 1, endCol |-> b - LineStarts[n] + 1,
           last |-> last, gutter |-> digitWidth[last],
           mark |-> mark, caption |-> caption, skip |-> skip]
  BY <1>2, <1>3 DEF Snippet
<1>5. Whole(s)
  BY <1>4 DEF Whole
<1>6. Covers(s, span)
  BY <1>4 DEF Covers
<1>7. /\ last \in 0..Len(LineStarts) /\ m <= last /\ m \in Nat /\ last \in Nat
      /\ Len(LineStarts) \in Nat
  BY <1>2, CountLines, BuiltFacts DEF Least
<1>8. own \in 0..Size /\ own \in Nat /\ LineOf(own) = m
  BY <1>1, <1>2, BuiltFacts
<1>9. CASE before
  <2>1. own # 0
    BY <1>2, <1>8, <1>9, BuiltFacts DEF Built, IndexInv
  <2>2. own - 1 \in Newlines /\ own - 1 \in 0..Size
    BY <1>1, <1>2, <1>8, <2>1, BuiltFacts
  <2>3. LineOf(own - 1) + 1 = LineOf((own - 1) + 1) /\ LineOf(own - 1) \in Nat
    BY <2>2, LineOfNext, NextLineStart, BuiltFacts
  <2>4. LineOf(own - 1) = m - 1
    BY <1>7, <1>8, <2>3
  <2>5. findLineStart(own - 1) = LineStarts[m - 1]
    BY <2>2, <2>4, FindLineStart
  <2>6. m - 1 \in DOMAIN LineStarts /\ LineStarts[m - 1] \in 0..Size
    BY <1>2, <1>9, BuiltFacts
  <2>7. s.line = m - 1 /\ s.off = LineStarts[m - 1] /\ s.last = last
    BY <1>4, <1>9, <2>1, <2>5
  <2>8. m - 1 \in Nat \ {0} /\ m - 1 <= last + 1
    BY <1>2, <1>7, <1>9
  <2>9. AtLine(s)
    <3> HIDE DEF s, last, m
    <3> QED
      BY <1>7, <2>6, <2>7, <2>8 DEF AtLine
  <2> QED
    BY <1>5, <1>6, <2>9
<1>10. CASE ~before
  <2>1. s.line = m /\ s.off = own /\ s.last = last
    BY <1>4, <1>10
  <2>2. AtLine(s)
    BY <1>2, <1>7, <1>8, <2>1 DEF AtLine
  <2> QED
    BY <1>5, <1>6, <2>2
<1> QED
  BY <1>9, <1>10

-----------------------------------------------------------------------------
(* Rows that are written.                                                  *)

RowsShown(rows) ==
    /\ \E S : rows \in Seq(S)
    /\ \A k \in DOMAIN rows : rows[k].row = "text" => ShowsLine(rows[k])

LEMMA NoRows == RowsShown(<<>>)
<1>1. <<>> \in Seq({}) /\ DOMAIN <<>> = {}
  OBVIOUS
<1> QED
  BY <1>1 DEF RowsShown

LEMMA OneRow ==
    ASSUME NEW r, r.row = "text" => ShowsLine(r)
    PROVE  RowsShown(<<r>>)
<1>1. <<r>> \in Seq({r}) /\ DOMAIN <<r>> = {1} /\ <<r>>[1] = r
  OBVIOUS
<1> QED
  BY <1>1 DEF RowsShown

LEMMA MoreRows ==
    ASSUME NEW s, NEW t, RowsShown(s), RowsShown(t)
    PROVE  RowsShown(s \o t)
<1>1. PICK S, T : s \in Seq(S) /\ t \in Seq(T)
  BY DEF RowsShown
<1>2. s \in Seq(S \cup T) /\ t \in Seq(S \cup T)
  BY <1>1
<1>3. /\ s \o t \in Seq(S \cup T)
      /\ Len(s \o t) = Len(s) + Len(t)
      /\ \A k \in 1..(Len(s) + Len(t)) :
             (s \o t)[k] = IF k <= Len(s) THEN s[k] ELSE t[k - Len(s)]
  BY <1>2, ConcatProperties
<1>4. ASSUME NEW k \in DOMAIN (s \o t), (s \o t)[k].row = "text"
      PROVE  ShowsLine((s \o t)[k])
  <2>1. k \in 1..(Len(s) + Len(t)) /\ Len(s) \in Nat /\ Len(t) \in Nat
    BY <1>2, <1>3, <1>4
  <2>2. CASE k <= Len(s)
    <3>1. k \in DOMAIN s /\ (s \o t)[k] = s[k]
      BY <1>2, <1>3, <2>1, <2>2
    <3> QED
      BY <1>4, <3>1 DEF RowsShown
  <2>3. CASE ~(k <= Len(s))
    <3>1. k - Len(s) \in DOMAIN t /\ (s \o t)[k] = t[k - Len(s)]
      BY <1>2, <1>3, <2>1, <2>3
    <3> QED
      BY <1>4, <3>1 DEF RowsShown
  <2> QED
    BY <2>2, <2>3
<1> QED
  BY <1>3, <1>4 DEF RowsShown

\* Notes and helps are no lines of text.
LEMMA TextRows ==
    ASSUME NEW texts \in Seq(STRING)
    PROVE  RowsShown(RowsOf(texts, NoteRow)) /\ RowsShown(RowsOf(texts, HelpRow))
<1> DEFINE n == [k \in DOMAIN texts |-> NoteRow(texts[k])]
           h == [k \in DOMAIN texts |-> HelpRow(texts[k])]
           S == {n[k] : k \in DOMAIN texts}
           T == {h[k] : k \in DOMAIN texts}
<1>1. DOMAIN texts = 1..Len(texts) /\ Len(texts) \in Nat
  OBVIOUS
<1>2. n \in Seq(S) /\ h \in Seq(T)
  <2>1. n \in [1..Len(texts) -> S] /\ h \in [1..Len(texts) -> T]
    BY <1>1
  <2> HIDE DEF n, h, S, T
  <2> QED
    BY <1>1, <2>1
<1>3. \A k \in DOMAIN n : n[k].row # "text"
  BY DEF NoteRow
<1>4. \A k \in DOMAIN h : h[k].row # "text"
  BY DEF HelpRow
<1>5. RowsOf(texts, NoteRow) = n /\ RowsOf(texts, HelpRow) = h
  BY DEF RowsOf
<1> HIDE DEF n, h
<1> QED
  BY <1>2, <1>3, <1>4, <1>5 DEF RowsShown

\* Marks are no lines of text, and nor are the other rows.
LEMMA OtherRows ==
    /\ \A d : RowsShown(<<TitleRow(d)>>)
    /\ RowsShown(<<FileRow>>)
    /\ \A location : RowsShown(<<PlaceRow(location)>>)
    /\ \A gutter : RowsShown(<<BorderRow(gutter)>>)
    /\ \A to : RowsShown(<<Marks(to)>>)
    /\ RowsShown(<<IceRow>>)
<1>1. /\ \A d : TitleRow(d).row # "text"
      /\ FileRow.row # "text"
      /\ \A location : PlaceRow(location).row # "text"
      /\ \A gutter : BorderRow(gutter).row # "text"
      /\ \A to : Marks(to).row # "text"
      /\ IceRow.row # "text"
  BY DEF TitleRow, FileRow, PlaceRow, BorderRow, Marks, MarkRow, IceRow
<1> QED
  BY <1>1, OneRow

LEMMA RowsLast ==
    ASSUME UNCHANGED buf, RowsShown(out')
    PROVE  (RowsShown(out))'
  BY DEF RowsShown, ShowsLine, LineOf, Newlines, Size

\* A line of the index shown up to its line end.
LEMMA LineShown ==
    ASSUME Built, NEW k \in DOMAIN LineStarts, NEW pad
    PROVE  RowsShown(<<TextRow(k, LineStarts[k], findLineEnd(LineStarts[k]), pad)>>)
<1> DEFINE a == LineStarts[k]
           r == TextRow(k, a, findLineEnd(a), pad)
<1>1. a \in 0..Size /\ (a = 0 \/ a - 1 \in Newlines) /\ LineOf(a) = k
  BY BuiltFacts
<1>2. /\ findLineEnd(a) \in a..Size
      /\ \A o \in a..(findLineEnd(a) - 1) : o \notin Newlines
      /\ findLineEnd(a) = Size \/ findLineEnd(a) \in Newlines
  BY <1>1, FindLineEnd
<1>3. r.from = a /\ r.to = findLineEnd(a) /\ r.line = k
  BY DEF TextRow
<1> HIDE DEF a, r
<1>4. a <= findLineEnd(a)
  BY <1>1, <1>2, BuiltFacts
<1>5. ShowsLine(r)
  BY <1>1, <1>2, <1>3, <1>4 DEF ShowsLine
<1> QED
  BY <1>5, OneRow DEF r, a

-----------------------------------------------------------------------------
(* The invariant.                                                          *)

Early == {"simple", "index"}
Underway == {"main", "lines", "labels"}

CollectInv ==
    /\ script \in Scripts /\ buf = script.buffer
    /\ phase \in Phase
    /\ Simple \in Seq(Diagnostic) /\ Diagnostics \in Seq(Diagnostic)
    /\ phase \notin Early => IndexBuilt /\ Simple = <<>>
    /\ emitted \in 0..Len(IF phase = "simple" THEN script.simple ELSE script.direct)
    /\ phase = "index" => emitted = 0

CacheInv == DOMAIN Cache \subseteq Nat /\ CacheTruthful

PrintInv ==
    /\ current \in Nat /\ labels \in Nat
    /\ phase = "title" => current >= 1
    /\ phase \in Underway => current \in DOMAIN Diagnostics /\ labels <= Len(Now.labels)
    /\ phase = "main" => labels = 0

\* The loop of printSnippet, at whatever span it is printing.
LoopInv ==
    phase = "lines" => Size # 0 /\ Whole(sn) /\ Covers(sn, MarkedSpan) /\ AtLine(sn)

Inv == IndexInv /\ CollectInv /\ CacheInv /\ PrintInv /\ LoopInv /\ RowsShown(out)

LEMMA InvInit ==
    ASSUME Init
    PROVE  Inv
<1>1. PICK s \in Scripts :
          /\ SMInit(s.buffer) /\ phase = "simple" /\ Simple = <<>> /\ Diagnostics = <<>>
          /\ script = s /\ emitted = 0 /\ current = 0 /\ labels = 0 /\ out = <<>>
  BY DEF Init
<1>2. s.buffer \in Buffers /\ s.simple \in Seq(Diagnostic)
  BY <1>1, ScriptAssumption
<1>3. IndexInv
  BY <1>1, <1>2, IndexInit
<1>4. CollectInv
  BY <1>1, <1>2 DEF CollectInv, SMInit, Phase, Early
<1>5. CacheInv
  BY <1>1 DEF CacheInv, CacheTruthful, SMInit
<1>6. PrintInv /\ LoopInv /\ RowsShown(out)
  BY <1>1, NoRows DEF PrintInv, LoopInv, Underway
<1> QED
  BY <1>3, <1>4, <1>5, <1>6 DEF Inv

LEMMA SameBuffer ==
    ASSUME UNCHANGED smVars
    PROVE  /\ buf' = buf /\ LineStarts' = LineStarts /\ Size' = Size
           /\ IndexInv => IndexInv'
           /\ CacheInv => CacheInv'
           /\ IndexBuilt => IndexBuilt'
           /\ RowsShown(out') => (RowsShown(out))'
<1>1. buf' = buf /\ LineStarts' = LineStarts /\ scanned' = scanned /\ Cache' = Cache
  BY DEF smVars
<1>2. Size' = Size /\ Newlines' = Newlines
  BY <1>1 DEF Size, Newlines
<1>3. IndexInv => IndexInv'
  BY <1>1, <1>2 DEF IndexInv, LineOf
<1>4. CacheInv => CacheInv'
  BY <1>1, <1>2 DEF CacheInv, CacheTruthful, LocationOf, LineOf, LineStartOf
<1>5. IndexBuilt => IndexBuilt'
  BY <1>1, <1>2 DEF IndexBuilt
<1> QED
  BY <1>1, <1>2, <1>3, <1>4, <1>5, RowsLast

\* The steps that collect diagnostics.
LEMMA InvCollect ==
    ASSUME Inv,
           EmitSimple \/ MakeSourceManager \/ WithSourceManager \/ Emit \/ PrintAll
    PROVE  Inv'
<1>1. UNCHANGED smVars /\ UNCHANGED <<script, labels, sn, out>>
  BY DEF EmitSimple, MakeSourceManager, WithSourceManager, Emit, PrintAll
<1>2. IndexInv' /\ CacheInv' /\ (RowsShown(out))' /\ buf' = buf
  BY <1>1, SameBuffer DEF Inv
<1>3. script.simple \in Seq(Diagnostic) /\ script.direct \in Seq(Diagnostic)
  BY ScriptAssumption DEF Inv, CollectInv
<1>4. CollectInv' /\ PrintInv' /\ LoopInv'
  <2>1. CASE EmitSimple
    BY <1>1, <1>2, <1>3, <2>1, SameBuffer
       DEF EmitSimple, Inv, CollectInv, PrintInv, LoopInv, Early, Underway
  <2>2. CASE MakeSourceManager
    BY <1>1, <1>2, <1>3, <2>2, SameBuffer
       DEF MakeSourceManager, Inv, CollectInv, PrintInv, LoopInv, Phase, Early, Underway
  <2>3. CASE WithSourceManager
    BY <1>1, <1>2, <1>3, <2>3, SameBuffer
       DEF WithSourceManager, Inv, CollectInv, PrintInv, LoopInv, Phase, Early, Underway
  <2>4. CASE Emit
    BY <1>1, <1>2, <1>3, <2>4, SameBuffer
       DEF Emit, Inv, CollectInv, PrintInv, LoopInv, Early, Underway
  <2>5. CASE PrintAll
    BY <1>1, <1>2, <1>3, <2>5, SameBuffer
       DEF PrintAll, Inv, CollectInv, PrintInv, LoopInv, Phase, Early, Underway
  <2> QED
    BY <2>1, <2>2, <2>3, <2>4, <2>5
<1> QED
  BY <1>2, <1>4 DEF Inv

LEMMA InvScan ==
    ASSUME Inv, BuildLineIndex
    PROVE  Inv'
<1>1. phase = "index" /\ phase' = phase /\ Scan /\ UNCHANGED deVars /\ buf' = buf
      /\ Cache' = Cache
  BY DEF BuildLineIndex, deVars, Scan
<1>2. IndexInv'
  BY <1>1, IndexScan DEF Inv
<1>3. CollectInv' /\ PrintInv' /\ LoopInv'
  BY <1>1 DEF Inv, CollectInv, PrintInv, LoopInv, deVars, Early, Underway
<1>4. CacheInv'
  BY <1>1 DEF Inv, CacheInv, CacheTruthful, LocationOf, LineOf, LineStartOf, Newlines, Size
<1>5. (RowsShown(out))'
  BY <1>1, RowsLast DEF Inv, deVars
<1> QED
  BY <1>2, <1>3, <1>4, <1>5 DEF Inv

\* What is known while a diagnostic is printed.
LEMMA PrintingFacts ==
    ASSUME Inv, phase \notin Early
    PROVE  /\ Built /\ LocationsRight /\ IndexBuilt /\ Simple = <<>>
           /\ current \in DOMAIN Diagnostics =>
                  /\ Now \in Diagnostic
                  /\ Now.location.from \in Nat /\ Now.location.to \in Nat
                  /\ Now.labels \in Seq([from : Nat, to : Nat, text : STRING])
                  /\ Now.notes \in Seq(STRING) /\ Now.helps \in Seq(STRING)
<1>1. Built /\ IndexBuilt /\ Simple = <<>>
  BY DEF Inv, CollectInv, Built
<1>2. LocationsRight
  BY <1>1, CacheRight DEF Inv, CacheInv
<1>3. ASSUME current \in DOMAIN Diagnostics PROVE Now \in Diagnostic
  BY <1>3 DEF Inv, CollectInv, Now
<1>4. ASSUME NEW d \in Diagnostic
      PROVE  /\ d.location.from \in Nat /\ d.location.to \in Nat
             /\ d.labels \in Seq([from : Nat, to : Nat, text : STRING])
             /\ d.notes \in Seq(STRING) /\ d.helps \in Seq(STRING)
  BY DEF Diagnostic, Location
<1> QED
  BY <1>1, <1>2, <1>3, <1>4

\* What a step of printing leaves as it was.
PrintFrame == UNCHANGED <<buf, LineStarts, scanned, Simple, Diagnostics, script, emitted>>

\* The parts of the invariant that every such step keeps.
LEMMA InvFrame ==
    ASSUME Inv, PrintFrame, phase \notin Early, phase' \in Phase \ Early
    PROVE  IndexInv' /\ CollectInv'
<1>1. Size' = Size /\ Newlines' = Newlines
  BY DEF PrintFrame, Size, Newlines
<1>2. IndexInv'
  BY <1>1 DEF Inv, IndexInv, PrintFrame, LineOf
<1>3. CollectInv'
  BY <1>1 DEF Inv, CollectInv, PrintFrame, IndexBuilt, Early
<1> QED
  BY <1>2, <1>3

LEMMA InvRemember ==
    ASSUME Inv, PrintFrame, phase \notin Early, NEW S \in SUBSET Nat, Remember(S)
    PROVE  CacheInv'
  BY RememberCorrect, PrintingFacts DEF Inv, CacheInv, PrintFrame, Built

LEMMA InvCacheSame ==
    ASSUME Inv, PrintFrame, UNCHANGED Cache
    PROVE  CacheInv'
  BY DEF Inv, CacheInv, CacheTruthful, PrintFrame, LocationOf, LineOf, LineStartOf,
         Newlines, Size

LEMMA InvWrite ==
    ASSUME Inv, PrintFrame, NEW rows, RowsShown(rows), Write(rows)
    PROVE  (RowsShown(out))'
<1>1. RowsShown(out \o rows)
  BY MoreRows DEF Inv
<1> QED
  BY <1>1, RowsLast DEF Write, PrintFrame

-----------------------------------------------------------------------------
(* The steps of printing.                                                  *)

LEMMA InvPrintTitle ==
    ASSUME Inv, PrintTitle
    PROVE  Inv'
<1>1. /\ phase = "title" /\ current <= Len(Diagnostics) /\ PrintFrame
      /\ phase' \in {"main", "labels"} /\ labels' = 0 /\ current' = current
  BY DEF PrintTitle, PrintFrame
<1>2. current \in DOMAIN Diagnostics
  BY <1>1 DEF Inv, PrintInv, CollectInv
<1>3. /\ Built /\ Now.location.from \in Nat
      /\ Now.labels \in Seq([from : Nat, to : Nat, text : STRING])
  BY <1>1, <1>2, PrintingFacts DEF Early
<1>4. IndexInv' /\ CollectInv'
  BY <1>1, InvFrame DEF Phase, Early
<1>5. CacheInv'
  <2>1. CASE HasSpan(Now)
    <3>1. Remember({Now.location.from})
      BY <2>1 DEF PrintTitle
    <3> QED
      BY <1>1, <1>3, <3>1, InvRemember DEF Early
  <2>2. CASE ~HasSpan(Now)
    <3>1. UNCHANGED Cache
      BY <2>2 DEF PrintTitle
    <3> QED
      BY <1>1, <3>1, InvCacheSame
  <2> QED
    BY <2>1, <2>2
<1>6. PrintInv'
  <2>1. Now' = Now /\ Len(Now.labels) \in Nat
    BY <1>1, <1>3 DEF Now, PrintFrame
  <2>2. 0 <= Len(Now.labels)
    BY <2>1
  <2> QED
    BY <1>1, <1>2, <2>1, <2>2 DEF PrintInv, Inv, PrintFrame
<1>7. LoopInv'
  BY <1>1 DEF LoopInv
<1>8. (RowsShown(out))'
  <2> DEFINE place ==
          CASE Now.location.kind = "None" -> <<>>
            [] Now.location.kind = "File" -> <<FileRow>>
            [] Now.location.kind = "Span" -> <<PlaceRow(getLocation(Now.location.from))>>
  <2>1. Now.location.kind \in {"None", "File", "Span"}
    <3>1. Now \in Diagnostic
      BY <1>1, <1>2, PrintingFacts DEF Early
    <3> QED
      BY <3>1 DEF Diagnostic, Location
  <2>2. RowsShown(place)
    BY <2>1, NoRows, OtherRows
  <2>3. RowsShown(<<TitleRow(Now)>> \o place)
    BY <2>2, OtherRows, MoreRows
  <2>4. Write(<<TitleRow(Now)>> \o place)
    BY DEF PrintTitle
  <2> HIDE DEF place
  <2> QED
    BY <1>1, <2>3, <2>4, InvWrite
<1> QED
  BY <1>4, <1>5, <1>6, <1>7, <1>8 DEF Inv

LEMMA InvPrintedAll ==
    ASSUME Inv, PrintedAll
    PROVE  Inv'
<1>1. UNCHANGED smVars /\ phase' = "done" /\ phase = "title"
      /\ UNCHANGED <<Simple, Diagnostics, script, emitted, current, labels, sn, out>>
  BY DEF PrintedAll
<1>2. IndexInv' /\ CacheInv' /\ (RowsShown(out))' /\ buf' = buf /\ IndexBuilt'
  BY <1>1, SameBuffer DEF Inv, CollectInv, Early
<1> QED
  BY <1>1, <1>2 DEF Inv, CollectInv, PrintInv, LoopInv, Phase, Early, Underway

\* Opening a snippet, the main one or one of a label.
LEMMA InvOpen ==
    ASSUME Inv, PrintFrame, phase \in Underway, current' = current, labels' \in Nat,
           labels' <= Len(Now.labels),
           NEW border \in BOOLEAN, NEW context \in BOOLEAN, NEW mark, NEW caption, NEW skip,
           MarkedSpan'.from \in Nat, MarkedSpan'.to \in Nat,
           OpenSnippet(MarkedSpan', border, context, mark, caption, skip)
    PROVE  IndexInv' /\ CollectInv' /\ PrintInv' /\ LoopInv' /\ (RowsShown(out))'
<1> DEFINE span == MarkedSpan'
           s == Snippet(span, context, mark, caption, skip)
<1>1. phase \notin Early /\ phase' \in {"labels", "lines"} /\ Built /\ LocationsRight
  BY PrintingFacts DEF Underway, Early, OpenSnippet
<1>2. IndexInv' /\ CollectInv'
  BY <1>1, InvFrame DEF Phase, Early
<1>3. PrintInv'
  <2>1. current \in DOMAIN Diagnostics /\ Now' = Now
    BY DEF Inv, PrintInv, Now, PrintFrame
  <2> QED
    BY <1>1, <2>1 DEF PrintInv, Inv, PrintFrame, Underway
<1>4. CASE Size = 0
  <2>1. phase' = "labels" /\ UNCHANGED out
    BY <1>4 DEF OpenSnippet
  <2>2. LoopInv'
    BY <2>1 DEF LoopInv
  <2>3. (RowsShown(out))'
    BY <2>1, RowsLast DEF Inv, PrintFrame
  <2> QED
    BY <1>2, <1>3, <2>2, <2>3
<1>5. CASE Size # 0
  <2>1. /\ phase' = "lines" /\ sn' = s
        /\ Write(IF border THEN <<BorderRow(s.gutter)>> ELSE <<>>)
    BY <1>5 DEF OpenSnippet
  <2>2. Whole(s) /\ Covers(s, span) /\ AtLine(s)
    BY <1>1, <1>5, SnippetOpened
  <2>3. LoopInv'
    <3> HIDE DEF s
    <3>1. Size' = Size /\ LineStarts' = LineStarts /\ Newlines' = Newlines
      BY DEF PrintFrame, Size, Newlines
    <3>2. (Whole(sn))'
      BY <2>1, <2>2 DEF Whole
    <3>3. (AtLine(sn))'
      BY <2>1, <2>2, <3>1 DEF AtLine
    <3>4. (Covers(sn, MarkedSpan))'
      BY <2>1, <2>2, <3>1 DEF Covers, LineOf, Start, End
    <3> QED
      BY <1>5, <3>1, <3>2, <3>3, <3>4 DEF LoopInv
  <2>4. RowsShown(IF border THEN <<BorderRow(s.gutter)>> ELSE <<>>)
    <3> HIDE DEF s
    <3> QED
      BY NoRows, OtherRows
  <2>5. (RowsShown(out))'
    <3> HIDE DEF s
    <3> QED
      BY <2>1, <2>4, InvWrite
  <2> QED
    BY <1>2, <1>3, <2>3, <2>5
<1> QED
  BY <1>4, <1>5

LEMMA InvMainSnippet ==
    ASSUME Inv, MainSnippet
    PROVE  Inv'
<1>1. /\ phase = "main" /\ PrintFrame /\ current' = current /\ labels' = labels
      /\ OpenSnippet(Now.location, TRUE, TRUE, "^", MainCaption, 0)
  BY DEF MainSnippet, PrintFrame
<1>2. /\ phase \notin Early /\ phase \in Underway /\ labels = 0
      /\ current \in DOMAIN Diagnostics
      /\ labels' \in Nat /\ labels' <= Len(Now.labels)
  BY <1>1 DEF Early, Underway, Inv, PrintInv
<1>3. Built /\ Now.location.from \in Nat /\ Now.location.to \in Nat
  BY <1>2, PrintingFacts
<1>4. MarkedSpan' = Now.location
  BY <1>1, <1>2 DEF MarkedSpan, Now, PrintFrame
<1>5. IndexInv' /\ CollectInv' /\ PrintInv' /\ LoopInv' /\ (RowsShown(out))'
  <2>1. OpenSnippet(MarkedSpan', TRUE, TRUE, "^", MainCaption, 0)
    BY <1>1, <1>4
  <2> QED
    BY <1>1, <1>2, <1>3, <1>4, <2>1, InvOpen
<1>6. CacheInv'
  <2> DEFINE S == {Now.location.to} \cup IF Size = 0 THEN {}
                      ELSE {Start(Now.location), End(Now.location)}
  <2>1. S \in SUBSET Nat
    BY <1>3, SpanInBuffer, BuiltFacts
  <2>2. Remember(S)
    BY DEF MainSnippet
  <2> HIDE DEF S
  <2> QED
    BY <1>1, <1>2, <2>1, <2>2, InvRemember
<1> QED
  BY <1>5, <1>6 DEF Inv

LEMMA InvLabelSnippet ==
    ASSUME Inv, LabelSnippet
    PROVE  Inv'
<1> DEFINE label == Now.labels[labels + 1]
<1>1. /\ phase = "labels" /\ labels < Len(Now.labels) /\ PrintFrame
      /\ current' = current /\ labels' = labels + 1
      /\ IF HasSpan(Now)
         THEN OpenSnippet(label, FALSE, FALSE, "-", label.text, MainCtxEndLine)
         ELSE OpenSnippet(label, TRUE, TRUE, "-", label.text, 0)
      /\ Remember(IF Size = 0 THEN {} ELSE {Start(label), End(label)})
  BY DEF LabelSnippet, PrintFrame
<1>2. /\ phase \notin Early /\ phase \in Underway /\ labels \in Nat
      /\ current \in DOMAIN Diagnostics
  BY <1>1 DEF Early, Underway, Inv, PrintInv
<1>3. Built /\ Now.labels \in Seq([from : Nat, to : Nat, text : STRING])
  BY <1>2, PrintingFacts
<1>4. /\ labels + 1 \in DOMAIN Now.labels /\ labels' \in Nat /\ labels' <= Len(Now.labels)
      /\ labels' # 0
  BY <1>1, <1>2, <1>3
<1>5. label \in [from : Nat, to : Nat, text : STRING]
  <2>1. ASSUME NEW T, NEW seq \in Seq(T), NEW k \in DOMAIN seq PROVE seq[k] \in T
    OBVIOUS
  <2> QED
    BY <1>3, <1>4, <2>1
<1>6. label.from \in Nat /\ label.to \in Nat
  BY <1>5
<1>7. MarkedSpan' = label
  BY <1>1, <1>4 DEF MarkedSpan, Now, PrintFrame
<1> HIDE DEF label
<1>8. IndexInv' /\ CollectInv' /\ PrintInv' /\ LoopInv' /\ (RowsShown(out))'
  <2>1. CASE HasSpan(Now)
    <3>1. OpenSnippet(MarkedSpan', FALSE, FALSE, "-", label.text, MainCtxEndLine)
      BY <1>1, <1>7, <2>1
    <3> QED
      BY <1>1, <1>2, <1>4, <1>6, <1>7, <3>1, InvOpen
  <2>2. CASE ~HasSpan(Now)
    <3>1. OpenSnippet(MarkedSpan', TRUE, TRUE, "-", label.text, 0)
      BY <1>1, <1>7, <2>2
    <3> QED
      BY <1>1, <1>2, <1>4, <1>6, <1>7, <3>1, InvOpen
  <2> QED
    BY <2>1, <2>2
<1>9. CacheInv'
  <2> DEFINE S == IF Size = 0 THEN {} ELSE {Start(label), End(label)}
  <2>1. S \in SUBSET Nat
    BY <1>3, <1>6, SpanInBuffer, BuiltFacts
  <2>2. Remember(S)
    BY <1>1
  <2> HIDE DEF S
  <2> QED
    BY <1>1, <1>2, <2>1, <2>2, InvRemember
<1> QED
  BY <1>8, <1>9 DEF Inv

\* One round of the loop: the next line starts behind the line end.
LEMMA InvPrintLine ==
    ASSUME Inv, PrintLine
    PROVE  Inv'
<1> DEFINE to == findLineEnd(sn.off)
           pad == sn.gutter - digitWidth[sn.line]
           text == IF sn.skip # 0 /\ sn.line = sn.skip THEN <<>>
                   ELSE <<TextRow(sn.line, sn.off, to, pad)>>
           marks == IF InSpan THEN <<Marks(to)>> ELSE <<>>
<1>1. /\ phase = "lines" /\ sn.line <= sn.last /\ PrintFrame
      /\ current' = current /\ labels' = labels /\ UNCHANGED Cache
      /\ Write(text \o marks)
      /\ IF to >= Size THEN phase' = "labels" /\ sn' = sn
         ELSE sn' = [sn EXCEPT !.off = to + 1, !.line = @ + 1] /\ phase' = phase
  BY DEF PrintLine, PrintFrame, smVars
<1>2. /\ phase \notin Early /\ phase \in Underway /\ current \in DOMAIN Diagnostics
      /\ Size # 0 /\ Whole(sn) /\ Covers(sn, MarkedSpan) /\ AtLine(sn)
      /\ phase' \in {"lines", "labels"}
  BY <1>1 DEF Early, Underway, Inv, PrintInv, LoopInv
<1>3. Built
  BY <1>2, PrintingFacts
<1>4. /\ sn.line \in DOMAIN LineStarts /\ sn.off = LineStarts[sn.line]
      /\ sn.off \in 0..Size /\ sn.line \in Nat /\ sn.last \in 0..Len(LineStarts)
  BY <1>1, <1>2, <1>3, BuiltFacts DEF AtLine
<1>5. IndexInv' /\ CollectInv'
  BY <1>1, <1>2, InvFrame DEF Phase, Early
<1>6. CacheInv'
  BY <1>1, InvCacheSame
<1>7. PrintInv'
  <2>1. Now' = Now
    BY <1>1 DEF Now, PrintFrame
  <2> QED
    BY <1>1, <1>2, <2>1 DEF PrintInv, Inv, PrintFrame, Underway
<1>8. (RowsShown(out))'
  <2>1. RowsShown(<<TextRow(sn.line, sn.off, to, pad)>>)
    BY <1>3, <1>4, LineShown
  <2>2. RowsShown(text)
    BY <2>1, NoRows
  <2>3. RowsShown(marks)
    BY NoRows, OtherRows
  <2> HIDE DEF text, marks
  <2>4. RowsShown(text \o marks)
    BY <2>2, <2>3, MoreRows
  <2> QED
    BY <1>1, <2>4, InvWrite
<1>9. LoopInv'
  <2>1. CASE to >= Size
    BY <1>1, <2>1 DEF LoopInv
  <2>2. CASE ~(to >= Size)
    <3>1. /\ to \in sn.off..Size /\ to \in Newlines /\ to \in Nat /\ to < Size
          /\ \A o \in sn.off..(to - 1) : o \notin Newlines
      <4>1. /\ to \in sn.off..Size
            /\ \A o \in sn.off..(to - 1) : o \notin Newlines
            /\ to = Size \/ to \in Newlines
        BY <1>3, <1>4, FindLineEnd
      <4>2. Size \in Nat /\ sn.off \in Nat
        BY <1>3, <1>4, BuiltFacts
      <4> HIDE DEF to
      <4> QED
        BY <2>2, <4>1, <4>2
    <3>2. LineOf(to) = sn.line
      <4>1. LineStarts[sn.line] <= to /\ to <= findLineEnd(LineStarts[sn.line])
        BY <1>3, <1>4, <3>1, BuiltFacts
      <4> QED
        BY <1>3, <1>4, <3>1, <4>1, LineExtent
    <3>3. sn.line + 1 \in DOMAIN LineStarts /\ LineStarts[sn.line + 1] = to + 1
      BY <1>3, <3>1, <3>2, NextLineStart
    <3>4. sn' = [sn EXCEPT !.off = to + 1, !.line = @ + 1] /\ to + 1 \in 0..Size
      BY <1>1, <1>3, <2>2, <3>1, BuiltFacts
    <3> HIDE DEF to
    <3>5. /\ sn' = [line |-> sn.line + 1, off |-> to + 1,
                    startLine |-> sn.startLine, endLine |-> sn.endLine,
                    startCol |-> sn.startCol, endCol |-> sn.endCol, last |-> sn.last,
                    gutter |-> sn.gutter, mark |-> sn.mark, caption |-> sn.caption,
                    skip |-> sn.skip]
      BY <1>2, <3>4 DEF Whole
    <3>6. Size' = Size /\ LineStarts' = LineStarts /\ Newlines' = Newlines
          /\ MarkedSpan' = MarkedSpan
      BY <1>1 DEF PrintFrame, Size, Newlines, MarkedSpan, Now
    <3>7. (Whole(sn))'
      BY <3>5 DEF Whole
    <3>8. (Covers(sn, MarkedSpan))'
      BY <1>2, <3>5, <3>6 DEF Covers, LineOf, Start, End
    <3>9. (AtLine(sn))'
      <4>1. /\ sn'.line = sn.line + 1 /\ sn'.off = to + 1 /\ sn'.last = sn.last
            /\ sn.last \in Nat
        BY <1>3, <1>4, <3>5, BuiltFacts
      <4>2. sn'.line \in Nat \ {0} /\ sn'.line <= sn'.last + 1
        BY <1>1, <1>4, <4>1
      <4> QED
        BY <1>4, <3>3, <3>4, <3>6, <4>1, <4>2 DEF AtLine
    <3> QED
      BY <1>2, <3>6, <3>7, <3>8, <3>9 DEF LoopInv
  <2> QED
    BY <2>1, <2>2
<1> QED
  BY <1>5, <1>6, <1>7, <1>8, <1>9 DEF Inv

LEMMA InvEndSnippet ==
    ASSUME Inv, EndSnippet
    PROVE  Inv'
<1>1. /\ UNCHANGED smVars /\ phase' = "labels" /\ phase = "lines"
      /\ UNCHANGED <<Simple, Diagnostics, script, emitted, current, labels, sn, out>>
  BY DEF EndSnippet
<1>2. IndexInv' /\ CacheInv' /\ (RowsShown(out))' /\ buf' = buf /\ IndexBuilt'
  BY <1>1, SameBuffer DEF Inv, CollectInv, Early
<1>3. PrintInv'
  BY <1>1 DEF Inv, PrintInv, Underway, Now
<1> QED
  BY <1>1, <1>2, <1>3 DEF Inv, CollectInv, LoopInv, Phase, Early

LEMMA InvPrintRest ==
    ASSUME Inv, PrintRest
    PROVE  Inv'
<1> DEFINE notes == RowsOf(Now.notes, NoteRow)
           helps == RowsOf(Remaining(Now.helps), HelpRow)
           banner == IF Now.ice THEN <<IceRow>> ELSE <<>>
<1>1. /\ phase = "labels" /\ PrintFrame /\ UNCHANGED Cache /\ phase' = "title"
      /\ current' = current + 1 /\ labels' = labels /\ Write(notes \o helps \o banner)
  BY DEF PrintRest, PrintFrame, smVars
<1>2. /\ phase \notin Early /\ phase \in Underway /\ current \in DOMAIN Diagnostics
      /\ current \in Nat
  BY <1>1 DEF Early, Underway, Inv, PrintInv
<1>3. Now.notes \in Seq(STRING) /\ Now.helps \in Seq(STRING)
  BY <1>2, PrintingFacts
<1>4. Remaining(Now.helps) \in Seq(STRING)
  <2>1. ASSUME NEW texts \in Seq(STRING) PROVE Remaining(texts) \in Seq(STRING)
    <3>1. CASE texts = <<>>
      BY <3>1 DEF Remaining
    <3>2. CASE texts # <<>>
      BY <3>2, HeadTailProperties DEF Remaining
    <3> QED
      BY <3>1, <3>2
  <2> QED
    BY <1>3, <2>1
<1>5. IndexInv' /\ CollectInv'
  BY <1>1, <1>2, InvFrame DEF Phase, Early
<1>6. CacheInv'
  BY <1>1, InvCacheSame
<1>7. PrintInv' /\ LoopInv'
  BY <1>1, <1>2 DEF PrintInv, LoopInv, Inv, Underway
<1>8. (RowsShown(out))'
  <2>1. RowsShown(notes) /\ RowsShown(helps)
    BY <1>3, <1>4, TextRows
  <2>2. RowsShown(banner)
    BY NoRows, OtherRows
  <2> HIDE DEF notes, helps, banner
  <2>3. RowsShown(notes \o helps \o banner)
    BY <2>1, <2>2, MoreRows
  <2> QED
    BY <1>1, <2>3, InvWrite
<1> QED
  BY <1>5, <1>6, <1>7, <1>8 DEF Inv

-----------------------------------------------------------------------------
(* The theorems.                                                           *)

LEMMA InvStutter ==
    ASSUME Inv, UNCHANGED vars
    PROVE  Inv'
<1>1. /\ UNCHANGED smVars /\ UNCHANGED deVars
      /\ UNCHANGED <<phase, Simple, Diagnostics, script, emitted, current, labels, sn, out>>
  BY DEF vars, deVars
<1>2. IndexInv' /\ CacheInv' /\ (RowsShown(out))' /\ buf' = buf /\ LineStarts' = LineStarts
      /\ (IndexBuilt => IndexBuilt') /\ Size' = Size
  BY <1>1, SameBuffer DEF Inv
<1>3. CollectInv'
  BY <1>1, <1>2 DEF Inv, CollectInv
<1>4. PrintInv'
  BY <1>1 DEF Inv, PrintInv, Now
<1>5. LoopInv'
  BY <1>1, <1>2 DEF Inv, LoopInv, Whole, Covers, AtLine, MarkedSpan, Now, LineOf, Newlines,
                    Size, Start, End
<1> QED
  BY <1>2, <1>3, <1>4, <1>5 DEF Inv

LEMMA InvNext ==
    ASSUME Inv, [Next]_vars
    PROVE  Inv'
<1>1. ASSUME EmitSimple \/ MakeSourceManager \/ WithSourceManager \/ Emit \/ PrintAll
      PROVE  Inv'
  BY <1>1, InvCollect
<1>2. ASSUME PrintDiagnostic PROVE Inv'
  BY <1>2, InvPrintTitle, InvPrintedAll, InvMainSnippet, InvLabelSnippet, InvPrintLine,
     InvEndSnippet, InvPrintRest DEF PrintDiagnostic
<1> QED
  BY <1>1, <1>2, InvScan, InvStutter DEF Next

\* The invariant the other theorems rest on.
THEOREM Invariance == Spec => []Inv
  BY InvInit, InvNext, PTL DEF Spec

\* Every variable keeps its type, and the loop of printSnippet stays within the
\* buffer, whatever spans the diagnostics have.
THEOREM Types == Spec => []TypeOK
<1>1. Inv => TypeOK
  <2>1. SUFFICES ASSUME Inv PROVE TypeOK
    OBVIOUS
  <2>2. buf \in Buffers
    BY <2>1, ScriptAssumption DEF Inv, CollectInv
  <2>3. scanned \in 0..Size /\ phase \in Phase
    BY <2>1 DEF Inv, IndexInv, CollectInv
  <2>4. /\ phase \notin {"simple", "index"} => IndexBuilt /\ Simple = <<>>
        /\ emitted \in 0..Len(IF phase \in {"simple", "index"} THEN script.simple
                              ELSE script.direct)
    <3>1. Len(script.simple) \in Nat
      BY <2>1, ScriptAssumption DEF Inv, CollectInv
    <3> QED
      BY <2>1, <3>1 DEF Inv, CollectInv, Early
  <2>5. phase \in {"main", "lines", "labels"} => current \in DOMAIN Diagnostics
    BY <2>1 DEF Inv, PrintInv, Underway
  <2>6. phase \in {"main", "lines", "labels"} => labels \in 0..Len(Now.labels)
    <3>1. SUFFICES ASSUME phase \in {"main", "lines", "labels"}
                   PROVE  labels \in 0..Len(Now.labels)
      OBVIOUS
    <3>2. Len(Now.labels) \in Nat /\ labels \in Nat /\ labels <= Len(Now.labels)
      BY <2>1, <2>5, <3>1, PrintingFacts DEF Inv, PrintInv, Underway, Early
    <3> QED
      BY <3>2
  <2>7. phase = "lines" => sn.off \in 0..Size /\ sn.line \in 1..(sn.last + 1)
    <3>1. SUFFICES ASSUME phase = "lines"
                   PROVE  sn.off \in 0..Size /\ sn.line \in 1..(sn.last + 1)
      OBVIOUS
    <3>2. AtLine(sn) /\ Len(LineStarts) \in Nat
      BY <2>1, <3>1, PrintingFacts, BuiltFacts DEF Inv, LoopInv, Early
    <3> QED
      BY <3>2 DEF AtLine
  <2> QED
    BY <2>2, <2>3, <2>4, <2>5, <2>6, <2>7 DEF TypeOK
<1> QED
  BY <1>1, Invariance, PTL

\* The locations that are remembered are those of their offsets.
THEOREM CacheStaysTruthful == Spec => []CacheTruthful
<1>1. Inv => CacheTruthful
  BY DEF Inv, CacheInv
<1> QED
  BY <1>1, Invariance, PTL

\* Lines of text are whole lines of the buffer with their numbers.
THEOREM LinesStayNumbered == Spec => []LinesNumbered
<1>1. Inv => LinesNumbered
  BY DEF Inv, RowsShown, LinesNumbered
<1> QED
  BY <1>1, Invariance, PTL

\* Where the marks under a line begin and end, as offsets.
LEMMA MarksWithin ==
    ASSUME Inv, phase = "lines", sn.line <= sn.last, InSpan
    PROVE  LET a == sn.off
               to == findLineEnd(a)
               S == Start(MarkedSpan)
               E == End(MarkedSpan)
           IN  /\ Built /\ a \in 0..Size /\ to \in a..Size /\ S \in 0..Size /\ E \in 0..Size
               /\ S <= E /\ S <= to /\ a <= E
               /\ sn.line \in DOMAIN LineStarts /\ a = LineStarts[sn.line]
               /\ a + FromCol - 1 = IF S < a THEN a ELSE S
               /\ a + ToCol(to) - 1 = IF to < E THEN to ELSE E
               /\ FromCol \in Int /\ ToCol(to) \in Int
<1> DEFINE a == sn.off
           to == findLineEnd(a)
           S == Start(MarkedSpan)
           E == End(MarkedSpan)
           L == sn.line
<1>1. /\ Built /\ Covers(sn, MarkedSpan) /\ AtLine(sn)
      /\ MarkedSpan.from \in Nat /\ MarkedSpan.to \in Nat
  <2>1. Built /\ current \in DOMAIN Diagnostics
    BY PrintingFacts DEF Inv, PrintInv, Early, Underway
  <2>2. /\ Now.location.from \in Nat /\ Now.location.to \in Nat
        /\ Now.labels \in Seq([from : Nat, to : Nat, text : STRING])
    BY <2>1, PrintingFacts DEF Early
  <2>3. labels \in Nat /\ labels <= Len(Now.labels)
    BY DEF Inv, PrintInv, Underway
  <2>4. CASE labels = 0
    BY <2>1, <2>2, <2>4 DEF MarkedSpan, Inv, LoopInv
  <2>5. CASE labels # 0
    <3>1. ASSUME NEW T, NEW seq \in Seq(T), NEW k \in 1..Len(seq) PROVE seq[k] \in T
      OBVIOUS
    <3>2. labels \in 1..Len(Now.labels)
      BY <2>2, <2>3, <2>5
    <3>3. Now.labels[labels] \in [from : Nat, to : Nat, text : STRING]
      BY <2>2, <3>1, <3>2
    <3>4. Now.labels[labels].from \in Nat /\ Now.labels[labels].to \in Nat
      BY <3>3
    <3> QED
      BY <2>1, <2>5, <3>4 DEF MarkedSpan, Inv, LoopInv
  <2> QED
    BY <2>3, <2>4, <2>5
<1>2. /\ a \in 0..Size /\ Size \in Nat /\ L \in DOMAIN LineStarts /\ a = LineStarts[L]
      /\ L \in Nat /\ LineOf(a) = L
  <2>1. L \in 1..Len(LineStarts) /\ Len(LineStarts) \in Nat
    BY <1>1, BuiltFacts DEF AtLine
  <2> QED
    BY <1>1, <2>1, BuiltFacts DEF AtLine
<1>3. S \in 0..Size /\ E \in 0..Size /\ S <= E /\ to \in a..Size
  BY <1>1, <1>2, SpanInBuffer, FindLineEnd
<1>4. /\ sn.startLine = LineOf(S) /\ sn.endLine = LineOf(E)
      /\ sn.startCol = S - LineStarts[LineOf(S)] + 1
      /\ sn.endCol = E - LineStarts[LineOf(E)] + 1
      /\ LineOf(S) <= L /\ L <= LineOf(E)
  BY <1>1 DEF Covers, InSpan
<1>5. LineOf(S) \in Nat /\ LineOf(E) \in Nat
  BY <1>1, <1>3, LineStartsItself
<1>6. (LineOf(S) = L <=> a <= S /\ S <= to) /\ (LineOf(E) = L <=> a <= E /\ E <= to)
  BY <1>1, <1>2, <1>3, LineExtent
<1>7. (L <= LineOf(S) <=> a <= S) /\ (L <= LineOf(E) <=> a <= E)
  BY <1>1, <1>2, <1>3, StartsUpTo DEF Built
<1>8. FromCol = IF L = LineOf(S) THEN S - a + 1 ELSE 1
  BY <1>2, <1>4 DEF FromCol
<1>9. ToCol(to) = IF L = LineOf(E) THEN E - a + 1 ELSE to - a + 1
  BY <1>2, <1>4 DEF ToCol
<1> HIDE DEF a, to, S, E, L
<1>10. a \in Nat /\ to \in Nat /\ S \in Nat /\ E \in Nat /\ a <= to
  BY <1>2, <1>3
<1>11. S <= to /\ a <= E
  BY <1>2, <1>4, <1>5, <1>6, <1>7, <1>10
<1>12. /\ a + FromCol - 1 = (IF S < a THEN a ELSE S)
       /\ FromCol \in Int
  BY <1>2, <1>4, <1>5, <1>6, <1>7, <1>8, <1>10, <1>11
<1>13. /\ a + ToCol(to) - 1 = (IF to < E THEN to ELSE E)
       /\ ToCol(to) \in Int
  BY <1>2, <1>4, <1>5, <1>6, <1>7, <1>9, <1>10, <1>11
<1> QED
  BY <1>1, <1>2, <1>3, <1>11, <1>12, <1>13 DEF a, to, S, E, L

\* The first character of a line is the one offset that starts its own line.
LEMMA FirstOfLine ==
    ASSUME Built, NEW k \in DOMAIN LineStarts
    PROVE  (CHOOSE o \in 0..Size : LineOf(o) = k /\ LineStartOf(o) = o) = LineStarts[k]
<1> DEFINE P(o) == LineOf(o) = k /\ LineStartOf(o) = o
           a == LineStarts[k]
<1>1. a \in 0..Size /\ LineOf(a) = k
  BY BuiltFacts
<1>2. \A o \in 0..Size : LineOf(o) = k => LineStartOf(o) = a
  BY LineStartsItself
<1>3. P(a)
  BY <1>1, <1>2
<1>4. \A o \in 0..Size : P(o) => o = a
  BY <1>2
<1> HIDE DEF P, a
<1>5. (CHOOSE o \in 0..Size : P(o)) = a
  BY <1>1, <1>3, <1>4
<1> QED
  BY <1>5 DEF P, a

\* Marks stand under the characters of the span that are in the line, and no
\* others.
THEOREM MarksStayInSpan == Spec => []MarksShowSpan
<1>1. Inv => MarksShowSpan
  <2> SUFFICES ASSUME Inv, phase = "lines", sn.line <= sn.last, InSpan
               PROVE  MarksShowSpan
    BY DEF MarksShowSpan
  <2> DEFINE a == sn.off
             to == findLineEnd(a)
             S == Start(MarkedSpan)
             E == End(MarkedSpan)
             low == IF S < a THEN a ELSE S
             high == IF to < E THEN to ELSE E
             r == Marks(to)
             first == CHOOSE o \in 0..Size : LineOf(o) = r.line /\ LineStartOf(o) = o
             marked == {first + c - 1 : c \in r.from..(r.from + r.width - 1)}
             inLine == InLine(MarkedSpan, r.line)
  <2>1. /\ Built /\ a \in 0..Size /\ to \in a..Size /\ S \in 0..Size /\ E \in 0..Size
        /\ S <= E /\ S <= to /\ a <= E
        /\ sn.line \in DOMAIN LineStarts /\ a = LineStarts[sn.line]
        /\ a + FromCol - 1 = low /\ a + ToCol(to) - 1 = high
        /\ FromCol \in Int /\ ToCol(to) \in Int
    BY MarksWithin
  <2>2. r.line = sn.line /\ r.from = FromCol /\ r.width = Width(to)
    BY DEF Marks, MarkRow
  <2>3. first = a
    BY <2>1, <2>2, FirstOfLine
  <2>4. Size \in Nat /\ Newlines \subseteq 0..(Size - 1)
    BY <2>1, BuiltFacts
  <2>5. /\ \A o \in a..(to - 1) : o \notin Newlines
        /\ to = Size \/ to \in Newlines
    BY <2>1, FindLineEnd
  <2>6. \A o \in 0..Size : LineOf(o) = sn.line <=> a <= o /\ o <= to
    BY <2>1, LineExtent
  <2>7. inLine = {o \in S..(E - 1) : o \notin Newlines /\ LineOf(o) = sn.line}
    BY <2>2 DEF InLine
  <2> HIDE DEF a, to, S, E, r, first, inLine
  <2>8. a \in Nat /\ to \in Nat /\ S \in Nat /\ E \in Nat /\ a <= to /\ E <= Size
    BY <2>1, <2>4
  <2>9. inLine = low..(high - 1)
    <3>1. \A o \in S..(E - 1) :
              o \notin Newlines /\ LineOf(o) = sn.line <=> a <= o /\ o < to
      <4>1. TAKE o \in S..(E - 1)
      <4>2. o \in 0..Size /\ o < Size /\ o \in Nat
        BY <2>4, <2>8, <4>1
      <4>3. CASE o = to
        BY <2>4, <2>5, <2>8, <4>2, <4>3
      <4>4. CASE o # to
        BY <2>5, <2>6, <2>8, <4>2, <4>4
      <4> QED
        BY <4>3, <4>4
    <3>2. inLine = {o \in S..(E - 1) : a <= o /\ o < to}
      BY <2>7, <3>1
    <3> QED
      BY <2>8, <3>2
  <2>10. Width(to) = IF high <= low THEN 1 ELSE high - low
    <3>1. low \in Nat /\ high \in Nat
      BY <2>8
    <3> HIDE DEF low, high
    <3> QED
      BY <2>1, <2>8, <3>1 DEF Width
  <2>11. CASE low < high
    <3>1. inLine # {}
      <4>1. low \in low..(high - 1)
        BY <2>8, <2>11
      <4> QED
        BY <2>9, <4>1
    <3>2. marked = low..(high - 1)
      <4>1. low \in Nat /\ high \in Nat
        BY <2>8
      <4>2. r.width = high - low /\ first + r.from - 1 = low /\ r.from \in Int
            /\ first \in Nat
        BY <2>1, <2>2, <2>3, <2>8, <2>10, <2>11, <4>1
      <4> HIDE DEF low, high
      <4>3. ASSUME NEW c \in r.from..(r.from + r.width - 1)
            PROVE  first + c - 1 \in low..(high - 1)
        BY <4>1, <4>2
      <4>4. ASSUME NEW o \in low..(high - 1)
            PROVE  \E c \in r.from..(r.from + r.width - 1) : o = first + c - 1
        <5>1. /\ o - first + 1 \in r.from..(r.from + r.width - 1)
              /\ o = first + (o - first + 1) - 1
          BY <4>1, <4>2
        <5> QED
          BY <5>1
      <4> QED
        BY <4>3, <4>4
    <3>3. marked = inLine
      BY <2>9, <3>2
    <3> QED
      BY <3>1, <3>3 DEF MarksShowSpan, r, first, to, a, inLine
  <2>12. CASE ~(low < high)
    <3>1. inLine = {}
      BY <2>8, <2>9, <2>12
    <3>2. r.width = 1
      BY <2>2, <2>8, <2>10, <2>12
    <3>3. findLineEnd(first) = to
      BY <2>3 DEF to
    <3>4. first + r.from - 1 <= findLineEnd(first)
      BY <2>1, <2>2, <2>3, <2>8, <3>3
    <3> QED
      BY <3>1, <3>2, <3>4 DEF MarksShowSpan, r, first, to, a, inLine
  <2> QED
    BY <2>8, <2>11, <2>12
<1> QED
  BY <1>1, Invariance, PTL
=============================================================================
